------------------------ MODULE BlockProtocolProofs ------------------------
(***************************************************************************)
(* Proofs about BlockProtocol, for any calls, devices, jobs and chunk size *)
(* and any number of deaths and restarts: first its types and how packets  *)
(* are framed, then what is in the streams: which requests are under way,  *)
(* which answers, and where their data goes.                               *)
(***************************************************************************)
EXTENDS BlockProtocol, SequenceTheorems, DataInduction

(***************************************************************************)
(* The inductive invariant.                                                *)
(***************************************************************************)

\* A stream in which the data of every 'n' packet comes right after its header
FramedSeq(s) ==
  \A p \in 1..Len(s) : s[p].t = "n" =>
    \A q \in 1..Len(s) : (p < q /\ q <= p + s[p].len) => s[q].t = "d"

\* ... and is all there, but for a last header whose data, out items of it, the
\* server is about to send.
Whole(s, out) ==
  \A p \in 1..Len(s) : s[p].t = "n" =>
    p + s[p].len <= Len(s) \/ (p = Len(s) /\ s[p].len = out)

\* The first l items of s, if it has as many, are data.
LeadsWithData(s, l) == \A q \in 1..Len(s) : q <= l => s[q].t = "d"

Outstanding(c) == IF srv.pc = "data" /\ srv.c = c THEN Len(ChunkData) ELSE 0

\* Between the request for an extent and the end of its answer, the call is at
\* one of its extents.
AtExtent(c) ==
  call[c].pc \in {"hdr", "data"} => call[c].k \in 1..Len(call[c].job.blockv)

\* What the call has still to receive of a packet leads its stream; it has come
\* or is what the server is about to send.
InPacket(c) ==
  call[c].pc = "data" =>
    /\ call[c].l > 0
    /\ LeadsWithData(s2c[c], call[c].l)
    /\ link[c] = "open" =>
         \/ call[c].l <= Len(s2c[c])
         \/ s2c[c] = <<>> /\ call[c].l = Outstanding(c)

\* Nothing reaches a call that has not connected.
Fresh(c) == call[c].pc = "idle" => link[c] # "open" /\ s2c[c] = <<>>

CallInv(c) ==
  /\ AtExtent(c)
  /\ InPacket(c)
  /\ FramedSeq(s2c[c])
  /\ link[c] = "open" => Whole(s2c[c], Outstanding(c))
  /\ Fresh(c)

\* Between a header and its data the loop over the chunks has not ended.
InChunk == srv.pc = "data" => srv.i < srv.ext.cnt

Inv == TypeOK /\ InChunk /\ \A c \in Calls : CallInv(c)

(***************************************************************************)
(* What the helpers return.                                                *)
(***************************************************************************)

USE ConstantsAssumption

\* FileRead returns data items only.
LEMMA FileReadType ==
  ASSUME NEW d \in Devs, NEW a \in Nat, NEW l \in Nat
  PROVE  /\ FileRead(d, a, l) \in Seq(DataItem)
         /\ \A q \in 1..Len(FileRead(d, a, l)) : FileRead(d, a, l)[q].t = "d"
<1> DEFINE n == LesserOf(l, GreaterOf(0, Length[d] - a))
<1>1. n \in Nat
  BY DEF LesserOf, GreaterOf
<1>2. FileRead(d, a, l) = [i \in 1..n |-> Data(<<d, a + i - 1>>)]
  BY DEF FileRead
<1>3. \A i \in 1..n : Data(<<d, a + i - 1>>) \in DataItem
  BY <1>1 DEF Data, DataItem
<1>4. \A i \in 1..n : Data(<<d, a + i - 1>>).t = "d"
  BY DEF Data
<1>5. FileRead(d, a, l) \in [1..n -> DataItem]
  BY <1>2, <1>3, Zenon
<1>6. FileRead(d, a, l) \in Seq(DataItem) /\ Len(FileRead(d, a, l)) = n
  <2> HIDE DEF n
  <2> QED  BY <1>1, <1>5
<1>7. \A q \in 1..n : FileRead(d, a, l)[q].t = "d"
  BY <1>2, <1>4
<1> QED
  BY <1>6, <1>7

\* What the server's locals are while it serves a request.
LEMMA ServerLocals ==
  ASSUME TypeOK, srv.pc \in {"open", "chunk", "data", "except", "last", "verbose"}
  PROVE  /\ srv.c \in Calls /\ srv.k \in Nat \ {0} /\ srv.n \in Nat
         /\ srv.ext \in Extent /\ srv.off \in Nat /\ srv.i \in Nat
         /\ srv.bound \in BOOLEAN
         /\ srv \in [pc : {"open", "chunk", "data", "except", "last", "verbose"},
            c : Calls, k : Nat \ {0}, n : Nat, ext : Extent, off : Nat,
            i : Nat, bound : BOOLEAN]
  BY DEF TypeOK, ServerState

\* What a call's locals are once it has started.
LEMMA CallLocals ==
  ASSUME TypeOK, NEW c \in Calls, call[c].pc # "idle"
  PROVE  /\ call[c] \in CallState
         /\ call[c].job \in Jobs /\ call[c].job.blockv \in Seq(Extent)
  BY DEF TypeOK, CallState, Idle

\* The chunk in hand is data items.
LEMMA ChunkDataType ==
  ASSUME TypeOK, srv.pc \in {"chunk", "data"}, srv.i < srv.ext.cnt
  PROVE  /\ ChunkData \in Seq(DataItem)
         /\ \A q \in 1..Len(ChunkData) : ChunkData[q].t = "d"
  BY ServerLocals, FileReadType, SMTT(30) DEF ChunkData, ChunkAddr, ChunkLen, LesserOf, Extent

(***************************************************************************)
(* Type correctness.                                                       *)
(***************************************************************************)

\* Closing its socket leaves the client's side of the connection well typed.
LEMMA ClientCloseType ==
  ASSUME TypeOK, NEW c \in Calls, ClientClose(c)
  PROVE  /\ link' \in [Calls -> {"none", "open", "cfin", "crst", "sfin", "srst", "down"}]
         /\ s2c' \in [Calls -> Seq(HeaderItem \union DataItem)]
<1> DEFINE I == HeaderItem \union DataItem
<1>1. s2c' = [s2c EXCEPT ![c] = <<>>] /\ s2c \in [Calls -> Seq(I)] /\ <<>> \in Seq(I)
  BY DEF TypeOK, ClientClose
<1> HIDE DEF I
<1>2. s2c' \in [Calls -> Seq(I)]
  BY <1>1
<1>3. link' \in [Calls -> {"none", "open", "cfin", "crst", "sfin", "srst", "down"}]
  BY DEF TypeOK, ClientClose
<1> QED BY <1>2, <1>3 DEF I

LEMMA ClientSendType ==
  ASSUME TypeOK, NEW c \in Calls, NEW item \in CmdItem \union ReqItem,
         ClientSend(c, item)
  PROVE  /\ link' \in [Calls -> {"none", "open", "cfin", "crst", "sfin", "srst", "down"}]
         /\ c2s' \in [Calls -> Seq(CmdItem \union ReqItem)]
  BY DEF TypeOK, ClientSend

LEMMA ConnectType ==
  ASSUME Inv, NEW c \in Calls, NEW j \in Jobs, Connect(c, j)
  PROVE  TypeOK'
<1>1. call' \in [Calls -> {Idle} \union CallState]
  BY DEF Connect, Inv, TypeOK, CallState
<1>2. \A d \in Calls : Started(d)' =>
        buf'[d] \in [0..(Total(call'[d].job.blockv) - 1) -> Cell]
  <2> SUFFICES ASSUME NEW d \in Calls, call'[d].pc # "idle"
               PROVE  buf'[d] \in [0..(Total(call'[d].job.blockv) - 1) -> Cell]
    BY DEF Started
  <2>1. CASE d = c
    BY <2>1 DEF Connect, Inv, TypeOK, Cell
  <2>2. CASE d # c
    BY <2>2 DEF Connect, Inv, TypeOK, Started
  <2> QED  BY <2>1, <2>2
<1>3. DOMAIN buf' = Calls
  BY DEF Connect, Inv, TypeOK
<1>4. backlog' \in Seq(Calls) /\ link' \in [Calls -> {"none", "open", "cfin", "crst", "sfin", "srst", "down"}]
  BY DEF Connect, Inv, TypeOK
<1> QED
  BY <1>1, <1>2, <1>3, <1>4 DEF Connect, Inv, TypeOK

LEMMA NextRequestType ==
  ASSUME NEW s \in CallState, NEW m \in Nat \ {0}, NEW b \in Nat
  PROVE  [s EXCEPT !.pc = "req", !.k = m, !.boff = b] \in CallState
BY DEF CallState

\* A call whose place in its job moves on stays well typed.
LEMMA AdvanceType ==
  ASSUME Inv, NEW c \in Calls, call[c].pc \in {"hdr", "data"}, Advance(c)
  PROVE  call' \in [Calls -> {Idle} \union CallState]
<1>1. call[c] \in CallState /\ call[c].job.blockv \in Seq(Extent)
  BY CallLocals DEF Inv
<1>2. Current(c) \in Extent
  BY <1>1 DEF Inv, CallInv, AtExtent, Current
<1>3. call[c].k + 1 \in Nat \ {0} /\ call[c].boff + Current(c).cnt \in Nat
  <2>1. call[c].k \in Nat \ {0} /\ call[c].boff \in Nat
    BY <1>1 DEF CallState
  <2>2. Current(c).cnt \in Nat
    BY <1>2 DEF Extent
  <2> QED BY <2>1, <2>2
<1>4. [call[c] EXCEPT !.pc = "req", !.k = @ + 1, !.boff = @ + Current(c).cnt] \in CallState
  <2> DEFINE m == call[c].k + 1
             b == call[c].boff + Current(c).cnt
  <2>1. m \in Nat \ {0} /\ b \in Nat
    BY <1>3
  <2> HIDE DEF m, b
  <2>2. [call[c] EXCEPT !.pc = "req", !.k = m, !.boff = b] \in CallState
    BY <1>1, <2>1, NextRequestType
  <2> QED BY <2>2 DEF m, b
<1> QED
  BY <1>4 DEF Advance, Inv, TypeOK

\* The steps of a client that do not write its buffer: what they must keep.
LEMMA KeepsBufferType ==
  ASSUME Inv, buf' = buf,
         call' \in [Calls -> {Idle} \union CallState],
         \A c \in Calls : /\ call'[c].pc # "idle" => call[c].pc # "idle"
                          /\ call'[c].pc # "idle" => call'[c].job = call[c].job
  PROVE  /\ DOMAIN buf' = Calls
         /\ \A c \in Calls : Started(c)' =>
              buf'[c] \in [0..(Total(call'[c].job.blockv) - 1) -> Cell]
<1>1. DOMAIN buf' = Calls
  BY DEF Inv, TypeOK
<1>2. ASSUME NEW c \in Calls, Started(c)'
      PROVE  buf'[c] \in [0..(Total(call'[c].job.blockv) - 1) -> Cell]
  BY <1>2 DEF Inv, TypeOK, Started
<1> QED
  BY <1>1, <1>2

LEMMA RaisedType ==
  ASSUME Inv, NEW c \in Calls, NEW p \in {"raised", "done", "dead"},
         call[c].pc # "idle", call' = [call EXCEPT ![c].pc = p],
         ClientClose(c), UNCHANGED <<c2s, backlog, srv, restarts, failed, buf>>
  PROVE  TypeOK'
<1>1. call[c] \in CallState
  BY CallLocals DEF Inv
<1>2. [call[c] EXCEPT !.pc = p] \in CallState
  BY <1>1 DEF CallState
<1>3. call' \in [Calls -> {Idle} \union CallState]
  BY <1>2 DEF Inv, TypeOK
<1>4. \A d \in Calls : /\ call'[d].pc # "idle" => call[d].pc # "idle"
                       /\ call'[d].pc # "idle" => call'[d].job = call[d].job
  BY <1>1, <1>2 DEF Inv, TypeOK, CallState
<1> QED
  BY <1>3, <1>4, KeepsBufferType, ClientCloseType DEF Inv, TypeOK

LEMMA SendType ==
  ASSUME Inv, NEW c \in Calls, SendCmd(c) \/ SendReq(c)
  PROVE  TypeOK'
<1>1. call[c] \in CallState /\ call[c].job.blockv \in Seq(Extent) /\ call[c].job \in Jobs
  BY CallLocals DEF Inv, SendCmd, SendReq
<1>2. CASE SendCmd(c)
  <2>1. [call[c] EXCEPT !.pc = "req"] \in CallState
    BY <1>1 DEF CallState
  <2>2. call' \in [Calls -> {Idle} \union CallState]
    BY <1>2, <2>1 DEF SendCmd, Inv, TypeOK
  <2>3. \A d \in Calls : /\ call'[d].pc # "idle" => call[d].pc # "idle"
                         /\ call'[d].pc # "idle" => call'[d].job = call[d].job
    BY <1>1, <1>2 DEF SendCmd, Inv, TypeOK, CallState
  <2>4. [t |-> "cmd", op |-> call[c].job.op, n |-> Len(call[c].job.blockv)] \in CmdItem
    BY <1>1 DEF CmdItem
  <2> QED
    BY <1>2, <2>2, <2>3, <2>4, KeepsBufferType, ClientSendType DEF SendCmd, Inv, TypeOK
<1>3. CASE SendReq(c)
  <2>1. Current(c) \in Extent
    BY <1>1, <1>3 DEF SendReq, MoreExtents, Current, CallState
  <2>2. Current(c).cnt \in Int
    BY <2>1 DEF Extent
  <2>3. ASSUME NEW m \in Int
        PROVE  [call[c] EXCEPT !.pc = "hdr", !.count = m] \in CallState
    BY <1>1 DEF CallState
  <2>4. [call[c] EXCEPT !.pc = "hdr", !.count = Current(c).cnt] \in CallState
    BY <2>2, <2>3
  <2>5. call' \in [Calls -> {Idle} \union CallState]
    BY <1>3, <2>4 DEF SendReq, Inv, TypeOK
  <2>6. \A d \in Calls : /\ call'[d].pc # "idle" => call[d].pc # "idle"
                         /\ call'[d].pc # "idle" => call'[d].job = call[d].job
    BY <1>1, <1>3 DEF SendReq, Inv, TypeOK, CallState
  <2>7. [t |-> "req", ext |-> Current(c)] \in ReqItem
    BY <2>1 DEF ReqItem
  <2> QED
    BY <1>3, <2>5, <2>6, <2>7, KeepsBufferType, ClientSendType DEF SendReq, Inv, TypeOK
<1> QED
  BY <1>2, <1>3

\* Taking the head off a stream.
LEMMA TailType ==
  ASSUME TypeOK, NEW c \in Calls, s2c[c] # <<>>,
         s2c' = [s2c EXCEPT ![c] = Tail(@)]
  PROVE  s2c' \in [Calls -> Seq(HeaderItem \union DataItem)]
<1>1. s2c[c] \in Seq(HeaderItem \union DataItem)
  BY DEF TypeOK
<1>2. Tail(s2c[c]) \in Seq(HeaderItem \union DataItem)
  BY <1>1
<1> QED
  BY <1>2 DEF TypeOK

LEMMA HeadType ==
  ASSUME TypeOK, NEW c \in Calls, s2c[c] # <<>>
  PROVE  /\ Head(s2c[c]) \in HeaderItem \union DataItem
         /\ Head(s2c[c]).t = "n" => Head(s2c[c]).off \in Nat /\ Head(s2c[c]).len \in Nat
         /\ Head(s2c[c]).t = "d" => Head(s2c[c]).cell \in Cell
<1>1. Head(s2c[c]) \in HeaderItem \union DataItem
  BY DEF TypeOK
<1> QED
  BY <1>1 DEF HeaderItem, DataItem, Cell

LEMMA AdvanceKeeps ==
  ASSUME Inv, NEW c \in Calls, call[c].pc \in {"hdr", "data"}, Advance(c), buf' = buf
  PROVE  /\ DOMAIN buf' = Calls
         /\ \A d \in Calls : Started(d)' =>
              buf'[d] \in [0..(Total(call'[d].job.blockv) - 1) -> Cell]
<1>1. call[c] \in CallState
  BY CallLocals DEF Inv
<1>2. \A d \in Calls : /\ call'[d].pc # "idle" => call[d].pc # "idle"
                       /\ call'[d].pc # "idle" => call'[d].job = call[d].job
  BY <1>1 DEF Advance, Inv, TypeOK, CallState
<1> QED
  BY <1>2, AdvanceType, KeepsBufferType

LEMMA RecvType ==
  ASSUME Inv, NEW c \in Calls, RecvEnd(c) \/ RecvNext(c) \/ RecvGarbage(c)
  PROVE  TypeOK'
<1>1. TypeOK /\ call[c] \in CallState /\ call[c].pc = "hdr" /\ s2c[c] # <<>>
  BY CallLocals DEF Inv, RecvEnd, RecvNext, RecvGarbage
<1>2. CASE RecvEnd(c)
  BY <1>1, <1>2, AdvanceType, AdvanceKeeps, TailType DEF RecvEnd, TypeOK
<1>3. CASE RecvNext(c)
  <2> DEFINE h == Head(s2c[c])
  <2>1. h.t = "n" /\ h.off \in Nat /\ h.len \in Nat
    BY <1>1, <1>3, HeadType DEF RecvNext
  <2>2. CASE call[c].count <= 0
    BY <1>1, <1>3, <2>2, AdvanceType, AdvanceKeeps, TailType DEF RecvNext, TypeOK
  <2>3. CASE ~(call[c].count <= 0)
    <3>1. call[c].count - h.len \in Int
      BY <1>1, <2>1 DEF CallState
    <3>2. ASSUME NEW p \in {"data", "hdr"}, NEW m \in Int, NEW o \in Nat, NEW n \in Nat
          PROVE  [call[c] EXCEPT !.pc = p, !.count = m, !.off = o, !.l = n] \in CallState
      BY <1>1 DEF CallState
    <3>3. [call[c] EXCEPT !.pc = IF h.len > 0 THEN "data" ELSE "hdr",
                          !.count = call[c].count - h.len,
                          !.off = h.off, !.l = h.len] \in CallState
      BY <2>1, <3>1, <3>2
    <3>4. call' = [call EXCEPT ![c] =
                    [call[c] EXCEPT !.pc = IF h.len > 0 THEN "data" ELSE "hdr",
                                    !.count = call[c].count - h.len,
                                    !.off = h.off, !.l = h.len]]
      BY <1>3, <2>3, Zenon DEF RecvNext
    <3>5. call' \in [Calls -> {Idle} \union CallState]
      BY <3>3, <3>4 DEF Inv, TypeOK
    <3>6. \A d \in Calls : /\ call'[d].pc # "idle" => call[d].pc # "idle"
                           /\ call'[d].pc # "idle" => call'[d].job = call[d].job
      BY <1>1, <3>4 DEF Inv, TypeOK, CallState
    <3> QED
      BY <1>1, <1>3, <3>5, <3>6, KeepsBufferType, TailType DEF RecvNext, TypeOK
  <2> QED  BY <2>2, <2>3
<1>4. CASE RecvGarbage(c)
  <2>1. CASE s2c' = [s2c EXCEPT ![c] = Tail(@)] /\ Advance(c) /\ UNCHANGED link
    BY <1>1, <1>4, <2>1, AdvanceType, AdvanceKeeps, TailType DEF RecvGarbage, TypeOK
  <2>2. CASE s2c' = [s2c EXCEPT ![c] = Tail(@)] /\ UNCHANGED <<call, link>>
    BY <1>1, <1>4, <2>2, TailType DEF RecvGarbage, TypeOK, Started
  <2>3. CASE call' = [call EXCEPT ![c].pc = "raised"] /\ ClientClose(c)
    BY <1>1, <1>4, <2>3, RaisedType DEF RecvGarbage
  <2> QED  BY <1>4, <2>1, <2>2, <2>3 DEF RecvGarbage
<1> QED
  BY <1>2, <1>3, <1>4

\* Writing a function at any place, in its domain or not, keeps its type.
LEMMA Written ==
  ASSUME NEW S, NEW T, NEW f \in [S -> T], NEW x, NEW v \in T
  PROVE  [f EXCEPT ![x] = v] \in [S -> T]
  OBVIOUS

LEMMA RecvDataType ==
  ASSUME Inv, NEW c \in Calls, RecvData(c)
  PROVE  TypeOK'
<1>1. TypeOK /\ call[c] \in CallState /\ call[c].pc = "data" /\ s2c[c] # <<>>
  BY CallLocals DEF Inv, RecvData
<1>2. s2c[c] \in Seq(HeaderItem \union DataItem) /\ 1 \in 1..Len(s2c[c])
  BY <1>1 DEF TypeOK
<1>3. call[c].l > 0 /\ call[c].l \in Nat
  BY <1>1 DEF Inv, CallInv, InPacket, CallState
<1>4. Head(s2c[c]).t = "d"
  BY <1>1, <1>2, <1>3 DEF Inv, CallInv, InPacket, LeadsWithData
<1>5. Head(s2c[c]).cell \in Cell
  BY <1>1, <1>4, HeadType
<1>6. ASSUME NEW p \in {"data", "hdr"}, NEW o \in Nat, NEW n \in Nat
      PROVE  [call[c] EXCEPT !.off = o, !.l = n, !.pc = p] \in CallState
  BY <1>1 DEF CallState
<1>7. call[c].off + 1 \in Nat /\ call[c].l - 1 \in Nat
  BY <1>1, <1>3 DEF CallState
<1>8. [call[c] EXCEPT !.off = call[c].off + 1, !.l = call[c].l - 1,
                      !.pc = IF call[c].l = 1 THEN "hdr" ELSE "data"] \in CallState
  BY <1>6, <1>7
<1>9. call' = [call EXCEPT ![c] =
        [call[c] EXCEPT !.off = call[c].off + 1, !.l = call[c].l - 1,
                        !.pc = IF call[c].l = 1 THEN "hdr" ELSE "data"]]
  BY Zenon DEF RecvData
<1>10. call' \in [Calls -> {Idle} \union CallState]
  BY <1>1, <1>8, <1>9 DEF TypeOK
<1>11. \A d \in Calls : /\ call'[d].pc # "idle" => call[d].pc # "idle"
                        /\ call'[d].pc # "idle" => call'[d].job = call[d].job
  BY <1>1, <1>9 DEF TypeOK, CallState
<1>12. buf' = [buf EXCEPT ![c] = [buf[c] EXCEPT ![WriteAt(c)] = Head(s2c[c]).cell]]
  BY Zenon DEF RecvData
<1>13. ASSUME NEW d \in Calls, Started(d)'
       PROVE  buf'[d] \in [0..(Total(call'[d].job.blockv) - 1) -> Cell]
  <2>1. buf[d] \in [0..(Total(call'[d].job.blockv) - 1) -> Cell]
    BY <1>1, <1>11, <1>13 DEF TypeOK, Started
  <2>2. buf'[d] = IF d = c THEN [buf[c] EXCEPT ![WriteAt(c)] = Head(s2c[c]).cell] ELSE buf[d]
    BY <1>1, <1>12 DEF TypeOK
  <2>3. CASE d = c
    <3>1. [buf[c] EXCEPT ![WriteAt(c)] = Head(s2c[c]).cell]
            \in [0..(Total(call'[d].job.blockv) - 1) -> Cell]
      BY <1>5, <2>1, <2>3, Written
    <3> QED  BY <2>2, <2>3, <3>1, Zenon
  <2>4. CASE d # c
    BY <2>1, <2>2, <2>4, Zenon
  <2> QED  BY <2>3, <2>4
<1>14. DOMAIN buf' = Calls
  BY <1>1, <1>12 DEF TypeOK
<1> QED
  BY <1>1, <1>10, <1>13, <1>14, TailType DEF RecvData, TypeOK

LEMMA ClientType ==
  ASSUME Inv, NEW c \in Calls, ClientStep(c) \/ Die(c)
  PROVE  TypeOK'
<1>1. CASE SendCmd(c) \/ SendReq(c)
  BY <1>1, SendType
<1>2. CASE RecvEnd(c) \/ RecvNext(c) \/ RecvGarbage(c)
  BY <1>2, RecvType
<1>3. CASE RecvData(c)
  BY <1>3, RecvDataType
<1>4. CASE TooManyBlocks(c)
  BY <1>4, RaisedType DEF TooManyBlocks
<1>5. CASE BufferTooSmall(c)
  BY <1>5, RaisedType DEF BufferTooSmall
<1>6. CASE PeerReset(c)
  BY <1>6, RaisedType DEF PeerReset
<1>7. CASE Return(c)
  BY <1>7, RaisedType DEF Return
<1>8. CASE Die(c)
  BY <1>8, RaisedType DEF Die
<1> QED
  BY <1>1, <1>2, <1>3, <1>4, <1>5, <1>6, <1>7, <1>8 DEF ClientStep

(***************************************************************************)
(* The server's steps.  They leave the calls and their buffers alone.      *)
(***************************************************************************)

LEMMA HandlerEndsType ==
  ASSUME Inv, HandlerEnds, UNCHANGED <<call, s2c, backlog, restarts, failed, buf>>
  PROVE  TypeOK'
<1>1. c2s' \in [Calls -> Seq(CmdItem \union ReqItem)]
  <2>1. <<>> \in Seq(CmdItem \union ReqItem)
    OBVIOUS
  <2> QED  BY <2>1 DEF Inv, TypeOK, HandlerEnds
<1>2. link' \in [Calls -> {"none", "open", "cfin", "crst", "sfin", "srst", "down"}]
  BY DEF Inv, TypeOK, HandlerEnds
<1>3. srv' \in ServerState
  BY DEF HandlerEnds, IdleServer, ServerState
<1> QED
  BY <1>1, <1>2, <1>3 DEF Inv, TypeOK, Started

LEMMA ToExceptType ==
  ASSUME Inv, srv.pc \in {"open", "chunk", "data"}, ToExcept
  PROVE  TypeOK'
<1>1. srv \in [pc : {"open", "chunk", "data", "except", "last", "verbose"},
            c : Calls, k : Nat \ {0}, n : Nat, ext : Extent, off : Nat,
            i : Nat, bound : BOOLEAN]
  BY ServerLocals DEF Inv
<1>2. [srv EXCEPT !.pc = "except"] \in ServerState
  BY <1>1 DEF ServerState
<1>3. failed' \in [Calls -> Nat]
  BY <1>1 DEF ToExcept, Inv, TypeOK
<1> QED
  BY <1>2, <1>3 DEF ToExcept, Inv, TypeOK, Started

LEMMA ServerSendType ==
  ASSUME TypeOK, srv.c \in Calls, NEW items \in Seq(HeaderItem \union DataItem),
         ServerSend(items)
  PROVE  /\ s2c' \in [Calls -> Seq(HeaderItem \union DataItem)]
         /\ link' \in [Calls -> {"none", "open", "cfin", "crst", "sfin", "srst", "down"}]
<1>1. s2c[srv.c] \o items \in Seq(HeaderItem \union DataItem)
  BY DEF TypeOK
<1> QED
  BY <1>1 DEF ServerSend, TypeOK, Client

\* A server step that sends: its new control state and what it sent.
LEMMA ServerSendKeeps ==
  ASSUME Inv, srv.c \in Calls, NEW items \in Seq(HeaderItem \union DataItem),
         ServerSend(items), srv' \in ServerState,
         UNCHANGED <<call, c2s, backlog, restarts, failed, buf>>
  PROVE  TypeOK'
  BY ServerSendType DEF Inv, TypeOK, Started

\* The records the server's locals are.
LEMMA ServingState ==
  ASSUME NEW p \in {"open", "chunk", "data", "except", "last", "verbose"},
         NEW c \in Calls, NEW k \in Nat \ {0}, NEW n \in Nat, NEW e \in Extent,
         NEW o \in Nat, NEW i \in Nat, NEW b \in BOOLEAN
  PROVE  [pc |-> p, c |-> c, k |-> k, n |-> n, ext |-> e, off |-> o, i |-> i,
          bound |-> b] \in ServerState
  BY DEF ServerState

LEMMA ServerMoves ==
  ASSUME TypeOK, srv.pc \in {"open", "chunk", "data", "except", "last", "verbose"},
         NEW p \in {"open", "chunk", "data", "except", "last", "verbose"},
         NEW o \in Nat, NEW i \in Nat, NEW b \in BOOLEAN
  PROVE  /\ [srv EXCEPT !.pc = p] \in ServerState
         /\ [srv EXCEPT !.pc = p, !.bound = b] \in ServerState
         /\ [srv EXCEPT !.pc = p, !.i = i, !.off = o] \in ServerState
<1>1. srv \in [pc : {"open", "chunk", "data", "except", "last", "verbose"},
            c : Calls, k : Nat \ {0}, n : Nat, ext : Extent, off : Nat,
            i : Nat, bound : BOOLEAN]
  BY ServerLocals
<1> QED
  BY <1>1 DEF ServerState

LEMMA AcceptType ==
  ASSUME Inv, Accept
  PROVE  TypeOK'
<1>1. Head(backlog) \in Calls /\ Tail(backlog) \in Seq(Calls)
  BY DEF Inv, TypeOK, Accept
<1>2. srv' \in ServerState
  BY <1>1 DEF Accept, ServerState
<1> QED
  BY <1>1, <1>2 DEF Inv, TypeOK, Accept, Started

\* Where the server reads, it has a client.
LEMMA ReadingServer ==
  ASSUME TypeOK, srv.pc \in {"cmd", "req"}
  PROVE  /\ srv.c \in Calls
         /\ srv.pc = "req" => srv.k \in Nat \ {0} /\ srv.n \in Nat
  BY DEF TypeOK, ServerState

LEMMA ReadsType ==
  ASSUME Inv, ReadCmd \/ ReadReq
  PROVE  TypeOK'
<1>1. TypeOK /\ Client \in Calls /\ c2s[Client] # <<>>
  BY ReadingServer DEF Inv, ReadCmd, ReadReq, SrvAt, Arrived, Client
<1>2. /\ Head(c2s[Client]) \in CmdItem \union ReqItem
      /\ Tail(c2s[Client]) \in Seq(CmdItem \union ReqItem)
  <2>1. c2s[Client] \in Seq(CmdItem \union ReqItem)
    BY <1>1 DEF TypeOK
  <2> QED  BY <1>1, <2>1
<1>3. Consume => c2s' \in [Calls -> Seq(CmdItem \union ReqItem)]
  BY <1>1, <1>2 DEF Consume, TypeOK
<1>4. CASE ReadCmd
  <2>1. Head(c2s[Client]).n \in Nat
    BY <1>2, <1>4 DEF ReadCmd, Arrived, CmdItem, ReqItem
  <2>2. srv' \in ServerState
    BY <1>1, <1>4, <2>1 DEF ReadCmd, ServerState
  <2> QED
    BY <1>1, <1>3, <1>4, <2>2 DEF ReadCmd, TypeOK, Started
<1>5. CASE ReadReq
  <2>1. Head(c2s[Client]).ext \in Extent
    BY <1>2, <1>5 DEF ReadReq, Arrived, CmdItem, ReqItem
  <2>2. Head(c2s[Client]).ext.off \in Nat
    BY <2>1 DEF Extent
  <2>3. srv.k \in Nat \ {0} /\ srv.n \in Nat
    BY <1>1, <1>5, ReadingServer DEF ReadReq, SrvAt
  <2>4. srv' \in ServerState
    BY <1>1, <1>5, <2>1, <2>2, <2>3, ServingState DEF ReadReq
  <2> QED
    BY <1>1, <1>3, <1>5, <2>4 DEF ReadReq, TypeOK, Started
<1> QED
  BY <1>4, <1>5

LEMMA ServeType ==
  ASSUME Inv, \/ OpenFile \/ SendChunkHeader \/ SendChunkData \/ ChunksDone
              \/ SendError \/ SendLast
  PROVE  TypeOK'
<1>1. TypeOK /\ srv.pc \in {"open", "chunk", "data", "except", "last"}
  BY DEF Inv, OpenFile, SendChunkHeader, SendChunkData, ChunksDone, SendError,
         SendLast, SrvAt
<1>2. /\ srv.c \in Calls /\ srv.ext \in Extent /\ srv.off \in Nat /\ srv.i \in Nat
      /\ srv.ext.cnt \in Nat
  BY <1>1, ServerLocals DEF Extent
<1>3. CASE OpenFile
  BY <1>1, <1>3, <1>2, ServerMoves DEF OpenFile, TypeOK, Started
<1>4. CASE SendChunkHeader
  <2>1. ChunkData \in Seq(DataItem)
    BY <1>1, <1>4, ChunkDataType DEF SendChunkHeader, SrvAt
  <2>2. <<Header("n", srv.off, Len(ChunkData))>> \in Seq(HeaderItem \union DataItem)
    BY <1>2, <2>1 DEF Header, HeaderItem
  <2>3. srv' \in ServerState
    BY <1>1, <1>2, <1>4, ServerMoves DEF SendChunkHeader
  <2> QED
    BY <1>2, <1>4, <2>2, <2>3, ServerSendKeeps DEF SendChunkHeader
<1>5. CASE SendChunkData
  <2>1. srv.i < srv.ext.cnt
    BY <1>5 DEF Inv, InChunk, SendChunkData, SrvAt
  <2>2. ChunkData \in Seq(DataItem)
    BY <1>1, <1>5, <2>1, ChunkDataType DEF SendChunkData, SrvAt
  <2>3. ChunkData \in Seq(HeaderItem \union DataItem)
    BY <2>2
  <2>4. srv.i + ChunkLen \in Nat /\ srv.off + ChunkLen \in Nat
    BY <1>2, <2>1 DEF ChunkLen, LesserOf
  <2>5. srv' \in ServerState
    BY <1>1, <1>5, <2>4, ServerMoves DEF SendChunkData
  <2> QED
    BY <1>2, <1>5, <2>3, <2>5, ServerSendKeeps DEF SendChunkData
<1>6. CASE ChunksDone
  BY <1>1, <1>2, <1>6, ServerMoves DEF ChunksDone, TypeOK, Started
<1>7. CASE SendError
  <2>1. <<Header("e", srv.off, 0)>> \in Seq(HeaderItem \union DataItem)
    BY <1>2 DEF Header, HeaderItem
  <2>2. srv' \in ServerState
    BY <1>1, <1>2, <1>7, ServerMoves DEF SendError
  <2> QED
    BY <1>2, <1>7, <2>1, <2>2, ServerSendKeeps DEF SendError
<1>8. CASE SendLast
  <2>1. <<Header("l", srv.off, srv.ext.cnt)>> \in Seq(HeaderItem \union DataItem)
    BY <1>2 DEF Header, HeaderItem
  <2>2. srv' \in ServerState
    BY <1>1, <1>2, <1>8, ServerMoves DEF SendLast
  <2> QED
    BY <1>2, <1>8, <2>1, <2>2, ServerSendKeeps DEF SendLast
<1> QED
  BY <1>3, <1>4, <1>5, <1>6, <1>7, <1>8

LEMMA ReportType ==
  ASSUME Inv, Report
  PROVE  TypeOK'
<1>1. srv.c \in Calls /\ srv.k \in Nat \ {0} /\ srv.n \in Nat
  BY ServerLocals DEF Inv, Report, SrvAt
<1>2. srv' \in ServerState
  BY <1>1 DEF Report, ServerState, Client
<1> QED
  BY <1>2 DEF Inv, TypeOK, Report, Started

LEMMA ServerType ==
  ASSUME Inv, ServerStep
  PROVE  TypeOK'
<1>1. CASE Accept
  BY <1>1, AcceptType
<1>2. CASE ReadCmd \/ ReadReq
  BY <1>2, ReadsType
<1>3. CASE RecvAborted \/ AllServed \/ ReportUnbound \/ SendRaises
  BY <1>3, HandlerEndsType DEF RecvAborted, AllServed, ReportUnbound, SendRaises
<1>4. CASE OpenFails \/ ReadFails \/ SendRaisesInTry
  BY <1>4, ToExceptType DEF OpenFails, ReadFails, SendRaisesInTry, SrvAt
<1>5. CASE \/ OpenFile \/ SendChunkHeader \/ SendChunkData \/ ChunksDone
           \/ SendError \/ SendLast
  BY <1>5, ServeType
<1>6. CASE Report
  BY <1>6, ReportType
<1> QED
  BY <1>1, <1>2, <1>3, <1>4, <1>5, <1>6 DEF ServerStep

LEMMA RestartType ==
  ASSUME Inv, RestartServer
  PROVE  TypeOK'
<1>1. c2s' \in [Calls -> Seq(CmdItem \union ReqItem)]
  <2>1. <<>> \in Seq(CmdItem \union ReqItem)
    OBVIOUS
  <2> QED  BY <2>1 DEF RestartServer
<1>2. link' \in [Calls -> {"none", "open", "cfin", "crst", "sfin", "srst", "down"}]
  BY DEF Inv, TypeOK, RestartServer
<1>3. srv' \in ServerState /\ backlog' \in Seq(Calls)
  BY DEF RestartServer, IdleServer, ServerState
<1>4. restarts' \in 0..MaxRestarts
  BY DEF Inv, TypeOK, RestartServer
<1> QED
  BY <1>1, <1>2, <1>3, <1>4 DEF Inv, TypeOK, RestartServer, Started

LEMMA InitType == Init => TypeOK
<1> SUFFICES ASSUME Init PROVE TypeOK
  OBVIOUS
<1>1. call \in [Calls -> {Idle} \union CallState] /\ \A c \in Calls : ~Started(c)
  BY DEF Init, Idle, Started
<1>2. <<>> \in Seq(CmdItem \union ReqItem) /\ <<>> \in Seq(HeaderItem \union DataItem)
  OBVIOUS
<1>3. srv \in ServerState /\ backlog \in Seq(Calls)
  BY DEF Init, IdleServer, ServerState
<1>4. c2s \in [Calls -> Seq(CmdItem \union ReqItem)] /\ s2c \in [Calls -> Seq(HeaderItem \union DataItem)]
  BY <1>2 DEF Init
<1> QED
  BY <1>1, <1>3, <1>4 DEF Init, TypeOK

LEMMA TypeStep == Inv /\ [Next]_vars => TypeOK'
<1> SUFFICES ASSUME Inv, [Next]_vars PROVE TypeOK'
  OBVIOUS
<1>1. CASE \E c \in Calls, j \in Jobs : Connect(c, j)
  BY <1>1, ConnectType
<1>2. CASE \E c \in Calls : ClientStep(c) \/ Die(c)
  BY <1>2, ClientType
<1>3. CASE ServerStep
  BY <1>3, ServerType
<1>4. CASE RestartServer
  BY <1>4, RestartType
<1>5. CASE UNCHANGED vars
  BY <1>5 DEF Inv, TypeOK, vars, Started
<1> QED
  BY <1>1, <1>2, <1>3, <1>4, <1>5 DEF Next

(***************************************************************************)
(* Streams: taking an item off the front, putting items at the end.        *)
(***************************************************************************)

Items == HeaderItem \union DataItem

LEMMA TailFramed ==
  ASSUME NEW s \in Seq(Items), s # <<>>, NEW out \in Nat
  PROVE  /\ FramedSeq(s) => FramedSeq(Tail(s))
         /\ Whole(s, out) => Whole(Tail(s), out)
         /\ FramedSeq(s) /\ Head(s).t = "n" => LeadsWithData(Tail(s), Head(s).len)
         /\ \A l \in Nat \ {0} : LeadsWithData(s, l) => LeadsWithData(Tail(s), l - 1)
         /\ Whole(s, out) /\ Head(s).t = "n" =>
              \/ Head(s).len <= Len(Tail(s))
              \/ Tail(s) = <<>> /\ Head(s).len = out
<1>1. /\ Tail(s) \in Seq(Items) /\ Len(Tail(s)) = Len(s) - 1 /\ Len(s) \in Nat \ {0}
      /\ \A q \in 1..Len(Tail(s)) : Tail(s)[q] = s[q + 1] /\ q + 1 \in 1..Len(s)
      /\ Head(s) = s[1] /\ 1 \in 1..Len(s)
  OBVIOUS
<1>2. \A q \in 1..Len(s) : s[q].t = "n" => s[q].len \in Nat
  <2>1. \A q \in 1..Len(s) : s[q] \in Items
    OBVIOUS
  <2> QED  BY <2>1 DEF Items, HeaderItem, DataItem
<1>3. FramedSeq(s) => FramedSeq(Tail(s))
  BY <1>1, <1>2 DEF FramedSeq
<1>4. Whole(s, out) => Whole(Tail(s), out)
  <2> DEFINE t == Tail(s)
  <2> SUFFICES ASSUME Whole(s, out), NEW p \in 1..Len(t), t[p].t = "n"
               PROVE  p + t[p].len <= Len(t) \/ (p = Len(t) /\ t[p].len = out)
    BY Zenon DEF Whole
  <2>1. t[p] = s[p + 1] /\ p + 1 \in 1..Len(s) /\ s[p + 1].len \in Nat
    BY <1>1, <1>2
  <2>2. \/ (p + 1) + s[p + 1].len <= Len(s)
        \/ p + 1 = Len(s) /\ s[p + 1].len = out
    BY <2>1 DEF Whole
  <2>3. Len(t) = Len(s) - 1 /\ Len(s) \in Nat
    BY <1>1
  <2> HIDE DEF t
  <2> QED  BY <2>1, <2>2, <2>3
<1>5. FramedSeq(s) /\ Head(s).t = "n" => LeadsWithData(Tail(s), Head(s).len)
  BY <1>1, <1>2 DEF FramedSeq, LeadsWithData
<1>6. \A l \in Nat \ {0} : LeadsWithData(s, l) => LeadsWithData(Tail(s), l - 1)
  BY <1>1 DEF LeadsWithData
<1>7. Whole(s, out) /\ Head(s).t = "n" =>
              \/ Head(s).len <= Len(Tail(s))
              \/ Tail(s) = <<>> /\ Head(s).len = out
  <2> SUFFICES ASSUME Whole(s, out), s[1].t = "n"
               PROVE  \/ s[1].len <= Len(Tail(s))
                      \/ Tail(s) = <<>> /\ s[1].len = out
    BY <1>1
  <2>1. 1 + s[1].len <= Len(s) \/ (1 = Len(s) /\ s[1].len = out)
    BY <1>1 DEF Whole
  <2>2. Len(Tail(s)) = 0 => Tail(s) = <<>>
    BY <1>1, EmptySeq
  <2> QED  BY <1>1, <1>2, <2>1, <2>2
<1> QED
  BY <1>3, <1>4, <1>5, <1>6, <1>7

\* A header goes after whole packets only.
LEMMA HeaderFramed ==
  ASSUME NEW s \in Seq(Items), NEW h \in HeaderItem, FramedSeq(s), Whole(s, 0)
  PROVE  /\ FramedSeq(s \o <<h>>)
         /\ Whole(s \o <<h>>, h.len)
         /\ h.t # "n" => Whole(s \o <<h>>, 0)
         /\ \A l \in Nat : l <= Len(s) /\ LeadsWithData(s, l) => LeadsWithData(s \o <<h>>, l)
<1> DEFINE r == s \o <<h>>
<1>1. /\ Len(s) \in Nat /\ Len(r) = Len(s) + 1
      /\ \A q \in 1..Len(s) : r[q] = s[q]
      /\ r[Len(s) + 1] = h
  OBVIOUS
<1>2. \A q \in 1..Len(s) : s[q].t = "n" => s[q].len \in Nat
  <2>1. \A q \in 1..Len(s) : s[q] \in Items
    OBVIOUS
  <2> QED  BY <2>1 DEF Items, HeaderItem, DataItem
<1>3. \A p \in 1..Len(s) : s[p].t = "n" => p + s[p].len <= Len(s)
  BY <1>1, <1>2 DEF Whole
<1>4. h.len \in Nat
  BY DEF HeaderItem
<1> HIDE DEF r
<1>5. FramedSeq(r)
  BY <1>1, <1>2, <1>3 DEF FramedSeq
<1>6. Whole(r, h.len)
  BY <1>1, <1>2, <1>3, <1>4 DEF Whole
<1>7. h.t # "n" => Whole(r, 0)
  BY <1>1, <1>2, <1>3 DEF Whole
<1>8. \A l \in Nat : l <= Len(s) /\ LeadsWithData(s, l) => LeadsWithData(r, l)
  BY <1>1 DEF LeadsWithData
<1> QED
  BY <1>5, <1>6, <1>7, <1>8 DEF r

\* The data that was outstanding makes the stream whole.
LEMMA DataFramed ==
  ASSUME NEW s \in Seq(Items), NEW d \in Seq(Items),
         \A q \in 1..Len(d) : d[q].t = "d",
         FramedSeq(s), Whole(s, Len(d))
  PROVE  /\ FramedSeq(s \o d)
         /\ Whole(s \o d, 0)
         /\ \A l \in Nat : LeadsWithData(s, l) => LeadsWithData(s \o d, l)
<1> DEFINE r == s \o d
<1>1. /\ Len(s) \in Nat /\ Len(d) \in Nat /\ Len(r) = Len(s) + Len(d)
      /\ \A q \in 1..Len(s) : r[q] = s[q]
      /\ \A q \in 1..Len(r) : q > Len(s) => r[q] = d[q - Len(s)] /\ q - Len(s) \in 1..Len(d)
  OBVIOUS
<1>2. \A q \in 1..Len(s) : s[q].t = "n" => s[q].len \in Nat
  <2>1. \A q \in 1..Len(s) : s[q] \in Items
    OBVIOUS
  <2>2. \A x \in Items : x.t = "n" => x.len \in Nat
    BY DEF Items, HeaderItem, DataItem
  <2> QED  BY <2>1, <2>2
<1>3. \A q \in 1..Len(r) : q > Len(s) => r[q].t = "d"
  <2> HIDE DEF r
  <2> QED BY <1>1, SMTT(30)
<1> HIDE DEF r
<1>4. FramedSeq(r)
  BY <1>1, <1>2, <1>3, SMTT(30) DEF FramedSeq
<1>5. Whole(r, 0)
  <2> SUFFICES ASSUME NEW p \in 1..Len(r), r[p].t = "n"
               PROVE  p + r[p].len <= Len(r)
    BY DEF Whole
  <2>1. p \in 1..Len(s)
    BY <1>1, <1>3
  <2>2. s[p].len \in Nat /\ r[p] = s[p] /\ s[p].t = "n"
    BY <1>1, <1>2, <2>1
  <2>3. p + s[p].len <= Len(s) \/ (p = Len(s) /\ s[p].len = Len(d))
    BY <2>1, <2>2 DEF Whole
  <2> QED  BY <1>1, <2>1, <2>2, <2>3
<1>6. ASSUME NEW l \in Nat, LeadsWithData(s, l)
      PROVE  LeadsWithData(r, l)
  <2> SUFFICES ASSUME NEW q \in 1..Len(r), q <= l PROVE r[q].t = "d"
    BY DEF LeadsWithData
  <2>1. CASE q \in 1..Len(s)
    BY <1>1, <1>6, <2>1 DEF LeadsWithData
  <2>2. CASE q > Len(s)
    BY <1>3, <2>2
  <2> QED  BY <1>1, <2>1, <2>2
<1> QED
  BY <1>4, <1>5, <1>6 DEF r

(***************************************************************************)
(* The invariant of the calls, step by step.                               *)
(***************************************************************************)

\* A call that a step leaves alone keeps its invariant.
LEMMA CallFrame ==
  ASSUME NEW d \in Calls, CallInv(d), call'[d] = call[d], s2c'[d] = s2c[d],
         link'[d] = "open" => link[d] = "open" /\ Outstanding(d)' = Outstanding(d)
  PROVE  CallInv(d)'
  BY DEF CallInv, AtExtent, InPacket, Fresh, FramedSeq, Whole, LeadsWithData

LEMMA SameServer ==
  ASSUME srv' = srv
  PROVE  /\ \A d \in Calls : Outstanding(d)' = Outstanding(d)
         /\ InChunk => InChunk'
  BY DEF Outstanding, ChunkData, ChunkAddr, ChunkLen, FileRead, InChunk

\* A client's step leaves the other calls alone.
LEMMA OtherCalls ==
  ASSUME Inv, NEW c \in Calls, NEW d \in Calls, d # c, srv' = srv,
         \E x : call' = [call EXCEPT ![c] = x],
         s2c' = s2c \/ \E x : s2c' = [s2c EXCEPT ![c] = x],
         link' = link \/ \E x : link' = [link EXCEPT ![c] = x]
  PROVE  CallInv(d)'
<1>1. call'[d] = call[d] /\ s2c'[d] = s2c[d] /\ link'[d] = link[d]
  BY DEF Inv, TypeOK
<1>2. CallInv(d)
  BY DEF Inv
<1> QED
  BY <1>1, <1>2, CallFrame, SameServer

\* An empty stream is in every respect as it should be.
LEMMA EmptyStream ==
  ASSUME NEW out
  PROVE  FramedSeq(<<>>) /\ Whole(<<>>, out)
  BY DEF FramedSeq, Whole

LEMMA EndedCall ==
  ASSUME Inv, NEW c \in Calls, NEW p \in {"raised", "done", "dead"},
         call[c].pc # "idle", call' = [call EXCEPT ![c].pc = p], ClientClose(c)
  PROVE  CallInv(c)'
<1>1. call[c] \in CallState
  BY CallLocals DEF Inv
<1>2. call'[c].pc = p
  BY <1>1 DEF Inv, TypeOK, CallState
<1>3. s2c'[c] = <<>> /\ link'[c] # "open"
  BY DEF Inv, TypeOK, ClientClose
<1>4. FramedSeq(s2c[c])'
  BY <1>3, EmptyStream DEF FramedSeq
<1> QED
  BY <1>2, <1>3, <1>4 DEF CallInv, AtExtent, InPacket, Fresh

\* Advancing past an extent needs nothing of the stream but that it be framed.
LEMMA AdvancedCall ==
  ASSUME Inv, NEW c \in Calls, call[c].pc = "hdr", s2c[c] # <<>>, Advance(c),
         s2c' = [s2c EXCEPT ![c] = Tail(@)], UNCHANGED <<link, srv>>
  PROVE  CallInv(c)'
<1>1. call[c] \in CallState /\ CallInv(c) /\ s2c[c] \in Seq(Items)
  BY CallLocals DEF Inv, TypeOK, Items
<1>2. call'[c].pc = "req"
  BY <1>1 DEF Advance, Inv, TypeOK, CallState
<1>3. s2c'[c] = Tail(s2c[c]) /\ link'[c] = link[c]
  BY DEF Inv, TypeOK
<1>4. Outstanding(c)' = Outstanding(c)
  BY SameServer
<1>5. Outstanding(c) \in Nat
  BY ServerLocals, ChunkDataType DEF Outstanding, Inv, InChunk
<1>6. FramedSeq(s2c'[c])
  <2>1. FramedSeq(Tail(s2c[c]))
    BY <1>1, <1>5, TailFramed DEF CallInv
  <2> QED  BY <1>3, <2>1
<1>7. link'[c] = "open" => Whole(s2c'[c], Outstanding(c)')
  <2>1. link[c] = "open" => Whole(Tail(s2c[c]), Outstanding(c))
    BY <1>1, <1>5, TailFramed DEF CallInv
  <2> QED  BY <1>3, <1>4, <2>1
<1> QED
  BY <1>2, <1>6, <1>7 DEF CallInv, AtExtent, InPacket, Fresh

LEMMA ConnectCall ==
  ASSUME Inv, NEW c \in Calls, NEW j \in Jobs, Connect(c, j), NEW d \in Calls
  PROVE  CallInv(d)'
<1>1. CASE d # c
  BY <1>1, OtherCalls DEF Connect
<1>2. CASE d = c
  <2>1. call'[c].pc = "cmd" /\ s2c'[c] = <<>>
    BY DEF Connect, Inv, TypeOK, CallInv, Fresh
  <2>2. FramedSeq(s2c'[c]) /\ Whole(s2c'[c], Outstanding(c)')
    BY <2>1, EmptyStream
  <2> QED
    BY <1>2, <2>1, <2>2 DEF CallInv, AtExtent, InPacket, Fresh
<1> QED
  BY <1>1, <1>2

LEMMA SendCall ==
  ASSUME Inv, NEW c \in Calls, SendCmd(c) \/ SendReq(c), NEW d \in Calls
  PROVE  CallInv(d)'
<1>1. CASE d # c
  <2>1. \E x : call' = [call EXCEPT ![c] = x]
    BY Zenon DEF SendCmd, SendReq
  <2>2. s2c' = s2c /\ srv' = srv /\ \E x : link' = [link EXCEPT ![c] = x]
    BY Zenon DEF SendCmd, SendReq, ClientSend
  <2> QED  BY <1>1, <2>1, <2>2, OtherCalls
<1>2. CASE d = c
  <2>1. /\ TypeOK /\ call[c] \in CallState /\ CallInv(c)
        /\ call[c].job.blockv \in Seq(Extent)
    BY CallLocals DEF Inv, SendCmd, SendReq
  <2>2. s2c'[c] = s2c[c] /\ (link'[c] = "open" => link[c] = "open")
    BY <2>1 DEF TypeOK, SendCmd, SendReq, ClientSend
  <2>3. Outstanding(c)' = Outstanding(c)
    BY SameServer DEF SendCmd, SendReq
  <2>4. /\ call'[c].pc \in {"req", "hdr"}
        /\ call'[c].k = call[c].k /\ call'[c].job = call[c].job
        /\ call'[c].pc = "hdr" => MoreExtents(c)
    <3>1. CASE SendCmd(c)
      BY <2>1, <3>1 DEF TypeOK, CallState, SendCmd
    <3>2. CASE SendReq(c)
      <4>1. call' = [call EXCEPT ![c] = [call[c] EXCEPT !.pc = "hdr", !.count = Current(c).cnt]]
        BY <3>2, Zenon DEF SendReq
      <4> QED  BY <2>1, <3>2, <4>1 DEF TypeOK, CallState, SendReq
    <3> QED  BY <3>1, <3>2
  <2>5. call'[c].pc = "hdr" => call'[c].k \in 1..Len(call'[c].job.blockv)
    BY <2>1, <2>4 DEF MoreExtents, CallState
  <2>6. FramedSeq(s2c'[c]) /\ (link'[c] = "open" => Whole(s2c'[c], Outstanding(c)'))
    BY <2>1, <2>2, <2>3 DEF CallInv
  <2> QED
    BY <1>2, <2>4, <2>5, <2>6 DEF CallInv, AtExtent, InPacket, Fresh
<1> QED
  BY <1>1, <1>2

LEMMA OutstandingNat ==
  ASSUME Inv, NEW c \in Calls
  PROVE  Outstanding(c) \in Nat
  BY ServerLocals, ChunkDataType DEF Outstanding, Inv, InChunk

LEMMA RecvNextCall ==
  ASSUME Inv, NEW c \in Calls, RecvNext(c), ~(call[c].count <= 0)
  PROVE  CallInv(c)'
<1> DEFINE h == Head(s2c[c])
<1>1. /\ TypeOK /\ call[c] \in CallState /\ CallInv(c) /\ call[c].pc = "hdr"
      /\ s2c[c] # <<>> /\ s2c[c] \in Seq(Items)
  BY CallLocals DEF Inv, TypeOK, RecvNext, Items
<1>2. h.t = "n" /\ h.len \in Nat
  BY <1>1, HeadType DEF RecvNext
<1>3. call' = [call EXCEPT ![c] =
        [call[c] EXCEPT !.pc = IF h.len > 0 THEN "data" ELSE "hdr",
                        !.count = call[c].count - h.len,
                        !.off = h.off, !.l = h.len]]
  BY Zenon DEF RecvNext
<1>4. /\ call'[c].pc = IF h.len > 0 THEN "data" ELSE "hdr"
      /\ call'[c].l = h.len /\ call'[c].k = call[c].k /\ call'[c].job = call[c].job
  BY <1>1, <1>3 DEF TypeOK, CallState
<1>5. s2c'[c] = Tail(s2c[c]) /\ link'[c] = link[c]
  BY <1>1 DEF TypeOK, RecvNext
<1>6. Outstanding(c)' = Outstanding(c) /\ Outstanding(c) \in Nat
  BY SameServer, OutstandingNat DEF RecvNext
<1>7. /\ FramedSeq(s2c[c])
      /\ link[c] = "open" => Whole(s2c[c], Outstanding(c))
  BY <1>1 DEF CallInv
<1>8. /\ FramedSeq(Tail(s2c[c]))
      /\ LeadsWithData(Tail(s2c[c]), h.len)
      /\ link[c] = "open" =>
           /\ Whole(Tail(s2c[c]), Outstanding(c))
           /\ \/ h.len <= Len(Tail(s2c[c]))
              \/ Tail(s2c[c]) = <<>> /\ h.len = Outstanding(c)
  BY <1>1, <1>2, <1>6, <1>7, TailFramed
<1>9. AtExtent(c)'
  BY <1>1, <1>4 DEF CallInv, AtExtent
<1>10. InPacket(c)'
  BY <1>2, <1>4, <1>5, <1>6, <1>8 DEF InPacket
<1>11. FramedSeq(s2c'[c]) /\ (link'[c] = "open" => Whole(s2c'[c], Outstanding(c)'))
  BY <1>5, <1>6, <1>8
<1>12. Fresh(c)'
  BY <1>4 DEF Fresh
<1> QED
  BY <1>9, <1>10, <1>11, <1>12 DEF CallInv

LEMMA RecvDataCall ==
  ASSUME Inv, NEW c \in Calls, RecvData(c)
  PROVE  CallInv(c)'
<1>1. /\ TypeOK /\ call[c] \in CallState /\ CallInv(c) /\ call[c].pc = "data"
      /\ s2c[c] # <<>> /\ s2c[c] \in Seq(Items)
  BY CallLocals DEF Inv, TypeOK, RecvData, Items
<1>2. call[c].l \in Nat \ {0}
  BY <1>1 DEF CallInv, InPacket, CallState
<1> DEFINE r == [call[c] EXCEPT !.off = call[c].off + 1, !.l = call[c].l - 1,
                                !.pc = IF call[c].l = 1 THEN "hdr" ELSE "data"]
<1>3. call' = [call EXCEPT ![c] = r]
  BY Zenon DEF RecvData
<1>4. /\ call'[c].pc = IF call[c].l = 1 THEN "hdr" ELSE "data"
      /\ call'[c].l = call[c].l - 1
      /\ call'[c].k = call[c].k /\ call'[c].job = call[c].job
  <2>1. /\ r.pc = IF call[c].l = 1 THEN "hdr" ELSE "data"
        /\ r.l = call[c].l - 1 /\ r.k = call[c].k /\ r.job = call[c].job
    BY <1>1, SMTT(30) DEF CallState
  <2>2. call'[c] = r
    <3> HIDE DEF r
    <3> QED BY <1>1, <1>3, Zenon DEF TypeOK
  <2> HIDE DEF r
  <2> QED BY <2>1, <2>2
<1>5. s2c'[c] = Tail(s2c[c]) /\ link'[c] = link[c]
  BY <1>1 DEF TypeOK, RecvData
<1>6. Outstanding(c)' = Outstanding(c) /\ Outstanding(c) \in Nat
  BY SameServer, OutstandingNat DEF RecvData
<1>7. /\ FramedSeq(s2c[c]) /\ LeadsWithData(s2c[c], call[c].l)
      /\ link[c] = "open" => Whole(s2c[c], Outstanding(c)) /\ call[c].l <= Len(s2c[c])
  BY <1>1 DEF CallInv, InPacket
<1>8. /\ FramedSeq(Tail(s2c[c]))
      /\ LeadsWithData(Tail(s2c[c]), call[c].l - 1)
      /\ link[c] = "open" => Whole(Tail(s2c[c]), Outstanding(c))
  BY <1>1, <1>2, <1>6, <1>7, TailFramed
<1>9. Len(Tail(s2c[c])) = Len(s2c[c]) - 1 /\ Len(s2c[c]) \in Nat
  BY <1>1
<1>10. InPacket(c)'
  BY <1>2, <1>4, <1>5, <1>6, <1>7, <1>8, <1>9, SMTT(30) DEF InPacket
<1>11. AtExtent(c)'
  BY <1>1, <1>4 DEF CallInv, AtExtent
<1>12. FramedSeq(s2c'[c]) /\ (link'[c] = "open" => Whole(s2c'[c], Outstanding(c)'))
  BY <1>5, <1>6, <1>8
<1>13. Fresh(c)'
  BY <1>4 DEF Fresh
<1> QED
  BY <1>10, <1>11, <1>12, <1>13 DEF CallInv

LEMMA RecvCall ==
  ASSUME Inv, NEW c \in Calls, RecvEnd(c) \/ RecvNext(c) \/ RecvGarbage(c) \/ RecvData(c)
  PROVE  CallInv(c)'
<1>1. CASE RecvEnd(c)
  BY <1>1, AdvancedCall DEF RecvEnd
<1>2. CASE RecvNext(c)
  <2>1. CASE call[c].count <= 0
    BY <1>2, <2>1, AdvancedCall DEF RecvNext
  <2>2. CASE ~(call[c].count <= 0)
    BY <1>2, <2>2, RecvNextCall
  <2> QED  BY <2>1, <2>2
<1>3. CASE RecvGarbage(c)
  <2>1. CASE s2c' = [s2c EXCEPT ![c] = Tail(@)] /\ Advance(c) /\ UNCHANGED link
    BY <1>3, <2>1, AdvancedCall DEF RecvGarbage
  <2>2. CASE s2c' = [s2c EXCEPT ![c] = Tail(@)] /\ UNCHANGED <<call, link>>
    <3>1. /\ CallInv(c) /\ s2c[c] \in Seq(Items) /\ s2c[c] # <<>> /\ call[c].pc = "hdr"
          /\ s2c'[c] = Tail(s2c[c])
      BY <1>3, <2>2 DEF Inv, TypeOK, Items, RecvGarbage
    <3>2. Outstanding(c)' = Outstanding(c) /\ Outstanding(c) \in Nat
      BY <1>3, SameServer, OutstandingNat DEF RecvGarbage
    <3>3. /\ FramedSeq(Tail(s2c[c]))
          /\ link[c] = "open" => Whole(Tail(s2c[c]), Outstanding(c))
      BY <3>1, <3>2, TailFramed DEF CallInv
    <3>4. FramedSeq(s2c'[c]) /\ (link'[c] = "open" => Whole(s2c'[c], Outstanding(c)'))
      BY <2>2, <3>1, <3>2, <3>3
    <3> QED
      BY <2>2, <3>1, <3>4 DEF CallInv, AtExtent, InPacket, Fresh
  <2>3. CASE call' = [call EXCEPT ![c].pc = "raised"] /\ ClientClose(c)
    BY <1>3, <2>3, EndedCall DEF RecvGarbage
  <2> QED  BY <1>3, <2>1, <2>2, <2>3 DEF RecvGarbage
<1>4. CASE RecvData(c)
  BY <1>4, RecvDataCall
<1> QED
  BY <1>1, <1>2, <1>3, <1>4

LEMMA ClientCall ==
  ASSUME Inv, NEW c \in Calls, ClientStep(c) \/ Die(c), NEW d \in Calls
  PROVE  CallInv(d)'
<1>1. CASE SendCmd(c) \/ SendReq(c)
  BY <1>1, SendCall
<1>2. CASE ~(SendCmd(c) \/ SendReq(c)) /\ d # c
  <2>1. /\ \E x : call' = [call EXCEPT ![c] = x]
        /\ \E x : s2c' = [s2c EXCEPT ![c] = x]
        /\ link' = link \/ \E x : link' = [link EXCEPT ![c] = x]
        /\ srv' = srv
    <3>1. call' = call => call' = [call EXCEPT ![c] = call[c]]
      BY DEF Inv, TypeOK
    <3>2. CASE RecvEnd(c)
      BY <3>2, Zenon DEF RecvEnd, Advance
    <3>3. CASE RecvNext(c)
      BY <3>3, Zenon DEF RecvNext, Advance
    <3>4. CASE RecvGarbage(c)
      BY <3>1, <3>4, Zenon DEF RecvGarbage, Advance, ClientClose
    <3>5. CASE RecvData(c)
      BY <3>5, Zenon DEF RecvData
    <3>6. CASE TooManyBlocks(c)
      BY <3>6, Zenon DEF TooManyBlocks, ClientClose
    <3>7. CASE BufferTooSmall(c)
      BY <3>7, Zenon DEF BufferTooSmall, ClientClose
    <3>8. CASE PeerReset(c)
      BY <3>8, Zenon DEF PeerReset, ClientClose
    <3>9. CASE Return(c)
      BY <3>9, Zenon DEF Return, ClientClose
    <3>10. CASE Die(c)
      BY <3>10, Zenon DEF Die, ClientClose
    <3> QED
      BY <1>2, <3>2, <3>3, <3>4, <3>5, <3>6, <3>7, <3>8, <3>9, <3>10 DEF ClientStep
  <2> QED  BY <1>2, <2>1, OtherCalls
<1>3. CASE d = c /\ (RecvEnd(c) \/ RecvNext(c) \/ RecvGarbage(c) \/ RecvData(c))
  BY <1>3, RecvCall
<1>4. CASE d = c /\ (TooManyBlocks(c) \/ BufferTooSmall(c) \/ PeerReset(c)
                      \/ Return(c) \/ Die(c))
  BY <1>4, EndedCall DEF TooManyBlocks, BufferTooSmall, PeerReset, Return, Die
<1> QED
  BY <1>1, <1>2, <1>3, <1>4 DEF ClientStep

\* A server step that sends nothing, and after which no more data is due than
\* before on a connection that is still open.
LEMMA QuietServer ==
  ASSUME Inv, UNCHANGED <<call, s2c>>,
         \A d \in Calls : link'[d] = "open" =>
           link[d] = "open" /\ Outstanding(d)' = Outstanding(d)
  PROVE  \A d \in Calls : CallInv(d)'
  BY CallFrame DEF Inv

\* Data is due on no connection unless the server is about to send it.
LEMMA NothingDue ==
  ASSUME srv.pc # "data", srv'.pc # "data", NEW d
  PROVE  Outstanding(d)' = Outstanding(d)
  BY DEF Outstanding

LEMMA HandlerEndsCall ==
  ASSUME Inv, HandlerEnds, srv.pc # "data", UNCHANGED <<call, s2c>>
  PROVE  \A d \in Calls : CallInv(d)'
<1>1. \A d \in Calls : link'[d] = "open" => link[d] = "open"
  BY DEF Inv, TypeOK, HandlerEnds
<1>2. srv'.pc # "data"
  BY DEF HandlerEnds, IdleServer
<1> QED
  BY <1>1, <1>2, NothingDue, QuietServer

\* The connection the server sends on, and the others.
LEMMA ServerSends ==
  ASSUME Inv, srv.c \in Calls, NEW items, ServerSend(items), srv'.c = srv.c
  PROVE  /\ \A d \in Calls : d # srv.c =>
              s2c'[d] = s2c[d] /\ link'[d] = link[d] /\ Outstanding(d)' = Outstanding(d)
         /\ link[srv.c] = "open" => s2c'[srv.c] = s2c[srv.c] \o items
         /\ link[srv.c] # "open" => s2c'[srv.c] = s2c[srv.c] /\ link'[srv.c] # "open"
  BY DEF Inv, TypeOK, ServerSend, Client, Outstanding

LEMMA SendsHeaderCall ==
  ASSUME Inv, NEW h \in HeaderItem, ServerSend(<<h>>), srv.pc # "data",
         srv.c \in Calls, srv'.c = srv.c, UNCHANGED call,
         \/ h.t = "n" /\ Outstanding(srv.c)' = h.len
         \/ h.t # "n" /\ srv'.pc # "data",
         NEW d \in Calls
  PROVE  CallInv(d)'
<1>1. CallInv(d)
  BY DEF Inv
<1>2. CASE d # srv.c \/ link[d] # "open"
  BY <1>1, <1>2, CallFrame, ServerSends
<1>3. CASE d = srv.c /\ link[d] = "open"
  <2>1. s2c'[d] = s2c[d] \o <<h>> /\ s2c[d] \in Seq(Items)
    BY <1>3, ServerSends DEF Inv, TypeOK, Items
  <2>2. FramedSeq(s2c[d]) /\ Whole(s2c[d], 0)
    BY <1>1, <1>3 DEF CallInv, Outstanding
  <2>3. /\ FramedSeq(s2c'[d])
        /\ h.t = "n" => Whole(s2c'[d], h.len)
        /\ h.t # "n" => Whole(s2c'[d], 0)
        /\ \A l \in Nat : l <= Len(s2c[d]) /\ LeadsWithData(s2c[d], l) => LeadsWithData(s2c'[d], l)
    BY <2>1, <2>2, HeaderFramed
  <2>4. Whole(s2c'[d], Outstanding(d)')
    <3>1. h.t # "n" => Outstanding(d)' = 0
      BY DEF Outstanding
    <3> QED  BY <1>3, <2>3, <3>1
  <2>5. InPacket(d)'
    <3> SUFFICES ASSUME call[d].pc = "data"
                 PROVE  /\ call[d].l > 0
                        /\ LeadsWithData(s2c'[d], call[d].l)
                        /\ call[d].l <= Len(s2c'[d])
      BY DEF InPacket
    <3>1. call[d].l \in Nat
      BY CallLocals DEF Inv, CallState
    <3>2. /\ call[d].l > 0 /\ LeadsWithData(s2c[d], call[d].l)
          /\ \/ call[d].l <= Len(s2c[d])
             \/ s2c[d] = <<>> /\ call[d].l = 0
      BY <1>1, <1>3 DEF CallInv, InPacket, Outstanding
    <3>3. call[d].l <= Len(s2c[d])
      BY <3>1, <3>2
    <3>4. Len(s2c'[d]) = Len(s2c[d]) + 1 /\ Len(s2c[d]) \in Nat
      BY <2>1
    <3> QED  BY <2>3, <3>1, <3>2, <3>3, <3>4
  <2>6. AtExtent(d)' /\ Fresh(d)'
    BY <1>1, <1>3 DEF CallInv, AtExtent, Fresh
  <2> QED
    BY <2>3, <2>4, <2>5, <2>6 DEF CallInv
<1> QED
  BY <1>2, <1>3

LEMMA SendsDataCall ==
  ASSUME Inv, SendChunkData, NEW d \in Calls
  PROVE  CallInv(d)'
<1>1. CallInv(d) /\ srv.pc = "data"
  BY DEF Inv, SendChunkData, SrvAt
<1>2. /\ srv.c \in Calls
      /\ srv \in [pc : {"open", "chunk", "data", "except", "last", "verbose"},
            c : Calls, k : Nat \ {0}, n : Nat, ext : Extent, off : Nat,
            i : Nat, bound : BOOLEAN]
  BY <1>1, ServerLocals DEF Inv
<1>3. srv'.c = srv.c /\ srv'.pc = "chunk"
  BY <1>2 DEF SendChunkData
<1>4. ServerSend(ChunkData) /\ call' = call
  BY DEF SendChunkData
<1>5. /\ ChunkData \in Seq(Items)
      /\ \A q \in 1..Len(ChunkData) : ChunkData[q].t = "d"
  <2>1. ChunkData \in Seq(DataItem) /\ \A q \in 1..Len(ChunkData) : ChunkData[q].t = "d"
    BY <1>1, ChunkDataType DEF Inv, InChunk
  <2> QED  BY <2>1 DEF Items
<1>6. CASE d # srv.c \/ link[d] # "open"
  BY <1>1, <1>2, <1>3, <1>4, <1>6, CallFrame, ServerSends
<1>7. CASE d = srv.c /\ link[d] = "open"
  <2>1. s2c'[d] = s2c[d] \o ChunkData /\ s2c[d] \in Seq(Items)
    BY <1>2, <1>3, <1>4, <1>7, ServerSends DEF Inv, TypeOK, Items
  <2>2. Outstanding(d) = Len(ChunkData) /\ Outstanding(d)' = 0
    BY <1>1, <1>3, <1>7 DEF Outstanding
  <2>3. FramedSeq(s2c[d]) /\ Whole(s2c[d], Len(ChunkData))
    BY <1>1, <1>7, <2>2 DEF CallInv
  <2>4. /\ FramedSeq(s2c'[d]) /\ Whole(s2c'[d], 0)
        /\ \A l \in Nat : LeadsWithData(s2c[d], l) => LeadsWithData(s2c'[d], l)
    BY <1>5, <2>1, <2>3, DataFramed
  <2>5. InPacket(d)'
    <3> SUFFICES ASSUME call[d].pc = "data"
                 PROVE  /\ call[d].l > 0
                        /\ LeadsWithData(s2c'[d], call[d].l)
                        /\ call[d].l <= Len(s2c'[d])
      BY <1>4 DEF InPacket
    <3>1. call[d].l \in Nat
      BY CallLocals DEF Inv, CallState
    <3>2. /\ call[d].l > 0 /\ LeadsWithData(s2c[d], call[d].l)
          /\ \/ call[d].l <= Len(s2c[d])
             \/ call[d].l = Len(ChunkData)
      BY <1>1, <1>7, <2>2 DEF CallInv, InPacket
    <3>3. Len(s2c'[d]) = Len(s2c[d]) + Len(ChunkData) /\ Len(s2c[d]) \in Nat /\ Len(ChunkData) \in Nat
      BY <1>5, <2>1
    <3> QED  BY <2>4, <3>1, <3>2, <3>3
  <2>6. AtExtent(d)' /\ Fresh(d)'
    BY <1>1, <1>4, <1>7 DEF CallInv, AtExtent, Fresh
  <2> QED
    BY <2>2, <2>4, <2>5, <2>6 DEF CallInv
<1> QED
  BY <1>6, <1>7

\* Only SendChunkHeader leads to where data is due.
LEMMA NewServerPc ==
  ASSUME Inv, ServerStep, ~SendChunkHeader
  PROVE  srv'.pc # "data"
<1>1. CASE Accept \/ ReadCmd \/ ReadReq \/ Report
  BY <1>1 DEF Accept, ReadCmd, ReadReq, Report
<1>2. CASE RecvAborted \/ AllServed \/ ReportUnbound \/ SendRaises
  BY <1>2 DEF RecvAborted, AllServed, ReportUnbound, SendRaises, HandlerEnds, IdleServer
<1>3. CASE \/ OpenFile \/ OpenFails \/ SendChunkData \/ ReadFails \/ ChunksDone
           \/ SendError \/ SendLast \/ SendRaisesInTry
  <2>1. srv.pc \in {"open", "chunk", "data", "except", "last"}
    BY <1>3 DEF OpenFile, OpenFails, SendChunkData, ReadFails, ChunksDone, SendError,
       SendLast, SendRaisesInTry, SrvAt
  <2>2. srv \in [pc : {"open", "chunk", "data", "except", "last", "verbose"},
              c : Calls, k : Nat \ {0}, n : Nat, ext : Extent, off : Nat,
              i : Nat, bound : BOOLEAN]
    BY <2>1, ServerLocals DEF Inv
  <2>3. CASE OpenFile
    BY <2>2, <2>3 DEF OpenFile
  <2>4. CASE OpenFails \/ ReadFails \/ SendRaisesInTry
    BY <2>2, <2>4 DEF OpenFails, ReadFails, SendRaisesInTry, ToExcept
  <2>5. CASE SendChunkData
    BY <2>2, <2>5 DEF SendChunkData
  <2>6. CASE ChunksDone \/ SendError \/ SendLast
    BY <2>2, <2>6 DEF ChunksDone, SendError, SendLast
  <2> QED  BY <1>3, <2>3, <2>4, <2>5, <2>6
<1> QED
  BY <1>1, <1>2, <1>3 DEF ServerStep

LEMMA ServerCall ==
  ASSUME Inv, ServerStep, NEW d \in Calls
  PROVE  CallInv(d)'
<1>1. CASE Accept \/ ReadCmd \/ ReadReq \/ OpenFile \/ ChunksDone \/ Report
  <2>1. srv.pc # "data" /\ srv'.pc # "data"
    <3>1. srv.pc # "data" /\ (srv.pc = "chunk" => ~SendChunkHeader)
      BY <1>1 DEF Accept, ReadCmd, ReadReq, OpenFile, ChunksDone, Report, SrvAt,
         SendChunkHeader, Inv, TypeOK, ServerState, Extent
    <3>2. ~SendChunkHeader
      BY <1>1, <3>1 DEF Accept, ReadCmd, ReadReq, OpenFile, ChunksDone, Report, SrvAt,
         SendChunkHeader
    <3> QED  BY <3>1, <3>2, NewServerPc
  <2>2. UNCHANGED <<call, s2c, link>>
    BY <1>1 DEF Accept, ReadCmd, ReadReq, OpenFile, ChunksDone, Report
  <2> QED  BY <2>1, <2>2, NothingDue, QuietServer
<1>2. CASE RecvAborted \/ AllServed \/ ReportUnbound \/ SendRaises
  BY <1>2, HandlerEndsCall DEF RecvAborted, AllServed, ReportUnbound, SendRaises, SrvAt
<1>3. CASE OpenFails \/ ReadFails
  <2>1. srv.pc # "data" /\ srv'.pc # "data"
    BY <1>3, NewServerPc DEF OpenFails, ReadFails, SendChunkHeader, SrvAt
  <2>2. UNCHANGED <<call, s2c, link>>
    BY <1>3 DEF OpenFails, ReadFails, ToExcept
  <2> QED  BY <2>1, <2>2, NothingDue, QuietServer
<1>4. CASE SendRaisesInTry
  <2>1. UNCHANGED <<call, s2c, link>> /\ link[srv.c] = "crst"
    BY <1>4 DEF SendRaisesInTry, ToExcept, Client
  <2>2. srv'.pc # "data" /\ srv'.c = srv.c
    <3>1. srv.pc \in {"chunk", "data"}
      BY <1>4 DEF SendRaisesInTry, SrvAt
    <3>2. srv \in [pc : {"open", "chunk", "data", "except", "last", "verbose"},
              c : Calls, k : Nat \ {0}, n : Nat, ext : Extent, off : Nat,
              i : Nat, bound : BOOLEAN]
      BY <3>1, ServerLocals DEF Inv
    <3> QED  BY <1>4, <3>2 DEF SendRaisesInTry, ToExcept
  <2>3. \A e \in Calls : link'[e] = "open" =>
          link[e] = "open" /\ Outstanding(e)' = Outstanding(e)
    BY <2>1, <2>2 DEF Outstanding
  <2> QED  BY <2>1, <2>3, QuietServer
<1>5. CASE SendChunkHeader
  <2>1. /\ srv.pc = "chunk" /\ srv.i < srv.ext.cnt /\ srv.c \in Calls /\ srv.off \in Nat
        /\ srv \in [pc : {"open", "chunk", "data", "except", "last", "verbose"},
              c : Calls, k : Nat \ {0}, n : Nat, ext : Extent, off : Nat,
              i : Nat, bound : BOOLEAN]
    BY <1>5, ServerLocals DEF SendChunkHeader, SrvAt, Inv
  <2>2. ChunkData \in Seq(DataItem)
    BY <2>1, ChunkDataType DEF Inv
  <2>3. Header("n", srv.off, Len(ChunkData)) \in HeaderItem
    BY <2>1, <2>2 DEF Header, HeaderItem
  <2>4. /\ srv'.pc = "data" /\ srv'.c = srv.c
        /\ srv'.off = srv.off /\ srv'.i = srv.i /\ srv'.ext = srv.ext
    BY <1>5, <2>1 DEF SendChunkHeader
  <2>5. ChunkData' = ChunkData
    BY <2>4 DEF ChunkData, ChunkAddr, ChunkLen, FileRead
  <2>6. Outstanding(srv.c)' = Len(ChunkData)
    BY <2>4, <2>5 DEF Outstanding
  <2>7. /\ ServerSend(<<Header("n", srv.off, Len(ChunkData))>>) /\ call' = call
        /\ Header("n", srv.off, Len(ChunkData)).t = "n"
        /\ Header("n", srv.off, Len(ChunkData)).len = Len(ChunkData)
    BY <1>5 DEF SendChunkHeader, Header
  <2> HIDE DEF Header
  <2> QED  BY <2>1, <2>3, <2>4, <2>6, <2>7, SendsHeaderCall
<1>6. CASE SendChunkData
  BY <1>6, SendsDataCall
<1>7. CASE SendError
  <2>1. /\ srv.pc = "except" /\ srv.c \in Calls /\ srv.off \in Nat
        /\ srv \in [pc : {"open", "chunk", "data", "except", "last", "verbose"},
              c : Calls, k : Nat \ {0}, n : Nat, ext : Extent, off : Nat,
              i : Nat, bound : BOOLEAN]
    BY <1>7, ServerLocals DEF SendError, SrvAt, Inv
  <2>2. Header("e", srv.off, 0) \in HeaderItem /\ Header("e", srv.off, 0).t # "n"
    BY <2>1 DEF Header, HeaderItem
  <2>3. srv'.pc # "data" /\ srv'.c = srv.c
    BY <1>7, <2>1 DEF SendError
  <2>4. ServerSend(<<Header("e", srv.off, 0)>>) /\ call' = call
    BY <1>7 DEF SendError
  <2> QED  BY <2>1, <2>2, <2>3, <2>4, SendsHeaderCall
<1>8. CASE SendLast
  <2>1. /\ srv.pc = "last" /\ srv.c \in Calls /\ srv.off \in Nat /\ srv.ext.cnt \in Nat
        /\ srv \in [pc : {"open", "chunk", "data", "except", "last", "verbose"},
              c : Calls, k : Nat \ {0}, n : Nat, ext : Extent, off : Nat,
              i : Nat, bound : BOOLEAN]
    BY <1>8, ServerLocals DEF SendLast, SrvAt, Inv, Extent
  <2>2. /\ Header("l", srv.off, srv.ext.cnt) \in HeaderItem
        /\ Header("l", srv.off, srv.ext.cnt).t # "n"
    BY <2>1 DEF Header, HeaderItem
  <2>3. srv'.pc # "data" /\ srv'.c = srv.c
    BY <1>8, <2>1 DEF SendLast
  <2>4. ServerSend(<<Header("l", srv.off, srv.ext.cnt)>>) /\ call' = call
    BY <1>8 DEF SendLast
  <2> QED  BY <2>1, <2>2, <2>3, <2>4, SendsHeaderCall
<1> QED
  BY <1>1, <1>2, <1>3, <1>4, <1>5, <1>6, <1>7, <1>8 DEF ServerStep

LEMMA RestartCall ==
  ASSUME Inv, RestartServer
  PROVE  \A d \in Calls : CallInv(d)'
<1>1. UNCHANGED <<call, s2c>> /\ \A d \in Calls : link'[d] # "open"
  BY DEF Inv, TypeOK, RestartServer
<1> QED
  BY <1>1, QuietServer

LEMMA InChunkStep == Inv /\ [Next]_vars => InChunk'
<1> SUFFICES ASSUME Inv, [Next]_vars, srv'.pc = "data" PROVE srv'.i < srv'.ext.cnt
  BY DEF InChunk
<1>1. CASE srv' = srv
  BY <1>1 DEF Inv, InChunk
<1>2. CASE SendChunkHeader
  <2>1. srv.i < srv.ext.cnt /\ srv' = [srv EXCEPT !.pc = "data"]
    BY <1>2 DEF SendChunkHeader
  <2>2. srv \in [pc : {"open", "chunk", "data", "except", "last", "verbose"},
              c : Calls, k : Nat \ {0}, n : Nat, ext : Extent, off : Nat,
              i : Nat, bound : BOOLEAN]
    BY <1>2, ServerLocals DEF SendChunkHeader, SrvAt, Inv
  <2> QED  BY <2>1, <2>2
<1>3. CASE ServerStep /\ ~SendChunkHeader
  <2>1. srv'.pc # "data"
    BY <1>3, NewServerPc
  <2> QED  BY <2>1
<1>4. CASE RestartServer
  BY <1>4 DEF RestartServer, IdleServer
<1>5. CASE \E c \in Calls : ClientStep(c) \/ Die(c)
  <2>1. srv' = srv
    BY <1>5 DEF ClientStep, SendCmd, TooManyBlocks, SendReq, RecvEnd, RecvNext, RecvGarbage,
       RecvData, BufferTooSmall, PeerReset, Return, Die
  <2> QED  BY <1>1, <2>1
<1>6. CASE \E c \in Calls, j \in Jobs : Connect(c, j)
  BY <1>1, <1>6 DEF Connect
<1>7. CASE UNCHANGED vars
  BY <1>1, <1>7 DEF vars
<1> QED
  BY <1>2, <1>3, <1>4, <1>5, <1>6, <1>7 DEF Next

(***************************************************************************)
(* The theorems.                                                           *)
(***************************************************************************)

LEMMA InitInv == Init => Inv
<1> SUFFICES ASSUME Init PROVE Inv
  OBVIOUS
<1>1. TypeOK
  BY InitType
<1>2. InChunk
  BY DEF Init, IdleServer, InChunk
<1>3. ASSUME NEW c \in Calls PROVE CallInv(c)
  <2>1. call[c].pc = "idle" /\ link[c] # "open" /\ s2c[c] = <<>>
    BY DEF Init, Idle
  <2> QED
    BY <2>1, EmptyStream DEF CallInv, AtExtent, InPacket, Fresh
<1> QED
  BY <1>1, <1>2, <1>3 DEF Inv

LEMMA InvStep == Inv /\ [Next]_vars => Inv'
<1> SUFFICES ASSUME Inv, [Next]_vars PROVE Inv'
  OBVIOUS
<1>1. TypeOK' /\ InChunk'
  BY TypeStep, InChunkStep
<1>2. ASSUME NEW d \in Calls PROVE CallInv(d)'
  <2>1. CASE \E c \in Calls, j \in Jobs : Connect(c, j)
    BY <2>1, ConnectCall
  <2>2. CASE \E c \in Calls : ClientStep(c) \/ Die(c)
    BY <2>2, ClientCall
  <2>3. CASE ServerStep
    BY <2>3, ServerCall
  <2>4. CASE RestartServer
    BY <2>4, RestartCall
  <2>5. CASE UNCHANGED vars
    <3>1. call' = call /\ s2c' = s2c /\ link' = link /\ srv' = srv /\ CallInv(d)
      BY <2>5 DEF vars, Inv
    <3> QED  BY <3>1, CallFrame, SameServer
  <2> QED
    BY <2>1, <2>2, <2>3, <2>4, <2>5 DEF Next
<1> QED
  BY <1>1, <1>2 DEF Inv

\* The variables of the client, of the server and of the connections between
\* them keep their types, whatever is killed, restarted or cut off.
THEOREM TypeCorrect == Spec => []TypeOK
<1>1. Inv => TypeOK
  BY DEF Inv
<1> QED
  BY <1>1, InitInv, InvStep, PTL DEF Spec

\* The client never takes a header for data, in any mix of short reads, error
\* packets, answers out of step, deaths and restarts (_read_network_buf and
\* _do_read agree on the framing).
THEOREM FramingHolds == Spec => []DataIsData
<1>1. Inv => DataIsData
  BY DEF Inv, CallInv, InPacket, LeadsWithData, DataIsData
<1> QED
  BY <1>1, InitInv, InvStep, PTL DEF Spec

HIDE ConstantsAssumption

-----------------------------------------------------------------------------
(***************************************************************************)
(* What is in the streams.  The inductive invariant is built in three      *)
(* layers, each proved from the ones before it: the connections and the    *)
(* requests (Base), the answers (Streams) and the buffers (Buffers).  The  *)
(* last part shows with them that a read is the one step of BlockRead to   *)
(* its caller, while the server is not restarted.                          *)
(***************************************************************************)

(***************************************************************************)
(* Connections and requests.                                               *)
(***************************************************************************)

Active == {"cmd", "req", "hdr", "data"}
Ended  == {"done", "raised", "dead"}
Bv(c)  == call[c].job.blockv

\* How many extents the call has asked for.
Asked(c) == IF call[c].pc \in {"hdr", "data"} THEN call[c].k ELSE call[c].k - 1

\* The server has read the command, it has an extent in hand; the first
\* request it has not read.
CmdRead(c) == srv.c = c /\ srv.pc \notin {"accept", "cmd"}
Serving(c) == CmdRead(c) /\ srv.pc # "req"
Unread(c)  == IF Serving(c) THEN srv.k + 1 ELSE srv.k

ReqOf(e)           == [t |-> "req", ext |-> e]
CmdOf(j)           == [t |-> "cmd", op |-> j.op, n |-> Len(j.blockv)]
Requests(bv, a, b) == [q \in 1..(b + 1 - a) |-> ReqOf(bv[a + q - 1])]

LinkInv(c) ==
  /\ call[c].pc = "idle" <=> link[c] = "none"
  /\ link[c] \in {"open", "sfin", "srst"} => call[c].pc \in Active
  /\ link[c] \in {"cfin", "crst", "down"} => call[c].pc \in Ended
  /\ link[c] \notin {"open", "cfin", "crst"} => c2s[c] = <<>> /\ ~CmdRead(c)

\* The place of a call in its own list.
PlaceInv(c) ==
  Started(c) =>
    /\ call[c].k <= Len(Bv(c)) + 1
    /\ call[c].boff = Starts(Bv(c))[call[c].k - 1]
    /\ call[c].pc = "cmd" => call[c].k = 1
    /\ call[c].pc = "done" => call[c].k = Len(Bv(c)) + 1

\* What the client has sent and the server has not read.
RequestInv(c) ==
  link[c] \in {"open", "cfin"} /\ call[c].pc \in Active \union {"done"} =>
    /\ CmdRead(c) => /\ call[c].pc # "cmd"
                     /\ srv.n = Len(Bv(c))
                     /\ Unread(c) <= Asked(c) + 1
                     /\ c2s[c] = Requests(Bv(c), Unread(c), Asked(c))
    /\ Serving(c) => srv.ext = Bv(c)[srv.k]
    /\ ~CmdRead(c) =>
         c2s[c] = IF call[c].pc = "cmd" THEN <<>>
                  ELSE <<CmdOf(call[c].job)>> \o Requests(Bv(c), 1, Asked(c))

\* A client that closed with nothing left to read.
ClosedInv(c) ==
  link[c] = "cfin" =>
    \/ call[c].pc \in {"done", "dead"}
    \/ Len(Bv(c)) > MaxByte
    \/ srv.c = c /\ srv.pc = "data"

\* Where the server was when it first failed.
FailInv(c) ==
  /\ call[c].pc = "idle" => failed[c] = 0
  /\ call[c].pc \in Active => failed[c] <= Asked(c)
  /\ link[c] = "open" /\ failed[c] # 0 =>
       /\ CmdRead(c)
       /\ srv.k >= failed[c]
       /\ srv.pc \in {"req", "open", "chunk", "data"} => srv.k > failed[c]
  /\ srv.c = c /\ srv.pc = "except" => failed[c] # 0

BaseInv(c) == LinkInv(c) /\ PlaceInv(c) /\ RequestInv(c) /\ ClosedInv(c) /\ FailInv(c)
Base == \A c \in Calls : BaseInv(c)

----------------------------------------------------------------------------
\* The helpers

\* Requests a to b of a list.
LEMMA RequestsAre ==
  ASSUME NEW bv \in Seq(Extent), NEW a \in Nat \ {0}, NEW b \in Nat,
         NEW n \in Nat, n = b + 1 - a, b <= Len(bv)
  PROVE  /\ Requests(bv, a, b) \in Seq(ReqItem)
         /\ Len(Requests(bv, a, b)) = n
         /\ \A q \in 1..n : /\ Requests(bv, a, b)[q] = ReqOf(bv[a + q - 1])
                            /\ ReqOf(bv[a + q - 1]) \in ReqItem
<1> DEFINE r == Requests(bv, a, b)
<1>1. \A q \in 1..n : a + q - 1 \in 1..Len(bv)
  OBVIOUS
<1>2. \A q \in 1..n : ReqOf(bv[a + q - 1]) \in ReqItem
  BY <1>1 DEF ReqOf, ReqItem
<1>3. r \in [1..n -> ReqItem]
  BY <1>2, Zenon DEF Requests
<1>4. r \in Seq(ReqItem) /\ Len(r) = n
  <2> HIDE DEF r
  <2> QED BY <1>3
<1>5. \A q \in 1..n : r[q] = ReqOf(bv[a + q - 1])
  BY DEF Requests
<1> QED BY <1>2, <1>4, <1>5

\* The first request of several, and one more behind them.
LEMMA RequestsUnderWay ==
  ASSUME NEW bv \in Seq(Extent), NEW a \in Nat \ {0}, NEW b \in Nat,
         a <= b + 1, b <= Len(bv)
  PROVE  /\ Requests(bv, a, b) \in Seq(ReqItem)
         /\ Requests(bv, a, b) = <<>> <=> a = b + 1
         /\ a <= b => /\ Head(Requests(bv, a, b)) = ReqOf(bv[a])
                      /\ Tail(Requests(bv, a, b)) = Requests(bv, a + 1, b)
         /\ b < Len(bv) => Append(Requests(bv, a, b), ReqOf(bv[b + 1])) = Requests(bv, a, b + 1)
<1> DEFINE r == Requests(bv, a, b)
           Is(s, n, m) == /\ s \in Seq(ReqItem) /\ Len(s) = n
                          /\ \A q \in 1..n : s[q] = ReqOf(bv[m + q - 1])
<1>1. Is(r, b + 1 - a, a) /\ \A q \in 1..b + 1 - a : ReqOf(bv[a + q - 1]) \in ReqItem
  BY RequestsAre
<1>2. r = <<>> <=> a = b + 1
  <2> HIDE DEF r
  <2> QED BY <1>1
<1>3. ASSUME a <= b
      PROVE  Head(r) = ReqOf(bv[a]) /\ Tail(r) = Requests(bv, a + 1, b)
  <2> DEFINE t == Requests(bv, a + 1, b)
  <2>1. t \in Seq(ReqItem) /\ Len(t) = b - a /\ \A q \in 1..b - a : t[q] = ReqOf(bv[a + q])
    <3> DEFINE m == a + 1
               n == b - a
    <3>1. n = b + 1 - m /\ m \in Nat \ {0} /\ n \in Nat
      BY <1>3
    <3>2. \A q \in 1..n : m + q - 1 = a + q
      OBVIOUS
    <3> HIDE DEF m, n
    <3>3. /\ Requests(bv, m, b) \in Seq(ReqItem) /\ Len(Requests(bv, m, b)) = n
          /\ \A q \in 1..n : Requests(bv, m, b)[q] = ReqOf(bv[m + q - 1])
      BY <3>1, RequestsAre, SMTT(30)
    <3> QED BY <3>2, <3>3, Zenon DEF m, n
  <2> HIDE DEF r, t
  <2>2. r # <<>> /\ Head(r) = r[1] /\ r[1] = ReqOf(bv[a])
    BY <1>1, <1>2, <1>3
  <2>3. /\ Tail(r) \in Seq(ReqItem) /\ Len(Tail(r)) = b - a
        /\ \A q \in 1..b - a : Tail(r)[q] = r[q + 1]
    BY <1>1, <2>2, HeadTailProperties
  <2>4. \A q \in 1..b - a : r[q + 1] = t[q]
    <3>1. \A q \in 1..b - a : q + 1 \in 1..b + 1 - a /\ a + (q + 1) - 1 = a + q
      OBVIOUS
    <3> QED BY <1>1, <2>1, <3>1
  <2>5. Tail(r) = t
    BY <2>1, <2>3, <2>4, SeqEqual
  <2> QED BY <2>2, <2>5 DEF t
<1>4. ASSUME b < Len(bv)
      PROVE  Append(r, ReqOf(bv[b + 1])) = Requests(bv, a, b + 1)
  <2> DEFINE t == Requests(bv, a, b + 1)
             x == ReqOf(bv[b + 1])
  <2>1. Is(t, b + 2 - a, a) /\ \A q \in 1..b + 2 - a : ReqOf(bv[a + q - 1]) \in ReqItem
    <3> DEFINE m == b + 1
               n == b + 2 - a
    <3>1. n = m + 1 - a /\ m \in Nat /\ n \in Nat /\ m <= Len(bv)
      BY <1>4
    <3> HIDE DEF m, n
    <3>2. /\ Requests(bv, a, m) \in Seq(ReqItem) /\ Len(Requests(bv, a, m)) = n
          /\ \A q \in 1..n : Requests(bv, a, m)[q] = ReqOf(bv[a + q - 1])
          /\ \A q \in 1..n : ReqOf(bv[a + q - 1]) \in ReqItem
      BY <3>1, RequestsAre
    <3> QED BY <3>2, Zenon DEF m, n
  <2>2. x \in ReqItem /\ a + (b + 2 - a) - 1 = b + 1
    BY <1>4 DEF ReqOf, ReqItem
  <2>3. t[b + 2 - a] = x
    <3>1. b + 2 - a \in 1..b + 2 - a
      OBVIOUS
    <3> HIDE DEF t
    <3> QED BY <2>1, <2>2, <3>1
  <2> HIDE DEF r, t, x
  <2>4. /\ Append(r, x) \in Seq(ReqItem) /\ Len(Append(r, x)) = b + 2 - a
        /\ \A q \in 1..b + 1 - a : Append(r, x)[q] = r[q]
        /\ Append(r, x)[b + 2 - a] = x
    BY <1>1, <2>2, AppendProperties
  <2>5. \A q \in 1..b + 2 - a : Append(r, x)[q] = t[q]
    <3>1. \A q \in 1..b + 2 - a : q \in 1..b + 1 - a \/ q = b + 2 - a
      OBVIOUS
    <3>2. \A q \in 1..b + 1 - a : r[q] = t[q]
      BY <1>1, <2>1
    <3> QED BY <2>3, <2>4, <3>1, <3>2
  <2>6. Append(r, x) = t
    BY <2>1, <2>4, <2>5, SeqEqual
  <2> QED BY <2>6 DEF t, x
<1> QED BY <1>1, <1>2, <1>3, <1>4

\* The same behind the command.
LEMMA BehindTheCommand ==
  ASSUME NEW T, NEW x \in T, NEW r \in Seq(T), NEW y \in T
  PROVE  /\ <<x>> \o r \in Seq(T) /\ <<x>> \o r # <<>>
         /\ Head(<<x>> \o r) = x /\ Tail(<<x>> \o r) = r
         /\ Append(<<x>> \o r, y) = <<x>> \o Append(r, y)
  OBVIOUS

\* Where the extents begin in the buffer.
LEMMA StartsAre ==
  ASSUME NEW bv \in Seq(Extent)
  PROVE  /\ Starts(bv) \in [0..Len(bv) -> Nat]
         /\ Starts(bv)[0] = 0
         /\ \A k \in 1..Len(bv) : Starts(bv)[k] = Starts(bv)[k - 1] + bv[k].cnt
<1> DEFINE N == Len(bv)
           sum == CHOOSE sum : sum = [k \in 0..N |-> IF k = 0 THEN 0 ELSE sum[k - 1] + bv[k].cnt]
           G == [n \in Nat |-> [x \in Nat |-> IF n \in 1..N THEN x + bv[n].cnt ELSE x]]
<1>1. N \in Nat /\ \A k \in 1..N : bv[k].cnt \in Nat
  <2>1. \A k \in 1..N : bv[k] \in Extent
    OBVIOUS
  <2> QED BY <2>1 DEF Extent
<1>2. G \in [Nat -> [Nat -> Nat]] /\ \A n \in 1..N, x \in Nat : G[n][x] = x + bv[n].cnt
  BY <1>1
<1>3. PICK f \in [0..N -> Nat] : Solves(f, N, 0, G)
  <2> HIDE DEF N, G
  <2> QED BY <1>1, <1>2, RecursionUpTo
<1>4. f = [k \in 0..N |-> IF k = 0 THEN 0 ELSE f[k - 1] + bv[k].cnt]
  <2>1. \A k \in 1..N : f[k] = f[k - 1] + bv[k].cnt
    <3>1. \A k \in 1..N : k \in Nat /\ k - 1 \in 0..N /\ f[k - 1] \in Nat
      BY <1>1, SMTT(30)
    <3> HIDE DEF G, N
    <3> QED BY <1>2, <1>3, <3>1 DEF Solves
  <2>2. f[0] = 0
    BY <1>3 DEF Solves
  <2> HIDE DEF N
  <2> QED BY <1>1, <2>1, <2>2
<1>5. sum = [k \in 0..N |-> IF k = 0 THEN 0 ELSE sum[k - 1] + bv[k].cnt]
  BY <1>4, Zenon
<1>6. sum[0] = 0 /\ \A k \in 1..N : sum[k] = sum[k - 1] + bv[k].cnt
  <2> HIDE DEF sum
  <2> QED BY <1>1, <1>5
<1>7. \A k \in 0..N : sum[k] \in Nat
  <2> DEFINE S == {k \in Nat : k <= N => sum[k] \in Nat}
  <2>1. 0 \in S
    <3> HIDE DEF sum
    <3> QED BY <1>6
  <2>2. ASSUME NEW n \in Nat, n < N /\ n \in S PROVE n + 1 \in S
    <3> HIDE DEF sum, N
    <3>1. sum[n + 1] = sum[(n + 1) - 1] + bv[n + 1].cnt /\ bv[n + 1].cnt \in Nat
      BY <1>1, <1>6, <2>2
    <3>2. sum[n] \in Nat /\ (n + 1) - 1 = n
      BY <1>1, <2>2
    <3> QED BY <3>1, <3>2
  <2>3. 0..N \subseteq S
    <3> HIDE DEF S, N
    <3> QED BY <1>1, <2>1, <2>2, UpToInduction
  <2> HIDE DEF sum
  <2> QED BY <1>1, <2>3
<1>8. Starts(bv) = sum
  BY Zenon DEF Starts
<1>9. sum \in [0..N -> Nat]
  <2>1. sum = [k \in 0..N |-> sum[k]]
    <3> HIDE DEF sum
    <3> QED BY <1>5
  <2> HIDE DEF sum
  <2> QED BY <1>7, <2>1
<1> HIDE DEF sum
<1> QED BY <1>6, <1>8, <1>9
----------------------------------------------------------------------------
\* What a step does to one call

\* A step leaves call d alone.
Elsewhere(d) ==
  /\ call'[d] = call[d] /\ link'[d] = link[d] /\ c2s'[d] = c2s[d]
  /\ s2c'[d] = s2c[d] /\ failed'[d] = failed[d] /\ buf'[d] = buf[d]
  /\ srv' = srv \/ (srv.c # d /\ srv'.c # d)

LEMMA CallFields ==
  ASSUME Inv, NEW c \in Calls, call[c].pc # "idle"
  PROVE  /\ call[c] \in CallState /\ call[c].job \in Jobs
         /\ call[c].pc \in Active \union Ended
         /\ call[c].k \in Nat \ {0} /\ call[c].boff \in Nat /\ call[c].count \in Int
         /\ call[c].off \in Nat /\ call[c].l \in Nat
         /\ Bv(c) \in Seq(Extent) /\ Len(Bv(c)) \in Nat
<1>1. call[c] \in CallState /\ call[c].job.blockv \in Seq(Extent) /\ call[c].job \in Jobs
  BY CallLocals, ConstantsAssumption DEF Inv
<1> QED BY <1>1 DEF CallState, Bv, Active, Ended

LEMMA ClosesEffect ==
  ASSUME Inv, NEW c \in Calls, NEW p \in Ended, call[c].pc # "idle",
         call' = [call EXCEPT ![c].pc = p], ClientClose(c)
  PROVE  /\ call'[c].pc = p /\ call'[c].k = call[c].k /\ call'[c].job = call[c].job
         /\ call'[c].boff = call[c].boff
         /\ s2c'[c] = <<>>
         /\ link'[c] = IF link[c] # "open" THEN "down"
                       ELSE IF s2c[c] = <<>> THEN "cfin" ELSE "crst"
<1>1. call[c] \in CallState
  BY CallFields
<1> QED BY <1>1 DEF Inv, TypeOK, ClientClose, CallState

LEMMA SendsEffect ==
  ASSUME Inv, NEW c \in Calls, NEW item, ClientSend(c, item)
  PROVE  /\ link[c] \in {"open", "sfin"}
         /\ link'[c] = IF link[c] = "open" THEN "open" ELSE "srst"
         /\ c2s'[c] = IF link[c] = "open" THEN Append(c2s[c], item) ELSE c2s[c]
  BY DEF Inv, TypeOK, ClientSend

LEMMA AdvanceEffect ==
  ASSUME Inv, NEW c \in Calls, call[c].pc # "idle", Advance(c)
  PROVE  /\ call'[c].pc = "req" /\ call'[c].k = call[c].k + 1
         /\ call'[c].job = call[c].job
         /\ call'[c].boff = call[c].boff + Current(c).cnt
         /\ call'[c].off = call[c].off /\ call'[c].l = call[c].l
<1>1. call[c] \in CallState
  BY CallFields
<1> QED BY <1>1 DEF Inv, TypeOK, Advance, CallState

\* What the steps that end a call have in common.
Closes(c, p) ==
  /\ call' = [call EXCEPT ![c].pc = p]
  /\ ClientClose(c)
  /\ UNCHANGED <<c2s, backlog, srv, restarts, failed, buf>>

LEMMA ClosingSteps ==
  ASSUME Inv, NEW c \in Calls,
         \/ TooManyBlocks(c) \/ BufferTooSmall(c) \/ PeerReset(c) \/ Return(c) \/ Die(c)
         \/ (RecvGarbage(c) /\ call'[c].pc = "raised")
  PROVE  \E p \in Ended :
           /\ Closes(c, p) /\ call[c].pc \in Active
           /\ p = "done" => call[c].pc = "req" /\ call[c].k > Len(Bv(c))
           /\ p = "raised" => \/ Len(Bv(c)) > MaxByte
                              \/ s2c[c] # <<>>
                              \/ call[c].pc = "data"
                              \/ link[c] # "open"
<1>1. CASE TooManyBlocks(c)
  BY <1>1 DEF TooManyBlocks, Closes, Active, Ended, Bv
<1>2. CASE BufferTooSmall(c) \/ PeerReset(c)
  BY <1>2 DEF BufferTooSmall, PeerReset, Closes, Active, Ended
<1>3. CASE Return(c)
  <2>1. call[c].k > Len(Bv(c))
    <3>1. call[c].pc # "idle" /\ ~(call[c].k <= Len(Bv(c)))
      BY <1>3 DEF Return, MoreExtents, Bv
    <3>2. call[c].k \in Nat /\ Len(Bv(c)) \in Nat
      BY <3>1, CallFields
    <3> QED BY <3>1, <3>2
  <2> QED BY <1>3, <2>1 DEF Return, Closes, Active, Ended
<1>4. CASE Die(c)
  BY <1>4 DEF Die, Closes, Active, Ended
<1>5. CASE RecvGarbage(c) /\ call'[c].pc = "raised"
  <2>1. call[c].pc = "hdr" /\ s2c[c] # <<>>
    BY <1>5 DEF RecvGarbage
  <2>2. CASE Advance(c)
    BY <1>5, <2>1, <2>2, AdvanceEffect
  <2>3. CASE call' = call
    BY <1>5, <2>1, <2>3
  <2>4. CASE call' = [call EXCEPT ![c].pc = "raised"] /\ ClientClose(c)
    BY <1>5, <2>1, <2>4 DEF RecvGarbage, Closes, Active, Ended
  <2> QED BY <1>5, <2>2, <2>3, <2>4 DEF RecvGarbage
<1> QED BY <1>1, <1>2, <1>3, <1>4, <1>5

\* A client's step is another call's step elsewhere.
LEMMA ClientElsewhere ==
  ASSUME Inv, NEW c \in Calls, NEW d \in Calls, d # c,
         (\E j \in Jobs : Connect(c, j)) \/ ClientStep(c) \/ Die(c)
  PROVE  Elsewhere(d)
<1> USE DEF Inv, TypeOK, Elsewhere
<1>1. CASE \E j \in Jobs : Connect(c, j)
  BY <1>1 DEF Connect
<1>2. CASE SendCmd(c) \/ SendReq(c)
  BY <1>2 DEF SendCmd, SendReq, ClientSend
<1>3. CASE RecvEnd(c)
  BY <1>3 DEF RecvEnd, Advance
<1>4. CASE RecvNext(c)
  BY <1>4 DEF RecvNext, Advance
<1>5. CASE RecvGarbage(c)
  BY <1>5 DEF RecvGarbage, Advance, ClientClose
<1>6. CASE RecvData(c)
  BY <1>6 DEF RecvData
<1>7. CASE TooManyBlocks(c) \/ BufferTooSmall(c) \/ PeerReset(c) \/ Return(c) \/ Die(c)
  BY <1>7 DEF TooManyBlocks, BufferTooSmall, PeerReset, Return, Die, ClientClose
<1> QED BY <1>1, <1>2, <1>3, <1>4, <1>5, <1>6, <1>7 DEF ClientStep

\* So is a step of the server for a call it does not serve.
LEMMA ServerElsewhere ==
  ASSUME Inv, ServerStep, NEW d \in Calls, srv.c # d, srv'.c # d
  PROVE  Elsewhere(d)
<1> USE DEF Inv, TypeOK, Elsewhere
<1>1. CASE Accept \/ ReadCmd \/ ReadReq \/ OpenFile \/ ChunksDone \/ Report
  BY <1>1 DEF Accept, ReadCmd, ReadReq, OpenFile, ChunksDone, Report, Consume, Client
<1>2. CASE OpenFails \/ ReadFails \/ SendRaisesInTry
  BY <1>2 DEF OpenFails, ReadFails, SendRaisesInTry, ToExcept, Client
<1>3. CASE SendChunkHeader \/ SendChunkData \/ SendError \/ SendLast
  BY <1>3 DEF SendChunkHeader, SendChunkData, SendError, SendLast, ServerSend, Client
<1>4. CASE RecvAborted \/ AllServed \/ ReportUnbound \/ SendRaises
  BY <1>4 DEF RecvAborted, AllServed, ReportUnbound, SendRaises, HandlerEnds, Client
<1> QED BY <1>1, <1>2, <1>3, <1>4 DEF ServerStep

\* What the invariant says of a call that a step leaves alone stays true.
LEMMA BaseFrame ==
  ASSUME NEW d \in Calls, BaseInv(d), Elsewhere(d)
  PROVE  BaseInv(d)'
<1>1. (CmdRead(d)' <=> CmdRead(d)) /\ (Serving(d)' <=> Serving(d))
  BY DEF Elsewhere, CmdRead, Serving
<1>2. LinkInv(d)' /\ PlaceInv(d)'
  BY <1>1 DEF Elsewhere, BaseInv, LinkInv, PlaceInv, Started, Bv
<1>3. RequestInv(d)' /\ ClosedInv(d)' /\ FailInv(d)'
  <2>1. CASE srv' = srv
    BY <2>1, <1>1 DEF Elsewhere, BaseInv, RequestInv, ClosedInv, FailInv, Bv, Asked, Unread
  <2>2. CASE srv.c # d /\ srv'.c # d
    BY <2>2, <1>1 DEF Elsewhere, BaseInv, RequestInv, ClosedInv, FailInv, Bv, Asked, CmdRead, Serving
  <2> QED BY <2>1, <2>2 DEF Elsewhere
<1> QED BY <1>2, <1>3 DEF BaseInv

----------------------------------------------------------------------------
\* Connections and requests, step by step

LEMMA ConnectBase ==
  ASSUME Inv, Base, NEW c \in Calls, NEW j \in Jobs, Connect(c, j)
  PROVE  BaseInv(c)'
<1>1. /\ call[c].pc = "idle" /\ link[c] = "none" /\ c2s[c] = <<>> /\ ~CmdRead(c)
      /\ failed[c] = 0
  BY DEF Connect, Base, BaseInv, LinkInv, FailInv
<1>2. /\ call'[c] = [pc |-> "cmd", job |-> j, k |-> 1, boff |-> 0, count |-> 0,
                     off |-> 0, l |-> 0]
      /\ link'[c] = "open" /\ c2s'[c] = <<>> /\ failed'[c] = 0 /\ srv' = srv
  BY <1>1 DEF Connect, Inv, TypeOK
<1>3. ~CmdRead(c)' /\ ~Serving(c)'
  BY <1>1, <1>2 DEF CmdRead, Serving
<1>4. j.blockv \in Seq(Extent) /\ Starts(j.blockv)[0] = 0 /\ Len(j.blockv) \in Nat
  <2>1. j.blockv \in Seq(Extent)
    BY ConstantsAssumption
  <2> QED BY <2>1, StartsAre
<1>5. LinkInv(c)' /\ PlaceInv(c)'
  BY <1>2, <1>3, <1>4 DEF LinkInv, PlaceInv, Active, Started, Bv
<1>6. RequestInv(c)' /\ ClosedInv(c)'
  BY <1>2, <1>3 DEF RequestInv, ClosedInv
<1>7. FailInv(c)'
  <2>1. ~(srv'.c = c /\ srv'.pc = "except")
    BY <1>3 DEF CmdRead
  <2> QED BY <1>2, <2>1 DEF FailInv, Asked
<1> QED BY <1>5, <1>6, <1>7 DEF BaseInv

LEMMA ClosingBase ==
  ASSUME Inv, Base, NEW c \in Calls,
         \/ TooManyBlocks(c) \/ BufferTooSmall(c) \/ PeerReset(c) \/ Return(c) \/ Die(c)
         \/ (RecvGarbage(c) /\ call'[c].pc = "raised")
  PROVE  BaseInv(c)'
<1>1. PICK p \in Ended :
           /\ Closes(c, p) /\ call[c].pc \in Active
           /\ p = "done" => call[c].pc = "req" /\ call[c].k > Len(Bv(c))
           /\ p = "raised" => \/ Len(Bv(c)) > MaxByte
                              \/ s2c[c] # <<>>
                              \/ call[c].pc = "data"
                              \/ link[c] # "open"
  BY ClosingSteps
<1>2. BaseInv(c) /\ call[c].pc # "idle"
  BY <1>1 DEF Base, Active
<1>3. /\ call'[c].pc = p /\ call'[c].k = call[c].k /\ call'[c].job = call[c].job
      /\ call'[c].boff = call[c].boff
      /\ link'[c] = IF link[c] # "open" THEN "down"
                    ELSE IF s2c[c] = <<>> THEN "cfin" ELSE "crst"
  BY <1>1, <1>2, ClosesEffect DEF Closes
<1>4. c2s'[c] = c2s[c] /\ srv' = srv /\ failed'[c] = failed[c]
  BY <1>1 DEF Closes
<1>5. Bv(c)' = Bv(c) /\ (CmdRead(c)' <=> CmdRead(c)) /\ (Serving(c)' <=> Serving(c))
  BY <1>3, <1>4 DEF Bv, CmdRead, Serving
<1>6. LinkInv(c)'
  <2>1. link'[c] = "down" => c2s[c] = <<>> /\ ~CmdRead(c)
    <3>1. link[c] \notin {"cfin", "crst"}
      BY <1>1, <1>2 DEF BaseInv, LinkInv, Active, Ended
    <3> QED BY <1>2, <1>3, <3>1 DEF BaseInv, LinkInv
  <2> QED BY <1>2, <1>3, <1>4, <1>5, <2>1 DEF LinkInv, Ended
<1>7. PlaceInv(c)'
  <2>1. call[c].k \in Nat /\ Len(Bv(c)) \in Nat
    BY <1>2, CallFields
  <2> QED BY <1>1, <1>2, <1>3, <1>5, <2>1 DEF BaseInv, PlaceInv, Started, Ended
<1>8. RequestInv(c)'
  <2> SUFFICES ASSUME p = "done", link[c] = "open" PROVE RequestInv(c)'
    BY <1>3 DEF RequestInv, Active, Ended
  <2>1. call[c].pc = "req" /\ Asked(c)' = Asked(c) /\ Unread(c)' = Unread(c)
    BY <1>1, <1>3, <1>4, <1>5 DEF Asked, Unread
  <2> QED BY <1>2, <1>3, <1>4, <1>5, <2>1 DEF BaseInv, RequestInv, Active
<1>9. ClosedInv(c)'
  <2> SUFFICES ASSUME p = "raised", link[c] = "open", s2c[c] = <<>>, ~(Len(Bv(c)) > MaxByte)
               PROVE  srv.c = c /\ srv.pc = "data"
    BY <1>3, <1>4, <1>5 DEF ClosedInv, Ended
  <2>1. call[c].pc = "data"
    BY <1>1
  <2>2. call[c].l > 0 /\ (call[c].l <= 0 \/ call[c].l = Outstanding(c)) /\ call[c].l \in Nat
    BY <1>2, <2>1, CallFields DEF Inv, CallInv, InPacket
  <2> QED BY <2>2 DEF Outstanding
<1>10. FailInv(c)'
  BY <1>2, <1>3, <1>4 DEF BaseInv, FailInv, Active, Ended
<1> QED BY <1>6, <1>7, <1>8, <1>9, <1>10 DEF BaseInv

LEMMA SendBase ==
  ASSUME Inv, Base, NEW c \in Calls, SendCmd(c) \/ SendReq(c)
  PROVE  BaseInv(c)'
<1>1. BaseInv(c) /\ call[c].pc \in {"cmd", "req"} /\ call[c].pc # "idle"
  BY DEF SendCmd, SendReq, Base
<1>2. /\ call[c] \in CallState /\ call[c].job \in Jobs /\ call[c].k \in Nat \ {0}
      /\ Bv(c) \in Seq(Extent) /\ Len(Bv(c)) \in Nat
  BY <1>1, CallFields
<1>3. /\ call'[c].k = call[c].k /\ call'[c].job = call[c].job
      /\ call'[c].boff = call[c].boff
      /\ call[c].pc = "cmd" => call'[c].pc = "req"
      /\ call[c].pc = "req" => call'[c].pc = "hdr" /\ call[c].k <= Len(Bv(c))
  BY <1>2 DEF SendCmd, SendReq, Inv, TypeOK, CallState, MoreExtents, Bv
<1> DEFINE item == IF call[c].pc = "cmd" THEN CmdOf(call[c].job) ELSE ReqOf(Bv(c)[call[c].k])
<1>4. ClientSend(c, item) /\ srv' = srv /\ failed'[c] = failed[c]
  BY DEF SendCmd, SendReq, CmdOf, ReqOf, Current, Bv
<1>5. /\ link[c] \in {"open", "sfin"}
      /\ link'[c] = IF link[c] = "open" THEN "open" ELSE "srst"
      /\ c2s'[c] = IF link[c] = "open" THEN Append(c2s[c], item) ELSE c2s[c]
  <2> HIDE DEF item
  <2> QED BY <1>4, SendsEffect
<1>6. Bv(c)' = Bv(c) /\ (CmdRead(c)' <=> CmdRead(c)) /\ (Serving(c)' <=> Serving(c))
      /\ Unread(c)' = Unread(c)
  BY <1>3, <1>4 DEF Bv, CmdRead, Serving, Unread
<1>7. Asked(c) = call[c].k - 1 /\ Asked(c)' = IF call[c].pc = "cmd" THEN Asked(c) ELSE Asked(c) + 1
  BY <1>1, <1>2, <1>3 DEF Asked
<1>8. LinkInv(c)'
  BY <1>1, <1>3, <1>5, <1>6 DEF BaseInv, LinkInv, Active, Ended
<1>9. PlaceInv(c)'
  BY <1>1, <1>3, <1>6 DEF BaseInv, PlaceInv, Started
<1>10. RequestInv(c)'
  <2> SUFFICES ASSUME link[c] = "open" PROVE RequestInv(c)'
    BY <1>5 DEF RequestInv
  <2>1. RequestInv(c) /\ call[c].pc \in Active /\ call'[c].pc # "cmd" /\ call'[c].job = call[c].job
    BY <1>1, <1>3 DEF BaseInv, Active
  <2>2. CASE call[c].pc = "cmd"
    <3>1. call[c].k = 1 /\ Asked(c)' = 0 /\ ~CmdRead(c) /\ c2s[c] = <<>>
      BY <1>1, <1>7, <2>1, <2>2 DEF BaseInv, PlaceInv, RequestInv, Started
    <3>2. Requests(Bv(c), 1, 0) = <<>>
      BY <1>2, RequestsUnderWay, SMTT(30)
    <3>3. c2s'[c] = <<CmdOf(call[c].job)>> \o Requests(Bv(c), 1, Asked(c)')
      BY <1>5, <2>2, <3>1, <3>2
    <3> QED BY <1>6, <2>1, <3>1, <3>3 DEF RequestInv, Serving
  <2>3. CASE call[c].pc = "req"
    <3> DEFINE b == Asked(c)
    <3>1. b \in Nat /\ b < Len(Bv(c)) /\ b + 1 = call[c].k /\ Asked(c)' = b + 1
      BY <1>2, <1>3, <1>7, <2>3
    <3>2. item = ReqOf(Bv(c)[b + 1]) /\ c2s'[c] = Append(c2s[c], ReqOf(Bv(c)[b + 1]))
      BY <1>5, <2>3, <3>1
    <3> HIDE DEF b, item
    <3>3. CASE CmdRead(c)
      <4> DEFINE a == Unread(c)
      <4>1. a \in Nat \ {0}
        BY <3>3 DEF Unread, Serving, CmdRead, Inv, TypeOK, ServerState
      <4>2. srv.n = Len(Bv(c)) /\ a <= b + 1 /\ c2s[c] = Requests(Bv(c), a, b)
            /\ (Serving(c) => srv.ext = Bv(c)[srv.k])
        BY <2>1, <3>3 DEF RequestInv, b
      <4>3. c2s'[c] = Requests(Bv(c), a, b + 1) /\ a <= b + 1 + 1
        <5> HIDE DEF a
        <5>1. a <= b + 1 /\ b <= Len(Bv(c))
          BY <1>2, <3>1, <4>2
        <5>2. Append(Requests(Bv(c), a, b), ReqOf(Bv(c)[b + 1])) = Requests(Bv(c), a, b + 1)
          BY <1>2, <3>1, <4>1, <5>1, RequestsUnderWay
        <5>3. a <= b + 1 + 1
          BY <3>1, <4>1, <5>1
        <5> QED BY <3>2, <4>2, <5>2, <5>3
      <4> QED BY <1>4, <1>6, <2>1, <3>1, <3>3, <4>2, <4>3 DEF RequestInv
    <3>4. CASE ~CmdRead(c)
      <4> DEFINE r == Requests(Bv(c), 1, b)
                 x == CmdOf(call[c].job)
                 y == ReqOf(Bv(c)[b + 1])
                 T == CmdItem \union ReqItem
      <4>1. c2s[c] = <<x>> \o r
        BY <2>1, <2>3, <3>4 DEF RequestInv, b
      <4>2. r \in Seq(ReqItem) /\ Append(r, y) = Requests(Bv(c), 1, b + 1)
        BY <1>2, <3>1, RequestsUnderWay, SMTT(30)
      <4>3. x \in T /\ y \in T /\ r \in Seq(T)
        <5>1. y \in ReqItem
          BY <1>2, <3>1 DEF ReqOf, ReqItem
        <5>2. x \in CmdItem
          BY <1>2, ConstantsAssumption DEF CmdOf, CmdItem, Bv
        <5> HIDE DEF x, y, r
        <5> QED BY <4>2, <5>1, <5>2
      <4>4. c2s'[c] = <<x>> \o Requests(Bv(c), 1, b + 1)
        <5> HIDE DEF x, y, r, T
        <5>1. Append(<<x>> \o r, y) = <<x>> \o Append(r, y)
          BY <4>3, BehindTheCommand
        <5> QED BY <3>2, <4>1, <4>2, <5>1 DEF y
      <4> QED BY <1>6, <2>1, <3>1, <3>4, <4>4 DEF RequestInv, Serving
    <3> QED BY <3>3, <3>4
  <2> QED BY <1>1, <2>2, <2>3
<1>11. ClosedInv(c)'
  BY <1>5 DEF ClosedInv
<1>12. FailInv(c)'
  <2>1. failed[c] \in Nat /\ Asked(c) \in Int
    BY <1>2, <1>7 DEF Inv, TypeOK
  <2>2. Asked(c)' >= Asked(c)
    BY <1>7, <2>1
  <2>3. failed[c] <= Asked(c)' /\ call'[c].pc # "idle"
    BY <1>1, <1>3, <1>7, <2>1, <2>2 DEF BaseInv, FailInv, Active
  <2> QED BY <1>1, <1>4, <1>5, <1>6, <2>3 DEF BaseInv, FailInv
<1> QED BY <1>8, <1>9, <1>10, <1>11, <1>12 DEF BaseInv

\* What the steps that receive something have in common.
LEMMA ReceivingSteps ==
  ASSUME Inv, NEW c \in Calls,
         \/ RecvEnd(c) \/ RecvNext(c) \/ RecvData(c)
         \/ (RecvGarbage(c) /\ call'[c].pc # "raised")
  PROVE  /\ call[c].pc \in {"hdr", "data"}
         /\ s2c[c] # <<>> /\ s2c'[c] = Tail(s2c[c])
         /\ UNCHANGED <<link, c2s, backlog, srv, restarts, failed>>
         /\ call'[c].job = call[c].job
         /\ \/ /\ call'[c].pc \in {"hdr", "data"} /\ call'[c].k = call[c].k
               /\ call'[c].boff = call[c].boff
            \/ call[c].pc = "hdr" /\ Advance(c)
<1>1. call[c].pc \in {"hdr", "data"} /\ call[c].pc # "idle"
  BY DEF RecvEnd, RecvNext, RecvData, RecvGarbage
<1>2. call[c] \in CallState
  BY <1>1, CallFields
<1>3. CASE RecvEnd(c)
  BY <1>1, <1>3, AdvanceEffect DEF RecvEnd, Inv, TypeOK
<1>4. CASE RecvNext(c)
  <2>1. CASE call[c].count <= 0
    BY <1>1, <1>4, <2>1, AdvanceEffect DEF RecvNext, Inv, TypeOK
  <2>2. CASE ~(call[c].count <= 0)
    BY <1>1, <1>2, <1>4, <2>2 DEF RecvNext, Inv, TypeOK, CallState
  <2> QED BY <2>1, <2>2
<1>5. CASE RecvData(c)
  BY <1>1, <1>2, <1>5 DEF RecvData, Inv, TypeOK, CallState
<1>6. CASE RecvGarbage(c) /\ call'[c].pc # "raised"
  <2>1. CASE Advance(c) /\ UNCHANGED link /\ s2c' = [s2c EXCEPT ![c] = Tail(@)]
    BY <1>1, <1>6, <2>1, AdvanceEffect DEF RecvGarbage, Inv, TypeOK
  <2>2. CASE UNCHANGED <<call, link>> /\ s2c' = [s2c EXCEPT ![c] = Tail(@)]
    BY <1>1, <1>2, <1>6, <2>2 DEF RecvGarbage, Inv, TypeOK
  <2>3. CASE call' = [call EXCEPT ![c].pc = "raised"]
    BY <1>1, <1>2, <1>6, <2>3 DEF Inv, TypeOK
  <2> QED BY <1>6, <2>1, <2>2, <2>3 DEF RecvGarbage
<1> QED BY <1>3, <1>4, <1>5, <1>6

LEMMA ReceivingBase ==
  ASSUME Inv, Base, NEW c \in Calls,
         \/ RecvEnd(c) \/ RecvNext(c) \/ RecvData(c)
         \/ (RecvGarbage(c) /\ call'[c].pc # "raised")
  PROVE  BaseInv(c)'
<1>1. /\ call[c].pc \in {"hdr", "data"} /\ BaseInv(c) /\ call[c].pc # "idle"
      /\ link'[c] = link[c] /\ c2s'[c] = c2s[c] /\ srv' = srv /\ failed'[c] = failed[c]
      /\ call'[c].job = call[c].job
  BY ReceivingSteps DEF Base
<1>2. /\ call[c].k \in Nat \ {0} /\ Bv(c) \in Seq(Extent) /\ Len(Bv(c)) \in Nat
      /\ call[c].k \in 1..Len(Bv(c)) /\ call[c].boff \in Nat
  BY <1>1, CallFields DEF Inv, CallInv, AtExtent, Bv
<1>3. \/ /\ call'[c].pc \in {"hdr", "data"} /\ call'[c].k = call[c].k
         /\ call'[c].boff = call[c].boff
      \/ /\ call'[c].pc = "req" /\ call'[c].k = call[c].k + 1
         /\ call'[c].boff = call[c].boff + Bv(c)[call[c].k].cnt
  <2>1. CASE call[c].pc = "hdr" /\ Advance(c)
    BY <1>1, <2>1, AdvanceEffect DEF Current, Bv
  <2> QED BY <2>1, ReceivingSteps
<1>4. /\ Bv(c)' = Bv(c) /\ (CmdRead(c)' <=> CmdRead(c)) /\ (Serving(c)' <=> Serving(c))
      /\ Unread(c)' = Unread(c) /\ Asked(c)' = Asked(c)
  BY <1>1, <1>2, <1>3 DEF Bv, CmdRead, Serving, Unread, Asked
<1>5. call'[c].pc \in Active /\ call[c].pc \in Active /\ call'[c].pc \notin {"idle", "cmd", "done"}
  BY <1>1, <1>3 DEF Active
<1>6. LinkInv(c)'
  BY <1>1, <1>4, <1>5 DEF BaseInv, LinkInv, Active, Ended
<1>7. PlaceInv(c)'
  <2>1. call'[c].boff = Starts(Bv(c))[call'[c].k - 1] /\ call'[c].k <= Len(Bv(c)) + 1
    <3>1. /\ call[c].boff = Starts(Bv(c))[call[c].k - 1]
          /\ Starts(Bv(c))[call[c].k] = Starts(Bv(c))[call[c].k - 1] + Bv(c)[call[c].k].cnt
      BY <1>1, <1>2, StartsAre DEF BaseInv, PlaceInv, Started
    <3> QED BY <1>2, <1>3, <3>1
  <2> QED BY <1>4, <1>5, <2>1 DEF PlaceInv
<1>8. RequestInv(c)'
  BY <1>1, <1>4, <1>5 DEF BaseInv, RequestInv
<1>9. ClosedInv(c)' /\ FailInv(c)'
  BY <1>1, <1>4, <1>5 DEF BaseInv, ClosedInv, FailInv, LinkInv, Ended, Active
<1> QED BY <1>6, <1>7, <1>8, <1>9 DEF BaseInv

\* What the end of a handler does to the connection it served.
LEMMA HandlerEndsEffect ==
  ASSUME Inv, RecvAborted \/ AllServed \/ ReportUnbound \/ SendRaises
  PROVE  /\ srv.c \in Calls /\ srv.pc \in {"cmd", "req", "except", "last", "verbose"}
         /\ srv.pc = "cmd" => link[srv.c] = "crst"
         /\ srv' = IdleServer /\ c2s'[srv.c] = <<>>
         /\ link'[srv.c] = IF link[srv.c] # "open" THEN "down"
                           ELSE IF c2s[srv.c] = <<>> THEN "sfin" ELSE "srst"
         /\ UNCHANGED <<call, s2c, backlog, restarts, failed, buf>>
<1>1. srv.c \in Calls /\ srv.pc \in {"cmd", "req", "except", "last", "verbose"} /\ HandlerEnds
  BY DEF RecvAborted, AllServed, ReportUnbound, SendRaises, SrvAt, Inv, TypeOK, ServerState
<1>2. srv.pc = "cmd" => link[srv.c] = "crst"
  BY DEF RecvAborted, AllServed, ReportUnbound, SendRaises, SrvAt, Client
<1>3. UNCHANGED <<call, s2c, backlog, restarts, failed, buf>>
  BY DEF RecvAborted, AllServed, ReportUnbound, SendRaises
<1> QED BY <1>1, <1>2, <1>3 DEF HandlerEnds, Client, Inv, TypeOK

LEMMA HandlerEndsBase ==
  ASSUME Inv, Base, RecvAborted \/ AllServed \/ ReportUnbound \/ SendRaises,
         NEW c \in Calls, srv.c = c
  PROVE  BaseInv(c)'
<1>1. BaseInv(c)
  BY DEF Base
<1>2. /\ srv.pc \in {"cmd", "req", "except", "last", "verbose"}
      /\ srv.pc = "cmd" => link[c] = "crst"
      /\ srv' = IdleServer /\ c2s'[c] = <<>>
      /\ link'[c] = IF link[c] # "open" THEN "down"
                    ELSE IF c2s[c] = <<>> THEN "sfin" ELSE "srst"
      /\ call' = call /\ failed' = failed
  BY HandlerEndsEffect
<1>3. link[c] \in {"open", "cfin", "crst"}
  BY <1>1, <1>2 DEF BaseInv, LinkInv, CmdRead
<1>4. ~CmdRead(c)' /\ srv'.pc # "except" /\ Bv(c)' = Bv(c) /\ Asked(c)' = Asked(c)
  BY <1>2, ConstantsAssumption DEF CmdRead, IdleServer, Bv, Asked
<1>5. LinkInv(c)'
  BY <1>1, <1>2, <1>3, <1>4 DEF BaseInv, LinkInv, Active, Ended
<1>6. PlaceInv(c)' /\ RequestInv(c)' /\ ClosedInv(c)' /\ FailInv(c)'
  BY <1>1, <1>2, <1>4 DEF BaseInv, PlaceInv, RequestInv, ClosedInv, FailInv, Started
<1> QED BY <1>5, <1>6 DEF BaseInv

LEMMA AcceptBase ==
  ASSUME Inv, Base, Accept, NEW c \in Calls, srv'.c = c
  PROVE  BaseInv(c)'
<1>1. BaseInv(c)
  BY DEF Base
<1>2. /\ srv.pc = "accept" /\ srv'.pc = "cmd"
      /\ call' = call /\ link' = link /\ c2s' = c2s /\ failed' = failed
  BY DEF Accept, SrvAt
<1>3. srv.c # c
  BY <1>2, ConstantsAssumption DEF Inv, TypeOK, ServerState
<1>4. /\ ~CmdRead(c)' /\ ~CmdRead(c) /\ ~Serving(c)' /\ ~Serving(c)
      /\ Bv(c)' = Bv(c) /\ Asked(c)' = Asked(c)
  BY <1>2 DEF CmdRead, Serving, Bv, Asked
<1>5. LinkInv(c)' /\ PlaceInv(c)' /\ RequestInv(c)' /\ ClosedInv(c)' /\ FailInv(c)'
  BY <1>1, <1>2, <1>3, <1>4 DEF BaseInv, LinkInv, PlaceInv, RequestInv, ClosedInv, FailInv, Started
<1> QED BY <1>5 DEF BaseInv

\* What arrives is a request, or the command.
LEMMA ReadsEffect ==
  ASSUME Inv, ReadCmd \/ ReadReq, NEW c \in Calls, srv.c = c
  PROVE  /\ c2s[c] # <<>> /\ c2s'[c] = Tail(c2s[c])
         /\ UNCHANGED <<call, link, s2c, backlog, restarts, failed, buf>>
         /\ ReadCmd => srv.pc = "cmd" /\ Head(c2s[c]).t = "cmd"
         /\ ReadReq => srv.pc = "req" /\ srv.k <= srv.n /\ Head(c2s[c]).t = "req"
  BY DEF Inv, TypeOK, ReadCmd, ReadReq, SrvAt, Arrived, Consume, Client

LEMMA ReadCmdBase ==
  ASSUME Inv, Base, ReadCmd, NEW c \in Calls, srv.c = c
  PROVE  BaseInv(c)'
<1>1. BaseInv(c)
  BY DEF Base
<1>2. /\ c2s[c] # <<>> /\ c2s'[c] = Tail(c2s[c]) /\ srv.pc = "cmd"
      /\ UNCHANGED <<call, link, failed>>
  BY ReadsEffect
<1>3. srv' = [pc |-> "req", c |-> c, k |-> 1,
              n |-> IF Head(c2s[c]).op = "r" THEN 1 ELSE Head(c2s[c]).n]
  BY DEF ReadCmd, Client
<1>4. /\ ~CmdRead(c) /\ CmdRead(c)' /\ ~Serving(c)' /\ Unread(c)' = 1
      /\ Bv(c)' = Bv(c) /\ Asked(c)' = Asked(c)
  BY <1>2, <1>3 DEF CmdRead, Serving, Unread, Bv, Asked
<1>5. link[c] \in {"open", "cfin", "crst"}
  BY <1>1, <1>2 DEF BaseInv, LinkInv
<1>6. LinkInv(c)' /\ PlaceInv(c)'
  BY <1>1, <1>2, <1>4, <1>5 DEF BaseInv, LinkInv, PlaceInv, Started
<1>7. RequestInv(c)'
  <2> SUFFICES ASSUME link[c] \in {"open", "cfin"}, call[c].pc \in Active \union {"done"}
               PROVE  RequestInv(c)'
    BY <1>2 DEF RequestInv
  <2> DEFINE b == Asked(c)
             j == call[c].job
             r == Requests(Bv(c), 1, b)
  <2>1. call[c].pc # "cmd" /\ c2s[c] = <<CmdOf(j)>> \o r
    BY <1>1, <1>2, <1>4 DEF BaseInv, RequestInv
  <2>2. /\ call[c].pc # "idle" /\ call[c].k \in Nat \ {0} /\ Bv(c) \in Seq(Extent)
        /\ Len(Bv(c)) \in Nat /\ j \in Jobs
    BY CallFields DEF Active
  <2>3. b \in Nat /\ b <= Len(Bv(c))
    BY <1>1, <2>2 DEF BaseInv, PlaceInv, Started, Asked, Inv, CallInv, AtExtent, Bv
  <2>4. r \in Seq(ReqItem)
    <3> HIDE DEF b
    <3>1. 1 \in Nat \ {0} /\ 1 <= b + 1
      BY <2>3
    <3> QED BY <2>2, <2>3, <3>1, RequestsUnderWay, Zenon
  <2>5. Head(c2s[c]) = CmdOf(j) /\ Tail(c2s[c]) = r
    <3> DEFINE x == CmdOf(j)
               T == {CmdOf(j)} \union ReqItem
    <3>1. x \in T /\ r \in Seq(T)
      BY <2>4
    <3> HIDE DEF x, r, T
    <3> QED BY <2>1, <3>1, BehindTheCommand DEF x
  <2>6. srv'.n = Len(Bv(c))
    <3>1. j.op = "r" => Len(j.blockv) = 1
      BY <2>2, ConstantsAssumption
    <3>2. srv'.n = IF Head(c2s[c]).op = "r" THEN 1 ELSE Head(c2s[c]).n
      BY <1>3
    <3>3. CmdOf(j).op = j.op /\ CmdOf(j).n = Len(j.blockv) /\ Bv(c) = j.blockv
      BY DEF CmdOf, Bv
    <3> HIDE DEF j
    <3> QED BY <2>5, <3>1, <3>2, <3>3
  <2> QED BY <1>2, <1>4, <2>1, <2>3, <2>5, <2>6 DEF RequestInv
<1>8. ClosedInv(c)'
  BY <1>1, <1>2, <1>4 DEF BaseInv, ClosedInv
<1>9. FailInv(c)'
  <2>1. failed[c] = 0 \/ link[c] # "open"
    BY <1>1, <1>4 DEF BaseInv, FailInv
  <2>2. srv'.pc = "req"
    BY <1>3
  <2> QED BY <1>1, <1>2, <1>4, <2>1, <2>2 DEF BaseInv, FailInv
<1> QED BY <1>6, <1>7, <1>8, <1>9 DEF BaseInv

LEMMA ReadReqBase ==
  ASSUME Inv, Base, ReadReq, NEW c \in Calls, srv.c = c
  PROVE  BaseInv(c)'
<1>1. BaseInv(c)
  BY DEF Base
<1>2. /\ c2s[c] # <<>> /\ c2s'[c] = Tail(c2s[c]) /\ srv.pc = "req"
      /\ UNCHANGED <<call, link, failed>>
  BY ReadsEffect
<1>3. srv' = [pc |-> "open", c |-> c, k |-> srv.k, n |-> srv.n,
              ext |-> Head(c2s[c]).ext, off |-> Head(c2s[c]).ext.off,
              i |-> 0, bound |-> FALSE]
  BY DEF ReadReq, Client
<1>4. srv.k \in Nat \ {0}
  BY <1>2 DEF Inv, TypeOK, ServerState
<1>5. /\ CmdRead(c) /\ CmdRead(c)' /\ ~Serving(c) /\ Serving(c)'
      /\ Unread(c) = srv.k /\ Unread(c)' = srv.k + 1
      /\ Bv(c)' = Bv(c) /\ Asked(c)' = Asked(c)
  BY <1>2, <1>3 DEF CmdRead, Serving, Unread, Bv, Asked
<1>6. LinkInv(c)' /\ PlaceInv(c)'
  BY <1>1, <1>2, <1>5 DEF BaseInv, LinkInv, PlaceInv, Started
<1>7. RequestInv(c)'
  <2> SUFFICES ASSUME link[c] \in {"open", "cfin"}, call[c].pc \in Active \union {"done"}
               PROVE  RequestInv(c)'
    BY <1>2 DEF RequestInv
  <2> DEFINE b == Asked(c)
             k == srv.k
             bv == Bv(c)
  <2>1. /\ call[c].pc # "cmd" /\ srv.n = Len(bv) /\ k <= b + 1 /\ c2s[c] = Requests(bv, k, b)
    BY <1>1, <1>5 DEF BaseInv, RequestInv
  <2>2. /\ call[c].pc # "idle" /\ call[c].k \in Nat \ {0} /\ bv \in Seq(Extent)
        /\ Len(bv) \in Nat
    BY CallFields DEF Active
  <2>3. b \in Nat /\ b <= Len(bv)
    BY <1>1, <2>2 DEF BaseInv, PlaceInv, Started, Asked, Inv, CallInv, AtExtent, Bv
  <2>4. k <= b /\ Head(c2s[c]) = ReqOf(bv[k]) /\ Tail(c2s[c]) = Requests(bv, k + 1, b)
    <3> HIDE DEF b, k, bv
    <3>1. k \in Nat \ {0}
      BY <1>4 DEF k
    <3>2. k # b + 1
      BY <1>2, <2>1, <2>2, <2>3, <3>1, RequestsUnderWay
    <3>3. k <= b
      BY <2>1, <2>3, <3>1, <3>2
    <3> QED BY <2>1, <2>2, <2>3, <3>1, <3>3, RequestsUnderWay
  <2>5. srv'.ext = bv[k] /\ srv'.k = k /\ srv'.n = Len(bv)
    BY <1>3, <2>1, <2>4 DEF ReqOf
  <2>6. k + 1 <= b + 1
    BY <1>4, <2>3, <2>4
  <2> QED BY <1>2, <1>5, <2>1, <2>4, <2>5, <2>6 DEF RequestInv
<1>8. ClosedInv(c)'
  BY <1>1, <1>2, <1>5 DEF BaseInv, ClosedInv
<1>9. FailInv(c)'
  <2>1. srv'.pc = "open" /\ srv'.k = srv.k
    BY <1>3
  <2> QED BY <1>1, <1>2, <1>5, <2>1 DEF BaseInv, FailInv
<1> QED BY <1>6, <1>7, <1>8, <1>9 DEF BaseInv

ServingStep ==
  \/ OpenFile \/ OpenFails \/ SendChunkHeader \/ SendChunkData \/ ReadFails
  \/ ChunksDone \/ SendError \/ SendLast \/ SendRaisesInTry

\* What the steps have in common by which the server serves a request.
LEMMA ServingSteps ==
  ASSUME Inv, ServingStep
  PROVE  /\ srv.c \in Calls /\ srv.pc \in {"open", "chunk", "data", "except", "last"}
         /\ srv'.c = srv.c /\ srv'.k = srv.k /\ srv'.n = srv.n /\ srv'.ext = srv.ext
         /\ srv'.pc \in {"chunk", "data", "except", "last", "verbose"}
         /\ UNCHANGED <<call, c2s, backlog, restarts, buf>>
         /\ srv'.pc = "except" =>
              /\ srv.pc \in {"open", "chunk", "data"} /\ link' = link /\ s2c' = s2c
              /\ failed'[srv.c] = IF failed[srv.c] = 0 THEN srv.k ELSE failed[srv.c]
         /\ srv'.pc # "except" => failed' = failed
         /\ link'[srv.c] = link[srv.c] \/ (link[srv.c] = "cfin" /\ link'[srv.c] = "crst")
         /\ srv.pc = "data" => link'[srv.c] # "cfin"
         /\ srv'.pc \in {"chunk", "data"} => srv.pc \in {"open", "chunk", "data"}
<1>1. srv.pc \in {"open", "chunk", "data", "except", "last"}
  BY DEF ServingStep, OpenFile, OpenFails, SendChunkHeader, SendChunkData, ReadFails,
     ChunksDone, SendError, SendLast, SendRaisesInTry, SrvAt
<1>2. /\ srv.c \in Calls
      /\ srv \in [pc : {"open", "chunk", "data", "except", "last", "verbose"},
            c : Calls, k : Nat \ {0}, n : Nat, ext : Extent, off : Nat,
            i : Nat, bound : BOOLEAN]
  BY <1>1, ServerLocals DEF Inv
<1>3. CASE OpenFile \/ ChunksDone
  BY <1>2, <1>3 DEF OpenFile, ChunksDone, SrvAt
<1>4. CASE OpenFails \/ ReadFails \/ SendRaisesInTry
  <2>1. ToExcept /\ srv.pc \in {"open", "chunk", "data"}
    BY <1>4 DEF OpenFails, ReadFails, SendRaisesInTry, SrvAt
  <2>2. srv.pc = "data" => link[srv.c] # "cfin"
    BY <1>4 DEF OpenFails, ReadFails, SendRaisesInTry, SrvAt, Client
  <2>3. /\ srv'.c = srv.c /\ srv'.k = srv.k /\ srv'.n = srv.n /\ srv'.ext = srv.ext
        /\ srv'.pc = "except"
    BY <1>2, <2>1 DEF ToExcept
  <2>4. /\ UNCHANGED <<call, link, c2s, s2c, backlog, restarts, buf>>
        /\ failed'[srv.c] = IF failed[srv.c] = 0 THEN srv.k ELSE failed[srv.c]
    BY <1>2, <2>1 DEF ToExcept, Client, Inv, TypeOK
  <2> QED BY <1>2, <2>1, <2>2, <2>3, <2>4
<1>5. CASE SendChunkHeader \/ SendChunkData \/ SendError \/ SendLast
  <2>1. \E items : ServerSend(items)
    BY <1>5, Zenon DEF SendChunkHeader, SendChunkData, SendError, SendLast
  <2>2. /\ link'[srv.c] = link[srv.c] \/ (link[srv.c] = "cfin" /\ link'[srv.c] = "crst")
        /\ link'[srv.c] # "cfin"
    BY <1>2, <2>1 DEF ServerSend, Client, Inv, TypeOK
  <2>3. CASE SendChunkHeader
    BY <1>2, <2>2, <2>3 DEF SendChunkHeader, SrvAt
  <2>4. CASE SendChunkData
    BY <1>2, <2>2, <2>4 DEF SendChunkData, SrvAt
  <2>5. CASE SendError \/ SendLast
    BY <1>2, <2>2, <2>5 DEF SendError, SendLast, SrvAt
  <2> QED BY <1>5, <2>3, <2>4, <2>5
<1> QED BY <1>3, <1>4, <1>5 DEF ServingStep

LEMMA ServingBase ==
  ASSUME Inv, Base, ServingStep, NEW c \in Calls, srv.c = c
  PROVE  BaseInv(c)'
<1>1. BaseInv(c)
  BY DEF Base
<1>2. /\ srv.pc \in {"open", "chunk", "data", "except", "last"}
      /\ srv'.c = c /\ srv'.k = srv.k /\ srv'.n = srv.n /\ srv'.ext = srv.ext
      /\ srv'.pc \in {"chunk", "data", "except", "last", "verbose"}
      /\ call' = call /\ c2s' = c2s
      /\ srv'.pc = "except" =>
           /\ srv.pc \in {"open", "chunk", "data"}
           /\ failed'[c] = IF failed[c] = 0 THEN srv.k ELSE failed[c]
      /\ srv'.pc # "except" => failed' = failed
      /\ link'[c] = link[c] \/ (link[c] = "cfin" /\ link'[c] = "crst")
      /\ srv.pc = "data" => link'[c] # "cfin"
      /\ srv'.pc \in {"chunk", "data"} => srv.pc \in {"open", "chunk", "data"}
  BY ServingSteps
<1>3. srv.k \in Nat \ {0} /\ failed[c] \in Nat
  BY <1>2 DEF Inv, TypeOK, ServerState
<1>4. /\ CmdRead(c) /\ CmdRead(c)' /\ Serving(c) /\ Serving(c)'
      /\ Unread(c) = srv.k + 1 /\ Unread(c)' = srv.k + 1
      /\ Bv(c)' = Bv(c) /\ Asked(c)' = Asked(c)
  BY <1>2 DEF CmdRead, Serving, Unread, Bv, Asked
<1>5. link[c] \in {"open", "cfin", "crst"} /\ (call[c].pc \in Active => link[c] = "open")
  BY <1>1, <1>4 DEF BaseInv, LinkInv, Active, Ended
<1>6. LinkInv(c)' /\ PlaceInv(c)'
  BY <1>1, <1>2, <1>4, <1>5 DEF BaseInv, LinkInv, PlaceInv, Started, Active, Ended
<1>7. RequestInv(c)' /\ ClosedInv(c)'
  BY <1>1, <1>2, <1>4 DEF BaseInv, RequestInv, ClosedInv
<1>8. FailInv(c)'
  <2>1. call[c].pc # "idle"
    BY <1>1, <1>5 DEF BaseInv, LinkInv
  <2>2. call[c].pc \in Active => Asked(c) \in Int /\ srv.k <= Asked(c)
    <3>1. call[c].pc \in Active => srv.k + 1 <= Asked(c) + 1 /\ Asked(c) \in Int
      BY <1>1, <1>4, <1>5, <2>1, CallFields DEF BaseInv, RequestInv, Asked
    <3> QED BY <1>3, <3>1
  <2>3. CASE srv'.pc = "except"
    BY <1>1, <1>2, <1>3, <1>4, <2>1, <2>2, <2>3 DEF BaseInv, FailInv
  <2>4. CASE srv'.pc # "except"
    BY <1>1, <1>2, <1>3, <1>4, <2>1, <2>4 DEF BaseInv, FailInv
  <2> QED BY <2>3, <2>4
<1> QED BY <1>6, <1>7, <1>8 DEF BaseInv

LEMMA ReportBase ==
  ASSUME Inv, Base, Report, NEW c \in Calls, srv.c = c
  PROVE  BaseInv(c)'
<1>1. BaseInv(c)
  BY DEF Base
<1>2. /\ srv.pc = "verbose" /\ srv' = [pc |-> "req", c |-> c, k |-> srv.k + 1, n |-> srv.n]
      /\ UNCHANGED <<call, link, c2s, failed>>
  BY DEF Report, SrvAt, Client
<1>3. srv.k \in Nat \ {0} /\ failed[c] \in Nat
  BY <1>2 DEF Inv, TypeOK, ServerState
<1>4. /\ CmdRead(c) /\ CmdRead(c)' /\ Serving(c) /\ ~Serving(c)'
      /\ Unread(c) = srv.k + 1 /\ Unread(c)' = srv.k + 1
      /\ Bv(c)' = Bv(c) /\ Asked(c)' = Asked(c) /\ srv'.pc = "req" /\ srv'.k = srv.k + 1
  BY <1>2 DEF CmdRead, Serving, Unread, Bv, Asked
<1>5. LinkInv(c)' /\ PlaceInv(c)' /\ RequestInv(c)' /\ ClosedInv(c)'
  BY <1>1, <1>2, <1>4 DEF BaseInv, LinkInv, PlaceInv, RequestInv, ClosedInv, Started
<1>6. FailInv(c)'
  BY <1>1, <1>2, <1>3, <1>4 DEF BaseInv, FailInv
<1> QED BY <1>5, <1>6 DEF BaseInv

\* The kernel closes every connection of a server that is killed.
LEMMA RestartBase ==
  ASSUME Inv, Base, RestartServer, NEW c \in Calls
  PROVE  BaseInv(c)'
<1>1. BaseInv(c)
  BY DEF Base
<1>2. /\ call' = call /\ failed' = failed /\ c2s'[c] = <<>> /\ srv' = IdleServer
      /\ link[c] = "open" => link'[c] \in {"sfin", "srst"}
      /\ link[c] \in {"cfin", "crst"} => link'[c] = "down"
      /\ link[c] \notin {"open", "cfin", "crst"} => link'[c] = link[c]
      /\ link[c] \in {"none", "open", "cfin", "crst", "sfin", "srst", "down"}
  BY DEF RestartServer, Inv, TypeOK
<1>3. ~CmdRead(c)' /\ srv'.pc # "except" /\ Bv(c)' = Bv(c) /\ Asked(c)' = Asked(c)
      /\ ~Serving(c)'
  BY <1>2 DEF CmdRead, Serving, IdleServer, Bv, Asked
<1>4. LinkInv(c)'
  BY <1>1, <1>2, <1>3 DEF BaseInv, LinkInv
<1>5. PlaceInv(c)' /\ RequestInv(c)' /\ ClosedInv(c)' /\ FailInv(c)'
  BY <1>1, <1>2, <1>3 DEF BaseInv, PlaceInv, RequestInv, ClosedInv, FailInv, Started
<1> QED BY <1>4, <1>5 DEF BaseInv

LEMMA ServerClient ==
  ASSUME Inv, ServerStep
  PROVE  /\ ~Accept => srv.c \in Calls
         /\ srv'.c \in Calls => Accept \/ srv'.c = srv.c
<1>1. CASE Accept
  BY <1>1
<1>2. CASE ReadCmd \/ ReadReq \/ Report
  BY <1>2 DEF ReadCmd, ReadReq, Report, SrvAt, Client, Inv, TypeOK, ServerState
<1>3. CASE RecvAborted \/ AllServed \/ ReportUnbound \/ SendRaises
  BY <1>3, HandlerEndsEffect, ConstantsAssumption DEF IdleServer
<1>4. CASE ServingStep
  BY <1>4, ServingSteps
<1> QED BY <1>1, <1>2, <1>3, <1>4 DEF ServerStep, ServingStep

LEMMA BaseStep == Inv /\ Base /\ [Next]_vars => Base'
<1> SUFFICES ASSUME Inv, Base, [Next]_vars, NEW d \in Calls PROVE BaseInv(d)'
  BY DEF Base
<1>1. BaseInv(d)
  BY DEF Base
<1>2. ASSUME NEW c \in Calls, (\E j \in Jobs : Connect(c, j)) \/ ClientStep(c) \/ Die(c)
      PROVE  BaseInv(d)'
  <2>1. CASE d # c
    BY <1>1, <1>2, <2>1, ClientElsewhere, BaseFrame
  <2>2. CASE d = c
    <3>1. CASE \E j \in Jobs : Connect(c, j)
      BY <2>2, <3>1, ConnectBase
    <3>2. CASE SendCmd(c) \/ SendReq(c)
      BY <2>2, <3>2, SendBase
    <3>3. CASE RecvEnd(c) \/ RecvNext(c) \/ RecvGarbage(c) \/ RecvData(c)
      BY <2>2, <3>3, ReceivingBase, ClosingBase
    <3>4. CASE TooManyBlocks(c) \/ BufferTooSmall(c) \/ PeerReset(c) \/ Return(c) \/ Die(c)
      BY <2>2, <3>4, ClosingBase
    <3> QED BY <1>2, <3>1, <3>2, <3>3, <3>4 DEF ClientStep
  <2> QED BY <2>1, <2>2
<1>3. CASE ServerStep
  <2>1. CASE srv.c # d /\ srv'.c # d
    BY <1>1, <1>3, <2>1, ServerElsewhere, BaseFrame
  <2>2. CASE srv.c = d \/ srv'.c = d
    <3>1. CASE Accept
      <4>1. srv.c # d
        BY <3>1, ConstantsAssumption DEF Accept, SrvAt, Inv, TypeOK, ServerState
      <4> QED BY <2>2, <3>1, <4>1, AcceptBase
    <3>2. srv.c = d \/ Accept
      BY <1>3, <2>2, ServerClient
    <3>3. CASE srv.c = d
      BY <1>3, <3>1, <3>3, ReadCmdBase, ReadReqBase, HandlerEndsBase, ServingBase, ReportBase
         DEF ServerStep, ServingStep
    <3> QED BY <3>1, <3>2, <3>3
  <2> QED BY <2>1, <2>2
<1>4. CASE RestartServer
  BY <1>4, RestartBase
<1>5. CASE UNCHANGED vars
  <2>1. Elsewhere(d)
    BY <1>5 DEF vars, Elsewhere
  <2> QED BY <1>1, <2>1, BaseFrame
<1> QED BY <1>2, <1>3, <1>4, <1>5 DEF Next

LEMMA InitBase == Init => Base
<1> SUFFICES ASSUME Init, NEW c \in Calls PROVE BaseInv(c)
  BY DEF Base
<1>1. /\ call[c].pc = "idle" /\ link[c] = "none" /\ c2s[c] = <<>> /\ failed[c] = 0
      /\ srv.c # c
  BY ConstantsAssumption DEF Init, Idle, IdleServer
<1>2. ~CmdRead(c) /\ ~Serving(c)
  BY <1>1 DEF CmdRead, Serving
<1> QED BY <1>1, <1>2 DEF BaseInv, LinkInv, PlaceInv, RequestInv, ClosedInv, FailInv, Started,
       Active, Ended

LEMMA OnlyLostClients == Inv /\ Base => OnlyLostClientsSpinTheServer
<1> SUFFICES ASSUME Inv, Base, ServerSpins,
                    call[Client].pc # "dead", ~(Len(call[Client].job.blockv) > MaxByte)
             PROVE  FALSE
  BY DEF OnlyLostClientsSpinTheServer
<1> DEFINE c == srv.c
<1>1. /\ c \in Calls /\ srv.pc \in {"cmd", "req"} /\ (srv.pc = "req" => srv.k <= srv.n)
      /\ link[c] = "cfin" /\ c2s[c] = <<>>
  BY DEF ServerSpins, SrvAt, Client, Inv, TypeOK, ServerState
<1>2. BaseInv(c) /\ Bv(c) = call[c].job.blockv /\ call[c].pc # "dead" /\ ~(Len(Bv(c)) > MaxByte)
  BY <1>1 DEF Base, Bv, Client
<1> HIDE DEF c
<1>3. call[c].pc = "done"
  BY <1>1, <1>2 DEF BaseInv, ClosedInv
<1>4. /\ call[c].k = Len(Bv(c)) + 1 /\ Asked(c) = call[c].k - 1
      /\ Bv(c) \in Seq(Extent) /\ Len(Bv(c)) \in Nat
  BY <1>1, <1>2, <1>3, CallFields DEF BaseInv, PlaceInv, Started, Asked
<1>5. Asked(c) = Len(Bv(c)) /\ Unread(c) = srv.k
  BY <1>1, <1>4 DEF Unread, Serving, CmdRead
<1>6. CASE CmdRead(c)
  <2> DEFINE k == srv.k
             bv == Bv(c)
             b == Len(Bv(c))
  <2>1. srv.n = b /\ c2s[c] = Requests(bv, k, b) /\ srv.pc = "req" /\ k <= b
    BY <1>1, <1>2, <1>3, <1>5, <1>6 DEF BaseInv, RequestInv, CmdRead
  <2>2. k \in Nat \ {0} /\ b \in Nat /\ b <= Len(bv) /\ bv \in Seq(Extent)
    BY <1>4, <2>1 DEF Inv, TypeOK, ServerState
  <2> HIDE DEF k, b, bv
  <2>3. k = b + 1
    <3>1. k <= b + 1
      BY <2>1, <2>2
    <3>2. Requests(bv, k, b) = <<>>
      BY <1>1, <2>1
    <3>3. Requests(bv, k, b) = <<>> <=> k = b + 1
      BY <2>2, <3>1, RequestsUnderWay, Zenon
    <3> QED BY <3>2, <3>3
  <2> QED BY <2>1, <2>2, <2>3
<1>7. CASE ~CmdRead(c)
  <2> DEFINE r == Requests(Bv(c), 1, Asked(c))
             x == CmdOf(call[c].job)
             T == {x} \union ReqItem
  <2>1. <<x>> \o r = <<>>
    BY <1>1, <1>2, <1>3, <1>7 DEF BaseInv, RequestInv
  <2>2. r \in Seq(T) /\ x \in T
    <3>1. r \in Seq(ReqItem)
      <4> DEFINE b == Asked(c)
      <4>1. b \in Nat /\ b <= Len(Bv(c)) /\ 1 <= b + 1
        BY <1>4, <1>5
      <4> HIDE DEF b
      <4>2. 1 \in Nat \ {0} /\ 1 <= b + 1
        BY <4>1
      <4>3. Requests(Bv(c), 1, b) \in Seq(ReqItem)
        BY <1>4, <4>1, <4>2, RequestsUnderWay, Zenon
      <4> QED BY <4>3 DEF b
    <3> HIDE DEF r, x
    <3> QED BY <3>1
  <2> HIDE DEF r, x, T
  <2> QED BY <2>1, <2>2, BehindTheCommand
<1> QED BY <1>6, <1>7

(***************************************************************************)
(* The answers.                                                            *)
(***************************************************************************)

\* Some item of s is of kind t.
Has(s, t) == \E p \in 1..Len(s) : s[p].t = t

\* Every cell belongs to the packet whose header is before it, or to the one in
\* hand, of which l cells are left; 'l' ends the answer, and 'e' but for 'l'.
Framing(s, l) ==
  /\ \A p \in 1..Len(s) : s[p].t = "d" =>
       p <= l \/ \E h \in 1..p - 1 : s[h].t = "n" /\ p <= h + s[h].len
  /\ \A p \in 1..Len(s) : s[p].t = "l" => p = Len(s)
  /\ \A p \in 1..Len(s) : s[p].t = "e" => \A q \in p + 1..Len(s) : s[q].t = "l"

\* The packets of s follow each other and begin before the end of e, where the
\* client, that counts count cells as missing, still takes them.
Ahead(e, s, count) ==
  \A p \in 1..Len(s) : s[p].t = "n" =>
    /\ s[p].off < e.off + e.cnt /\ e.off + e.cnt <= count + s[p].off
    /\ \A q \in p + 1..Len(s) : s[q].t = "n" => s[p].off + s[p].len <= s[q].off

----------------------------------------------------------------------------
\* Taking an item off an answer, putting items at its end

LEMMA ItemFields ==
  ASSUME NEW s \in Seq(Items)
  PROVE  /\ Len(s) \in Nat
         /\ \A p \in 1..Len(s) : s[p].t = "n" => s[p].off \in Nat /\ s[p].len \in Nat
<1>1. \A p \in 1..Len(s) : s[p] \in Items
  OBVIOUS
<1> QED BY <1>1 DEF Items, HeaderItem, DataItem

\* The place q of a tail is the place q + 1 of the stream.
LEMMA TailPlaces ==
  ASSUME NEW s \in Seq(Items), s # <<>>
  PROVE  /\ Tail(s) \in Seq(Items) /\ Len(Tail(s)) = Len(s) - 1 /\ Len(s) \in Nat \ {0}
         /\ \A q \in 1..Len(Tail(s)) : Tail(s)[q] = s[q + 1] /\ q + 1 \in 1..Len(s)
         /\ Head(s) = s[1] /\ 1 \in 1..Len(s) /\ Head(s) \in Items
  OBVIOUS

LEMMA PopFraming ==
  ASSUME NEW s \in Seq(Items), s # <<>>, NEW l \in Nat, Framing(s, l)
  PROVE  /\ l = 0 => Head(s).t # "d"
         /\ l > 0 /\ Head(s).t = "d" => Framing(Tail(s), l - 1)
         /\ l = 0 /\ Head(s).t = "n" => Framing(Tail(s), Head(s).len)
         /\ Head(s).t = "l" => Tail(s) = <<>>
         /\ Head(s).t = "e" => \A q \in 1..Len(Tail(s)) : Tail(s)[q].t = "l"
<1> DEFINE t == Tail(s)
<1>1. /\ t \in Seq(Items) /\ Len(t) = Len(s) - 1 /\ Len(s) \in Nat \ {0}
      /\ \A q \in 1..Len(t) : t[q] = s[q + 1] /\ q + 1 \in 1..Len(s)
      /\ Head(s) = s[1] /\ 1 \in 1..Len(s)
  BY TailPlaces
<1>2. \A p \in 1..Len(s) : s[p].t = "n" => s[p].len \in Nat
  BY ItemFields
<1> HIDE DEF t
<1>3. \A p \in 1..Len(t) : t[p].t = "l" => p = Len(t)
  BY <1>1 DEF Framing
<1>4. \A p \in 1..Len(t) : t[p].t = "e" => \A q \in p + 1..Len(t) : t[q].t = "l"
  <2> SUFFICES ASSUME NEW p \in 1..Len(t), t[p].t = "e", NEW q \in p + 1..Len(t)
               PROVE  t[q].t = "l"
    OBVIOUS
  <2>1. q \in 1..Len(t) /\ q + 1 \in (p + 1) + 1..Len(s) /\ p + 1 \in 1..Len(s)
    BY <1>1
  <2>2. s[p + 1].t = "e" /\ t[q] = s[q + 1]
    BY <1>1, <2>1
  <2> QED BY <2>1, <2>2 DEF Framing
<1>5. l = 0 => s[1].t # "d"
  BY <1>1 DEF Framing
<1>6. ASSUME NEW m \in Nat, NEW p \in 1..Len(t), t[p].t = "d",
             \/ l > 0 /\ m = l - 1 /\ s[1].t = "d"
             \/ l = 0 /\ s[1].t = "n" /\ m = s[1].len
      PROVE  p <= m \/ \E h \in 1..p - 1 : t[h].t = "n" /\ p <= h + t[h].len
  <2>1. p + 1 \in 1..Len(s) /\ s[p + 1].t = "d" /\ p \in Nat
    BY <1>1, <1>6
  <2>2. CASE p + 1 <= l
    BY <1>6, <2>1, <2>2
  <2>3. CASE \E h \in 1..p : s[h].t = "n" /\ p + 1 <= h + s[h].len
    <3>1. PICK h \in 1..p : s[h].t = "n" /\ p + 1 <= h + s[h].len
      BY <2>3
    <3>2. CASE h = 1
      BY <1>6, <2>1, <3>1, <3>2
    <3>3. CASE h # 1
      <4> DEFINE g == h - 1
      <4>1. g \in 1..Len(t) /\ g + 1 = h /\ g \in 1..p - 1
        BY <1>1, <3>3
      <4>2. t[g] = s[h] /\ s[h].len \in Nat
        BY <1>1, <1>2, <2>1, <3>1, <4>1
      <4>3. p <= g + t[g].len
        BY <2>1, <3>1, <4>1, <4>2
      <4> QED BY <3>1, <4>1, <4>2, <4>3
    <3> QED BY <3>2, <3>3
  <2> QED BY <2>1, <2>2, <2>3 DEF Framing
<1>7. l > 0 /\ s[1].t = "d" => Framing(t, l - 1)
  <2> SUFFICES ASSUME l > 0, s[1].t = "d" PROVE Framing(t, l - 1)
    OBVIOUS
  <2>1. l - 1 \in Nat
    OBVIOUS
  <2> QED BY <1>3, <1>4, <1>6, <2>1 DEF Framing
<1>8. l = 0 /\ s[1].t = "n" => Framing(t, s[1].len)
  <2> SUFFICES ASSUME l = 0, s[1].t = "n" PROVE Framing(t, s[1].len)
    OBVIOUS
  <2>1. s[1].len \in Nat
    BY <1>1, <1>2
  <2> QED BY <1>3, <1>4, <1>6, <2>1 DEF Framing
<1>9. s[1].t = "l" => t = <<>>
  BY <1>1 DEF Framing
<1>10. s[1].t = "e" => \A q \in 1..Len(t) : t[q].t = "l"
  BY <1>1 DEF Framing
<1> QED BY <1>1, <1>5, <1>7, <1>8, <1>9, <1>10 DEF t

LEMMA PopAhead ==
  ASSUME NEW s \in Seq(Items), s # <<>>, NEW e \in Extent, NEW count \in Int,
         Ahead(e, s, count)
  PROVE  /\ Head(s).t = "n" =>
              /\ Head(s).off \in Nat /\ Head(s).len \in Nat
              /\ Head(s).off < e.off + e.cnt /\ e.off + e.cnt <= count + Head(s).off
              /\ Ahead(e, Tail(s), count - Head(s).len)
         /\ Head(s).t # "n" => Ahead(e, Tail(s), count)
<1> DEFINE t == Tail(s)
<1>1. /\ t \in Seq(Items) /\ Len(t) = Len(s) - 1 /\ Len(s) \in Nat \ {0}
      /\ \A q \in 1..Len(t) : t[q] = s[q + 1] /\ q + 1 \in 1..Len(s)
      /\ Head(s) = s[1] /\ 1 \in 1..Len(s)
  BY TailPlaces
<1>2. \A p \in 1..Len(s) : s[p].t = "n" => s[p].off \in Nat /\ s[p].len \in Nat
  BY ItemFields
<1>3. e.off \in Nat /\ e.cnt \in Nat
  BY DEF Extent
<1> HIDE DEF t
<1>4. ASSUME NEW p \in 1..Len(t), t[p].t = "n"
      PROVE  /\ t[p].off < e.off + e.cnt /\ e.off + e.cnt <= count + t[p].off
             /\ \A q \in p + 1..Len(t) : t[q].t = "n" => t[p].off + t[p].len <= t[q].off
             /\ s[1].t = "n" => s[1].off + s[1].len <= t[p].off
             /\ t[p].off \in Nat
  <2>1. p + 1 \in 2..Len(s) /\ s[p + 1] = t[p] /\ p \in Nat
    BY <1>1
  <2>2. \A q \in p + 1..Len(t) : t[q] = s[q + 1] /\ q + 1 \in (p + 1) + 1..Len(s)
    BY <1>1
  <2>3. /\ s[p + 1].off < e.off + e.cnt /\ e.off + e.cnt <= count + s[p + 1].off
        /\ \A q \in (p + 1) + 1..Len(s) : s[q].t = "n" => s[p + 1].off + s[p + 1].len <= s[q].off
    BY <1>4, <2>1 DEF Ahead
  <2>4. ASSUME NEW q \in p + 1..Len(t), t[q].t = "n" PROVE t[p].off + t[p].len <= t[q].off
    BY <2>1, <2>2, <2>3, <2>4
  <2>5. s[1].t = "n" => s[1].off + s[1].len <= s[p + 1].off
    BY <1>1, <1>4, <2>1 DEF Ahead
  <2>6. t[p].off \in Nat
    BY <1>2, <1>4, <2>1
  <2> QED BY <2>1, <2>3, <2>4, <2>5, <2>6
<1>5. s[1].t = "n" => /\ s[1].off \in Nat /\ s[1].len \in Nat
                      /\ s[1].off < e.off + e.cnt /\ e.off + e.cnt <= count + s[1].off
  BY <1>1, <1>2 DEF Ahead
<1>6. s[1].t = "n" => Ahead(e, t, count - s[1].len)
  <2> SUFFICES ASSUME s[1].t = "n", NEW p \in 1..Len(t), t[p].t = "n"
               PROVE  e.off + e.cnt <= count - s[1].len + t[p].off
    BY <1>4 DEF Ahead
  <2> DEFINE x == s[1].off
             y == s[1].len
             z == t[p].off
             w == e.off + e.cnt
  <2>1. x \in Nat /\ y \in Nat /\ z \in Nat /\ w \in Nat /\ x + y <= z /\ w <= count + x
    BY <1>3, <1>4, <1>5, SMTT(30)
  <2> HIDE DEF x, y, z, w
  <2>2. w <= count - y + z
    BY <2>1
  <2> QED BY <2>2 DEF x, y, z, w
<1>7. Ahead(e, t, count)
  BY <1>4 DEF Ahead
<1> QED BY <1>1, <1>5, <1>6, <1>7 DEF t

LEMMA EndPlaces ==
  ASSUME NEW s \in Seq(Items), NEW d \in Seq(Items)
  PROVE  /\ s \o d \in Seq(Items) /\ Len(s \o d) = Len(s) + Len(d)
         /\ Len(s) \in Nat /\ Len(d) \in Nat
         /\ \A q \in 1..Len(s) : (s \o d)[q] = s[q]
         /\ \A q \in 1..Len(d) : (s \o d)[Len(s) + q] = d[q]
         /\ \A q \in Len(s) + 1..Len(s) + Len(d) : (s \o d)[q] = d[q - Len(s)]
  OBVIOUS

LEMMA PushItem ==
  ASSUME NEW s \in Seq(Items), NEW h \in HeaderItem, NEW l \in Nat, Framing(s, l),
         ~Has(s, "l"), h.t # "l" => ~Has(s, "e")
  PROVE  Framing(s \o <<h>>, l)
<1> DEFINE r == s \o <<h>>
<1>1. /\ Len(r) = Len(s) + 1 /\ Len(s) \in Nat /\ \A q \in 1..Len(s) : r[q] = s[q]
      /\ r[Len(s) + 1] = h
  <2>1. <<h>> \in Seq(Items) /\ Len(<<h>>) = 1 /\ <<h>>[1] = h
    BY DEF Items
  <2> HIDE DEF r
  <2>2. /\ r \in Seq(Items) /\ Len(r) = Len(s) + 1 /\ Len(s) \in Nat
        /\ \A q \in 1..Len(s) : r[q] = s[q]
    BY <2>1, EndPlaces DEF r
  <2>3. r[Len(s) + 1] = h
    BY <2>1 DEF r
  <2> QED BY <2>2, <2>3
<1>2. h.t \in {"n", "e", "l"}
  BY DEF HeaderItem
<1> HIDE DEF r
<1>3. \A p \in 1..Len(r) : p \in 1..Len(s) \/ p = Len(s) + 1
  BY <1>1
<1>4. \A p \in 1..Len(r) : r[p].t = "d" =>
        p <= l \/ \E g \in 1..p - 1 : r[g].t = "n" /\ p <= g + r[g].len
  <2> SUFFICES ASSUME NEW p \in 1..Len(s), s[p].t = "d", ~(p <= l)
               PROVE  \E g \in 1..p - 1 : r[g].t = "n" /\ p <= g + r[g].len
    BY <1>1, <1>2, <1>3
  <2>1. PICK g \in 1..p - 1 : s[g].t = "n" /\ p <= g + s[g].len
    BY DEF Framing
  <2>2. r[g] = s[g]
    BY <1>1
  <2> QED BY <2>1, <2>2
<1>5. \A p \in 1..Len(r) : r[p].t = "l" => p = Len(r)
  BY <1>1, <1>3 DEF Has
<1>6. \A p \in 1..Len(r) : r[p].t = "e" => \A q \in p + 1..Len(r) : r[q].t = "l"
  <2> SUFFICES ASSUME NEW p \in 1..Len(r), r[p].t = "e", NEW q \in p + 1..Len(r)
               PROVE  r[q].t = "l"
    OBVIOUS
  <2>1. p \in 1..Len(s) /\ s[p].t = "e"
    BY <1>1, <1>3
  <2>2. h.t = "l"
    BY <1>2, <2>1 DEF Has
  <2>3. CASE q = Len(s) + 1
    BY <1>1, <2>2, <2>3
  <2>4. CASE q \in p + 1..Len(s)
    <3>1. s[q].t = "l" /\ q \in 1..Len(s)
      BY <2>1, <2>4 DEF Framing
    <3> QED BY <1>1, <3>1
  <2>5. q = Len(s) + 1 \/ q \in p + 1..Len(s)
    BY <1>1, <2>1
  <2> QED BY <2>3, <2>4, <2>5
<1> QED BY <1>4, <1>5, <1>6 DEF Framing, r

LEMMA PushAhead ==
  ASSUME NEW s \in Seq(Items), NEW h \in HeaderItem, NEW e \in Extent, NEW count \in Int,
         Ahead(e, s, count),
         h.t = "n" =>
           /\ h.off < e.off + e.cnt /\ e.off + e.cnt <= count + h.off
           /\ \A p \in 1..Len(s) : s[p].t = "n" => s[p].off + s[p].len <= h.off
  PROVE  Ahead(e, s \o <<h>>, count)
<1> DEFINE r == s \o <<h>>
<1>1. /\ Len(r) = Len(s) + 1 /\ Len(s) \in Nat /\ \A q \in 1..Len(s) : r[q] = s[q]
      /\ r[Len(s) + 1] = h
  <2>1. <<h>> \in Seq(Items) /\ Len(<<h>>) = 1 /\ <<h>>[1] = h
    BY DEF Items
  <2> HIDE DEF r
  <2>2. /\ r \in Seq(Items) /\ Len(r) = Len(s) + 1 /\ Len(s) \in Nat
        /\ \A q \in 1..Len(s) : r[q] = s[q]
    BY <2>1, EndPlaces DEF r
  <2>3. r[Len(s) + 1] = h
    BY <2>1 DEF r
  <2> QED BY <2>2, <2>3
<1> HIDE DEF r
<1>2. ASSUME NEW p \in 1..Len(r), r[p].t = "n"
      PROVE  /\ r[p].off < e.off + e.cnt /\ e.off + e.cnt <= count + r[p].off
             /\ \A q \in p + 1..Len(r) : r[q].t = "n" => r[p].off + r[p].len <= r[q].off
  <2>1. CASE p = Len(s) + 1
    BY <1>1, <1>2, <2>1
  <2>2. CASE p \in 1..Len(s)
    <3>1. r[p] = s[p] /\ s[p].t = "n"
      BY <1>1, <1>2, <2>2
    <3>2. ASSUME NEW q \in p + 1..Len(r), r[q].t = "n"
          PROVE  r[p].off + r[p].len <= r[q].off
      <4>1. CASE q = Len(s) + 1
        BY <1>1, <2>2, <3>1, <3>2, <4>1
      <4>2. CASE q \in p + 1..Len(s)
        BY <1>1, <2>2, <3>1, <3>2, <4>2 DEF Ahead
      <4> QED BY <1>1, <2>2, <4>1, <4>2
    <3>3. s[p].off < e.off + e.cnt /\ e.off + e.cnt <= count + s[p].off
      BY <2>2, <3>1 DEF Ahead
    <3> QED BY <3>1, <3>2, <3>3
  <2> QED BY <1>1, <2>1, <2>2
<1> QED BY <1>2 DEF Ahead, r

LEMMA PushData ==
  ASSUME NEW s \in Seq(Items), NEW d \in Seq(Items), \A q \in 1..Len(d) : d[q].t = "d",
         NEW l \in Nat, Framing(s, l), ~Has(s, "e"), ~Has(s, "l"),
         \/ s # <<>> /\ s[Len(s)].t = "n" /\ s[Len(s)].len = Len(d)
         \/ s = <<>> /\ l = Len(d)
  PROVE  /\ Framing(s \o d, l) /\ ~Has(s \o d, "e") /\ ~Has(s \o d, "l")
         /\ \A e, count : Ahead(e, s, count) => Ahead(e, s \o d, count)
<1> DEFINE r == s \o d
<1>1. /\ r \in Seq(Items) /\ Len(r) = Len(s) + Len(d) /\ Len(s) \in Nat /\ Len(d) \in Nat
      /\ \A q \in 1..Len(s) : r[q] = s[q]
      /\ \A q \in Len(s) + 1..Len(r) : r[q].t = "d"
  <2>1. /\ r \in Seq(Items) /\ Len(r) = Len(s) + Len(d) /\ Len(s) \in Nat /\ Len(d) \in Nat
        /\ \A q \in 1..Len(s) : r[q] = s[q]
        /\ \A q \in Len(s) + 1..Len(s) + Len(d) : r[q] = d[q - Len(s)]
    BY EndPlaces
  <2>2. \A q \in Len(s) + 1..Len(s) + Len(d) : q - Len(s) \in 1..Len(d)
    BY <2>1
  <2> HIDE DEF r
  <2> QED BY <2>1, <2>2
<1> HIDE DEF r
<1>2. \A p \in 1..Len(r) : p \in 1..Len(s) \/ p \in Len(s) + 1..Len(r)
  BY <1>1
<1>3. ~Has(r, "e") /\ ~Has(r, "l")
  BY <1>1, <1>2 DEF Has
<1>4. \A p \in 1..Len(r) : r[p].t = "d" =>
        p <= l \/ \E h \in 1..p - 1 : r[h].t = "n" /\ p <= h + r[h].len
  <2> SUFFICES ASSUME NEW p \in 1..Len(r), r[p].t = "d", ~(p <= l)
               PROVE  \E h \in 1..p - 1 : r[h].t = "n" /\ p <= h + r[h].len
    OBVIOUS
  <2>1. CASE p \in 1..Len(s)
    <3>1. PICK h \in 1..p - 1 : s[h].t = "n" /\ p <= h + s[h].len
      BY <1>1, <2>1 DEF Framing
    <3>2. r[h] = s[h]
      BY <1>1, <2>1, SMTT(30)
    <3> QED BY <3>1, <3>2
  <2>2. CASE p \in Len(s) + 1..Len(r)
    <3>1. s # <<>> /\ s[Len(s)].t = "n" /\ s[Len(s)].len = Len(d)
      BY <1>1, <2>2
    <3>2. Len(s) \in 1..p - 1 /\ r[Len(s)] = s[Len(s)]
      BY <1>1, <2>2, <3>1
    <3>3. p <= Len(s) + Len(d)
      BY <1>1, <2>2
    <3> QED BY <3>1, <3>2, <3>3
  <2> QED BY <1>2, <2>1, <2>2
<1>5. Framing(r, l)
  BY <1>3, <1>4 DEF Framing, Has
<1>6. ASSUME NEW e, NEW count, Ahead(e, s, count) PROVE Ahead(e, r, count)
  <2>1. \A p \in 1..Len(r) : r[p].t = "n" => p \in 1..Len(s) /\ s[p].t = "n" /\ r[p] = s[p]
    BY <1>1, <1>2
  <2>2. \A p \in 1..Len(s) : \A q \in p + 1..Len(r) : r[q].t = "n" =>
          q \in p + 1..Len(s) /\ s[q].t = "n" /\ r[q] = s[q]
    BY <1>1, <1>2
  <2> QED BY <1>6, <2>1, <2>2 DEF Ahead
<1> QED BY <1>3, <1>5, <1>6 DEF r

LEMMA NothingSent ==
  ASSUME NEW e, NEW count, NEW l
  PROVE  Framing(<<>>, l) /\ Ahead(e, <<>>, count) /\ \A t : ~Has(<<>>, t)
  BY DEF Framing, Ahead, Has

----------------------------------------------------------------------------
\* Client and server on the same answer

\* The chunks of an extent: offset has moved on with i, and no chunk but the
\* first begins before Chunk cells of it.
OffsetInv ==
  srv.pc \in {"open", "chunk", "data", "except", "last", "verbose"} =>
    /\ srv.off = srv.ext.off + srv.i
    /\ srv.pc = "open" => srv.i = 0
    /\ srv.pc \in {"chunk", "data"} => srv.i = 0 \/ srv.i >= LesserOf(srv.ext.cnt, Chunk)

Left(c) == IF call[c].pc = "data" THEN call[c].l ELSE 0

\* The server is where a call that asks for its extent k finds it.
Waits(c, k) ==
  IF k = 1
    THEN CmdRead(c) => srv.pc = "req" /\ srv.k = 1
    ELSE /\ srv.c = c
         /\ \/ srv.pc = "verbose" /\ srv.k + 1 = k
            \/ srv.pc = "req" /\ srv.k = k

\* The address up to which the headers sent so far announce data.
Frontier == srv.off + (IF srv.pc = "data" THEN Len(ChunkData) ELSE 0)

\* The header of the data that the server is about to send is the last in the
\* stream, or in the client's hands.
Pending(s, l, o) ==
  \/ s # <<>> /\ s[Len(s)] = Header("n", srv.off, Len(ChunkData))
  \/ s = <<>> /\ l = Len(ChunkData) /\ (l > 0 => o = srv.off)

\* The server is at the extent the client is at.
Together(c) ==
  LET e == Current(c)
      s == s2c[c]
  IN  /\ Serving(c) /\ srv.k = call[c].k
      /\ srv.pc \in {"open", "chunk", "data"} =>
           /\ ~Has(s, "e") /\ ~Has(s, "l")
           /\ e.off + e.cnt <= call[c].count + Frontier
           /\ \A p \in 1..Len(s) : s[p].t = "n" => s[p].off + s[p].len <= Frontier
      /\ srv.pc = "data" => Pending(s, Left(c), call[c].off)
      /\ srv.pc = "except" => ~Has(s, "e") /\ ~Has(s, "l")
      /\ srv.pc = "last" => ~Has(s, "l")

\* The server has not read the request yet, or it has answered it.
NotRead(c) ==
  /\ Waits(c, call[c].k) /\ s2c[c] = <<>> /\ failed[c] = 0
  /\ call[c].pc = "hdr" /\ call[c].count = Current(c).cnt
Answered(c) == srv.c = c /\ srv.pc = "req" /\ srv.k = call[c].k + 1

\* The answer under way is the one to the extent the client is at.
InSync(c) == call[c].pc \in {"hdr", "data"} /\ failed[c] \in {0, call[c].k}
SyncInv(c) ==
  InSync(c) =>
    /\ Framing(s2c[c], Left(c))
    /\ Ahead(Current(c), s2c[c], call[c].count)
    /\ Has(s2c[c], "e") => failed[c] = call[c].k
    /\ link[c] = "open" => NotRead(c) \/ Together(c) \/ Answered(c)

\* Before it asks for an extent there is nothing left over.
AskInv(c) ==
  call[c].pc \in {"cmd", "req"} /\ failed[c] = 0 =>
    s2c[c] = <<>> /\ (link[c] = "open" => Waits(c, call[c].k))

\* After the first error the client is ahead: what comes is for an extent after
\* the one that failed.
Later(c, o) == \E j \in failed[c] + 1..Asked(c) : Bv(c)[j].off <= o
LateInv(c) ==
  call[c].pc \in Active /\ failed[c] # 0 /\ failed[c] < call[c].k =>
    /\ \A p \in 1..Len(s2c[c]) : s2c[c][p].t = "n" => Later(c, s2c[c][p].off)
    /\ call[c].pc = "data" => Later(c, call[c].off)

StreamInv(c) == SyncInv(c) /\ AskInv(c) /\ LateInv(c)
Streams == OffsetInv /\ \A c \in Calls : StreamInv(c)

----------------------------------------------------------------------------
\* The answers, step by step

LEMMA OffsetStep == Inv /\ OffsetInv /\ [Next]_vars => OffsetInv'
<1> SUFFICES ASSUME Inv, OffsetInv, [Next]_vars,
                    srv'.pc \in {"open", "chunk", "data", "except", "last", "verbose"}
             PROVE  /\ srv'.off = srv'.ext.off + srv'.i
                    /\ srv'.pc = "open" => srv'.i = 0
                    /\ srv'.pc \in {"chunk", "data"} =>
                         srv'.i = 0 \/ srv'.i >= LesserOf(srv'.ext.cnt, Chunk)
  BY DEF OffsetInv
<1>1. CASE srv' = srv
  BY <1>1 DEF OffsetInv
<1>2. CASE ReadReq
  <2> DEFINE x == Head(c2s[Client]).ext
  <2>1. srv'.off = x.off /\ srv'.ext = x /\ srv'.i = 0 /\ srv'.pc = "open"
    BY <1>2 DEF ReadReq
  <2>2. x.off \in Nat
    <3>1. srv.c \in Calls /\ c2s[srv.c] # <<>> /\ Head(c2s[srv.c]).t = "req"
      BY <1>2 DEF ReadReq, SrvAt, Arrived, Client, Inv, TypeOK, ServerState
    <3>2. Head(c2s[srv.c]) \in CmdItem \union ReqItem
      BY <3>1 DEF Inv, TypeOK
    <3>3. Head(c2s[srv.c]).ext \in Extent
      BY <3>1, <3>2 DEF CmdItem, ReqItem
    <3> QED BY <3>3 DEF Client, Extent
  <2> HIDE DEF x
  <2> QED BY <2>1, <2>2
<1>3. CASE ServingStep
  <2>1. srv.pc \in {"open", "chunk", "data", "except", "last"}
    BY <1>3, ServingSteps
  <2>2. /\ srv.ext \in Extent /\ srv.off \in Nat /\ srv.i \in Nat
        /\ srv \in [pc : {"open", "chunk", "data", "except", "last", "verbose"},
            c : Calls, k : Nat \ {0}, n : Nat, ext : Extent, off : Nat,
            i : Nat, bound : BOOLEAN]
    BY <2>1, ServerLocals DEF Inv
  <2>3. CASE SendChunkData
    <3> DEFINE n == ChunkLen
               x == srv.off
               y == srv.i
               z == srv.ext.off
               w == srv.ext.cnt
    <3>1. w \in Nat /\ z \in Nat /\ x \in Nat /\ y \in Nat /\ Chunk \in Nat \ {0}
      BY <2>2, ConstantsAssumption DEF Extent
    <3>2. y < w /\ x = z + y /\ (y = 0 \/ y >= LesserOf(w, Chunk))
      BY <2>3 DEF SendChunkData, SrvAt, OffsetInv, Inv, InChunk
    <3>3. n = LesserOf(w - y, Chunk)
      BY DEF ChunkLen
    <3>4. srv'.off = x + n /\ srv'.i = y + n /\ srv'.ext = srv.ext /\ srv'.pc = "chunk"
      BY <2>2, <2>3 DEF SendChunkData
    <3> HIDE DEF n, x, y
    <3>5. x + n = z + (y + n) /\ y + n >= LesserOf(w, Chunk)
      <4> HIDE DEF z, w
      <4> QED BY <3>1, <3>2, <3>3 DEF LesserOf
    <3> QED BY <3>4, <3>5
  <2>4. CASE ~SendChunkData
    <3>1. /\ srv'.off = srv.off /\ srv'.i = srv.i /\ srv'.ext = srv.ext
          /\ srv'.pc # "open"
          /\ srv'.pc \in {"chunk", "data"} => srv.pc \in {"open", "chunk"}
      <4>1. CASE OpenFile \/ ChunksDone
        BY <2>2, <4>1 DEF OpenFile, ChunksDone, SrvAt
      <4>2. CASE OpenFails \/ ReadFails \/ SendRaisesInTry
        BY <2>2, <4>2 DEF OpenFails, ReadFails, SendRaisesInTry, ToExcept
      <4>3. CASE SendChunkHeader \/ SendError \/ SendLast
        BY <2>2, <4>3 DEF SendChunkHeader, SendError, SendLast, SrvAt
      <4> QED BY <1>3, <2>4, <4>1, <4>2, <4>3 DEF ServingStep
    <3> QED BY <2>1, <3>1 DEF OffsetInv
  <2> QED BY <2>3, <2>4
<1>4. CASE Accept \/ ReadCmd \/ Report
  BY <1>4 DEF Accept, ReadCmd, Report
<1>5. CASE \/ RecvAborted \/ AllServed \/ ReportUnbound \/ SendRaises \/ RestartServer
  BY <1>5, HandlerEndsEffect DEF RestartServer, IdleServer
<1>6. CASE \E c \in Calls : (\E j \in Jobs : Connect(c, j)) \/ ClientStep(c) \/ Die(c)
  BY <1>1, <1>6 DEF Connect, ClientStep, Die, SendCmd, TooManyBlocks, SendReq, RecvEnd, RecvNext,
     RecvGarbage, RecvData, BufferTooSmall, PeerReset, Return
<1>7. CASE UNCHANGED vars
  BY <1>1, <1>7 DEF vars
<1> QED BY <1>2, <1>3, <1>4, <1>5, <1>6, <1>7 DEF Next, ServerStep, ServingStep

LEMMA StreamFrame ==
  ASSUME NEW d \in Calls, StreamInv(d), Elsewhere(d)
  PROVE  StreamInv(d)'
<1>1. /\ (CmdRead(d)' <=> CmdRead(d)) /\ (Serving(d)' <=> Serving(d))
      /\ Left(d)' = Left(d) /\ Current(d)' = Current(d) /\ Bv(d)' = Bv(d) /\ Asked(d)' = Asked(d)
  BY DEF Elsewhere, CmdRead, Serving, Left, Current, Bv, Asked
<1>2. AskInv(d)' /\ (NotRead(d) => NotRead(d)') /\ (Answered(d) => Answered(d)')
  <2>1. CASE srv' = srv
    BY <1>1, <2>1 DEF Elsewhere, StreamInv, AskInv, Waits, NotRead, Answered
  <2>2. CASE srv.c # d /\ srv'.c # d
    BY <1>1, <2>2 DEF Elsewhere, StreamInv, AskInv, Waits, NotRead, Answered, CmdRead
  <2> QED BY <2>1, <2>2 DEF Elsewhere
<1>3. Together(d) => Together(d)'
  <2> SUFFICES ASSUME Together(d), srv' = srv PROVE Together(d)'
    BY DEF Elsewhere, Together, Serving, CmdRead
  <2>1. Frontier' = Frontier /\ ChunkData' = ChunkData
    BY DEF Frontier, ChunkData, ChunkAddr, ChunkLen, FileRead
  <2>2. Pending(s2c[d], Left(d), call[d].off) => Pending(s2c[d], Left(d), call[d].off)'
    BY <1>1, <2>1 DEF Elsewhere, Pending
  <2> QED BY <1>1, <2>1, <2>2 DEF Elsewhere, Together
<1>4. SyncInv(d)'
  BY <1>1, <1>2, <1>3 DEF Elsewhere, StreamInv, SyncInv, InSync
<1>5. LateInv(d)'
  BY <1>1 DEF Elsewhere, StreamInv, LateInv, Later
<1> QED BY <1>2, <1>4, <1>5 DEF StreamInv

\* A call that is over has no part in the streams.
LEMMA ClosedStream ==
  ASSUME NEW d \in Calls, call'[d].pc \in Ended
  PROVE  StreamInv(d)'
  BY DEF StreamInv, SyncInv, InSync, AskInv, LateInv, Active, Ended

LEMMA ConnectStream ==
  ASSUME Inv, Base, NEW c \in Calls, NEW j \in Jobs, Connect(c, j)
  PROVE  StreamInv(c)'
<1>1. /\ call[c].pc = "idle" /\ s2c[c] = <<>> /\ failed[c] = 0 /\ ~CmdRead(c)
  BY DEF Connect, Base, BaseInv, LinkInv, FailInv, Inv, CallInv, Fresh
<1>2. /\ call'[c].pc = "cmd" /\ call'[c].k = 1
      /\ s2c'[c] = <<>> /\ failed'[c] = 0 /\ srv' = srv
  BY <1>1 DEF Connect, Inv, TypeOK
<1>3. ~CmdRead(c)'
  BY <1>1, <1>2 DEF CmdRead
<1> QED BY <1>2, <1>3 DEF StreamInv, SyncInv, InSync, AskInv, LateInv, Waits

LEMMA SendStream ==
  ASSUME Inv, Base, Streams, NEW c \in Calls, SendCmd(c) \/ SendReq(c)
  PROVE  StreamInv(c)'
<1>1. /\ BaseInv(c) /\ StreamInv(c) /\ call[c].pc \in {"cmd", "req"} /\ call[c].pc # "idle"
  BY DEF SendCmd, SendReq, Base, Streams
<1>2. /\ call[c] \in CallState /\ call[c].k \in Nat \ {0}
      /\ Bv(c) \in Seq(Extent) /\ Len(Bv(c)) \in Nat
  BY <1>1, CallFields
<1>3. /\ call'[c].k = call[c].k /\ call'[c].job = call[c].job
      /\ call[c].pc = "cmd" => call'[c].pc = "req" /\ call[c].k = 1
      /\ call[c].pc = "req" => call'[c].pc = "hdr" /\ call'[c].count = Current(c).cnt
  BY <1>1, <1>2, SMTT(30) DEF SendCmd, SendReq, Inv, TypeOK, CallState, BaseInv, PlaceInv, Started
<1>4. /\ srv' = srv /\ failed' = failed /\ s2c' = s2c
      /\ link'[c] = "open" => link[c] = "open"
  <2>1. \E item : ClientSend(c, item)
    BY Zenon DEF SendCmd, SendReq
  <2> QED BY <2>1, SendsEffect DEF SendCmd, SendReq
<1>5. /\ Bv(c)' = Bv(c) /\ Current(c)' = Current(c) /\ (CmdRead(c)' <=> CmdRead(c))
      /\ (call[c].pc = "req" => Left(c)' = 0)
  BY <1>3, <1>4 DEF Bv, Current, CmdRead, Left
<1>6. failed[c] \in Nat /\ failed[c] < call[c].k
  <2>1. failed[c] <= call[c].k - 1
    BY <1>1 DEF BaseInv, FailInv, Asked, Active
  <2> QED BY <1>2, <2>1 DEF Inv, TypeOK
<1>7. Waits(c, call[c].k) => Waits(c, call[c].k)'
  BY <1>3, <1>4, <1>5 DEF Waits
<1>8. SyncInv(c)'
  <2> SUFFICES ASSUME InSync(c)' PROVE SyncInv(c)'
    BY DEF SyncInv
  <2>1. failed[c] = 0 /\ call[c].pc = "req"
    BY <1>1, <1>3, <1>4, <1>6 DEF InSync
  <2>2. s2c[c] = <<>> /\ (link[c] = "open" => Waits(c, call[c].k))
    BY <1>1, <2>1 DEF StreamInv, AskInv
  <2>3. link'[c] = "open" => NotRead(c)'
    BY <1>3, <1>4, <1>5, <1>7, <2>1, <2>2 DEF NotRead
  <2>4. s2c'[c] = <<>>
    BY <1>4, <2>2
  <2> QED BY <2>3, <2>4, NothingSent DEF SyncInv
<1>9. AskInv(c)'
  BY <1>1, <1>3, <1>4, <1>7 DEF StreamInv, AskInv
<1>10. LateInv(c)'
  <2> SUFFICES ASSUME failed[c] # 0 PROVE LateInv(c)'
    BY <1>4 DEF LateInv
  <2>1. \A p \in 1..Len(s2c[c]) : s2c[c][p].t = "n" => Later(c, s2c[c][p].off)
    BY <1>1, <1>6 DEF StreamInv, LateInv, Active
  <2>2. Asked(c) \in Int /\ Asked(c)' \in Int /\ Asked(c) <= Asked(c)'
    BY <1>1, <1>2, <1>3 DEF Asked
  <2>3. \A j \in failed[c] + 1..Asked(c) : j \in failed[c] + 1..Asked(c)'
    BY <1>6, <2>2
  <2>4. \A o : Later(c, o) => \E j \in failed[c] + 1..Asked(c)' : Bv(c)[j].off <= o
    BY <2>3 DEF Later
  <2>5. call'[c].pc # "data"
    BY <1>1, <1>3
  <2> QED BY <1>4, <1>5, <2>1, <2>4, <2>5 DEF LateInv, Later
<1> QED BY <1>8, <1>9, <1>10 DEF StreamInv

\* A call in step never finds data where a header is due, nor an empty place
\* for a packet.
LEMMA InSyncHead ==
  ASSUME Inv, Streams, NEW c \in Calls, InSync(c), s2c[c] # <<>>
  PROVE  /\ s2c[c] \in Seq(Items) /\ Current(c) \in Extent
         /\ call[c].pc = "hdr" => Head(s2c[c]).t # "d"
         /\ call[c].pc = "hdr" /\ Head(s2c[c]).t = "n" =>
              /\ call[c].count > 0
              /\ Head(s2c[c]).off \in Nat /\ Head(s2c[c]).len \in Nat
              /\ Framing(Tail(s2c[c]), Head(s2c[c]).len)
              /\ Ahead(Current(c), Tail(s2c[c]), call[c].count - Head(s2c[c]).len)
         /\ call[c].pc = "hdr" /\ Head(s2c[c]).t = "l" => Tail(s2c[c]) = <<>>
         /\ call[c].pc = "hdr" /\ Head(s2c[c]).t = "e" =>
              \A q \in 1..Len(Tail(s2c[c])) : Tail(s2c[c])[q].t = "l"
         /\ call[c].pc = "data" =>
              /\ Head(s2c[c]).t = "d" /\ call[c].l \in Nat \ {0}
              /\ Framing(Tail(s2c[c]), call[c].l - 1)
              /\ Ahead(Current(c), Tail(s2c[c]), call[c].count)
<1> DEFINE s == s2c[c]
           e == Current(c)
           h == Head(s)
<1>1. /\ call[c].pc \in {"hdr", "data"} /\ call[c].pc # "idle" /\ SyncInv(c) /\ CallInv(c)
      /\ s \in Seq(Items)
  BY DEF InSync, Streams, StreamInv, Inv, TypeOK, Items
<1>2. /\ call[c].count \in Int /\ call[c].l \in Nat /\ e \in Extent
  <2>1. call[c].k \in 1..Len(Bv(c)) /\ Bv(c) \in Seq(Extent)
    BY <1>1, CallFields DEF CallInv, AtExtent, Bv
  <2> QED BY <1>1, <2>1, CallFields DEF Current, Bv
<1>3. Framing(s, Left(c)) /\ Ahead(e, s, call[c].count) /\ Left(c) \in Nat
  BY <1>1, <1>2 DEF SyncInv, Left
<1> HIDE DEF s, e
<1>4. CASE call[c].pc = "hdr"
  <2>1. Framing(s, 0)
    BY <1>3, <1>4 DEF Left
  <2>2. /\ h.t # "d"
        /\ h.t = "n" => Framing(Tail(s), h.len)
        /\ h.t = "l" => Tail(s) = <<>>
        /\ h.t = "e" => \A q \in 1..Len(Tail(s)) : Tail(s)[q].t = "l"
    BY <1>1, <2>1, PopFraming DEF s
  <2>3. h.t = "n" =>
              /\ h.off \in Nat /\ h.len \in Nat
              /\ h.off < e.off + e.cnt /\ e.off + e.cnt <= call[c].count + h.off
              /\ Ahead(e, Tail(s), call[c].count - h.len)
    BY <1>1, <1>2, <1>3, PopAhead DEF s
  <2>4. h.t = "n" => call[c].count > 0
    <3> DEFINE x == h.off
               z == call[c].count
               w == e.off + e.cnt
    <3>1. w \in Nat
      BY <1>2 DEF Extent
    <3> SUFFICES ASSUME h.t = "n" PROVE z > 0
      OBVIOUS
    <3>2. x \in Nat /\ x < w /\ w <= z + x /\ z \in Int
      BY <1>2, <2>3
    <3> HIDE DEF x, z, w
    <3> QED BY <3>1, <3>2
  <2> QED BY <1>1, <1>2, <1>4, <2>2, <2>3, <2>4 DEF s, e
<1>5. CASE call[c].pc = "data"
  <2>1. h.t = "d" /\ call[c].l > 0 /\ Framing(s, call[c].l)
    <3>1. h = s[1] /\ 1 \in 1..Len(s)
      BY <1>1, TailPlaces DEF s
    <3>2. call[c].l > 0 /\ LeadsWithData(s, call[c].l)
      BY <1>1, <1>5 DEF CallInv, InPacket, s
    <3>3. Framing(s, call[c].l)
      BY <1>3, <1>5 DEF Left
    <3> QED BY <1>2, <3>1, <3>2, <3>3 DEF LeadsWithData
  <2>2. Framing(Tail(s), call[c].l - 1)
    BY <1>1, <1>2, <2>1, PopFraming DEF s
  <2>3. Ahead(e, Tail(s), call[c].count)
    BY <1>1, <1>2, <1>3, <2>1, PopAhead DEF s
  <2> QED BY <1>1, <1>2, <1>5, <2>1, <2>2, <2>3 DEF s, e
<1> QED BY <1>1, <1>4, <1>5

\* The four ways in which a call receives something.
Takes(c) ==
  /\ call[c].pc = "hdr" /\ Head(s2c[c]).t = "n" /\ call[c].count > 0
  /\ call'[c].pc = (IF Head(s2c[c]).len > 0 THEN "data" ELSE "hdr")
  /\ call'[c].count = call[c].count - Head(s2c[c]).len
  /\ call'[c].off = Head(s2c[c]).off /\ call'[c].l = Head(s2c[c]).len
Stores(c) ==
  /\ call[c].pc = "data"
  /\ call'[c].pc = (IF call[c].l = 1 THEN "hdr" ELSE "data")
  /\ call'[c].count = call[c].count
  /\ call'[c].off = call[c].off + 1 /\ call'[c].l = call[c].l - 1
Skips(c) == call[c].pc = "hdr" /\ Head(s2c[c]).t = "d" /\ call'[c] = call[c]
Leaves(c) ==
  /\ call[c].pc = "hdr" /\ call'[c].pc = "req" /\ call'[c].k = call[c].k + 1
  /\ Head(s2c[c]).t = "n" => call[c].count <= 0

LEMMA ReceivingKinds ==
  ASSUME Inv, NEW c \in Calls,
         \/ RecvEnd(c) \/ RecvNext(c) \/ RecvData(c)
         \/ (RecvGarbage(c) /\ call'[c].pc # "raised")
  PROVE  /\ s2c[c] # <<>> /\ s2c'[c] = Tail(s2c[c])
         /\ UNCHANGED <<link, c2s, backlog, srv, restarts, failed>>
         /\ call'[c].job = call[c].job
         /\ \/ (Takes(c) \/ Stores(c) \/ Skips(c)) /\ call'[c].k = call[c].k
            \/ Leaves(c)
         /\ ~RecvData(c) => buf' = buf
         /\ RecvData(c) => Stores(c)
<1>1. call[c].pc \in {"hdr", "data"} /\ call[c].pc # "idle" /\ s2c[c] # <<>>
  BY DEF RecvEnd, RecvNext, RecvData, RecvGarbage
<1>2. call[c] \in CallState /\ call[c].count \in Int
  BY <1>1, CallFields
<1>3. /\ s2c'[c] = Tail(s2c[c]) /\ call'[c].job = call[c].job
      /\ UNCHANGED <<link, c2s, backlog, srv, restarts, failed>>
  BY ReceivingSteps
<1>4. CASE RecvEnd(c)
  BY <1>1, <1>3, <1>4, AdvanceEffect DEF RecvEnd, Leaves, RecvData
<1>5. CASE RecvNext(c)
  <2>1. CASE call[c].count <= 0
    BY <1>1, <1>3, <1>5, <2>1, AdvanceEffect DEF RecvNext, Leaves, RecvData
  <2>2. CASE ~(call[c].count <= 0)
    <3>1. Takes(c) /\ call'[c].k = call[c].k
      BY <1>1, <1>2, <1>5, <2>2 DEF RecvNext, Inv, TypeOK, CallState, Takes
    <3> QED BY <1>1, <1>3, <1>5, <3>1 DEF RecvNext, RecvData
  <2> QED BY <2>1, <2>2
<1>6. CASE RecvData(c)
  <2>1. Stores(c) /\ call'[c].k = call[c].k
    BY <1>2, <1>6 DEF RecvData, Inv, TypeOK, CallState, Stores
  <2> QED BY <1>1, <1>3, <1>6, <2>1
<1>7. CASE RecvGarbage(c) /\ call'[c].pc # "raised"
  <2>1. call[c].pc = "hdr" /\ Head(s2c[c]).t = "d" /\ buf' = buf /\ ~RecvData(c)
    BY <1>7 DEF RecvGarbage, RecvData
  <2>2. Leaves(c) \/ (Skips(c) /\ call'[c].k = call[c].k)
    <3>1. CASE Advance(c)
      BY <1>1, <2>1, <3>1, AdvanceEffect DEF Leaves
    <3>2. CASE call' = call
      BY <2>1, <3>2 DEF Skips
    <3>3. CASE call' = [call EXCEPT ![c].pc = "raised"]
      BY <1>1, <1>2, <1>7, <3>3 DEF Inv, TypeOK
    <3> QED BY <1>7, <3>1, <3>2, <3>3 DEF RecvGarbage
  <2> QED BY <1>1, <1>3, <2>1, <2>2
<1> QED BY <1>4, <1>5, <1>6, <1>7

LEMMA TailHas ==
  ASSUME NEW s \in Seq(Items), s # <<>>
  PROVE  /\ \A t : Has(Tail(s), t) => Has(s, t)
         /\ Has(s, Head(s).t)
         /\ Head(s).t \in {"n", "e", "l", "d"}
<1>1. Head(s) \in Items
  BY TailPlaces
<1>2. Head(s).t \in {"n", "e", "l", "d"}
  BY <1>1 DEF Items, HeaderItem, DataItem
<1>3. \A t : Has(Tail(s), t) => Has(s, t)
  <2> SUFFICES ASSUME NEW t, NEW q \in 1..Len(Tail(s)), Tail(s)[q].t = t PROVE Has(s, t)
    BY DEF Has
  <2>1. q + 1 \in 1..Len(s) /\ s[q + 1].t = t
    BY TailPlaces
  <2> QED BY <2>1 DEF Has
<1>4. Has(s, Head(s).t)
  BY TailPlaces, Zenon DEF Has
<1> QED BY <1>2, <1>3, <1>4

LEMMA TogetherKept ==
  ASSUME NEW c \in Calls, Together(c), srv' = srv, s2c[c] \in Seq(Items), s2c[c] # <<>>,
         s2c'[c] = Tail(s2c[c]), call'[c].job = call[c].job, call'[c].k = call[c].k,
         srv.pc \in {"open", "chunk", "data"} =>
           Current(c).off + Current(c).cnt <= call'[c].count + Frontier,
         srv.pc = "data" => Pending(Tail(s2c[c]), Left(c)', call'[c].off)
  PROVE  Together(c)'
<1> DEFINE s == s2c[c]
           t == Tail(s)
<1>1. Frontier' = Frontier /\ ChunkData' = ChunkData
  BY DEF Frontier, ChunkData, ChunkAddr, ChunkLen, FileRead
<1>2. Current(c)' = Current(c) /\ Serving(c)'
  BY DEF Current, Together, Serving, CmdRead
<1>3. ~Has(s, "e") => ~Has(t, "e")
  BY TailHas
<1>4. ~Has(s, "l") => ~Has(t, "l")
  BY TailHas
<1>5. srv.pc \in {"open", "chunk", "data"} =>
        \A q \in 1..Len(t) : t[q].t = "n" => t[q].off + t[q].len <= Frontier
  <2> SUFFICES ASSUME srv.pc \in {"open", "chunk", "data"}, NEW q \in 1..Len(t), t[q].t = "n"
               PROVE  t[q].off + t[q].len <= Frontier
    OBVIOUS
  <2>1. q + 1 \in 1..Len(s) /\ t[q] = s[q + 1]
    BY TailPlaces
  <2> QED BY <2>1 DEF Together
<1>6. Pending(t, Left(c)', call'[c].off) => Pending(s2c[c], Left(c), call[c].off)'
  BY <1>1 DEF Pending
<1> QED BY <1>1, <1>2, <1>3, <1>4, <1>5, <1>6 DEF Together

LEMMA OnePlace ==
  ASSUME NEW s \in Seq(Items), s # <<>>, Tail(s) = <<>>
  PROVE  Len(s) = 1 /\ Head(s) = s[1]
<1>1. Len(Tail(s)) = 0
  <2>1. Len(<<>>) = 0
    OBVIOUS
  <2> QED BY <2>1, Zenon
<1>2. Len(Tail(s)) = Len(s) - 1 /\ Len(s) \in Nat \ {0} /\ Head(s) = s[1]
  BY TailPlaces
<1> QED BY <1>1, <1>2

\* The last header of a stream stays the last.
LEMMA PendingKept ==
  ASSUME NEW s \in Seq(Items), s # <<>>, NEW l, NEW o, NEW m, NEW a, Pending(s, l, o),
         Tail(s) = <<>> =>
           Head(s).t = "n" /\ m = Head(s).len /\ a = Head(s).off
  PROVE  Pending(Tail(s), m, a)
<1>1. s[Len(s)] = Header("n", srv.off, Len(ChunkData))
  BY DEF Pending
<1>2. CASE Tail(s) = <<>>
  <2>1. Len(s) = 1 /\ Head(s) = s[1]
    BY <1>2, OnePlace
  <2>2. Head(s) = Header("n", srv.off, Len(ChunkData))
    BY <1>1, <2>1
  <2> QED BY <1>2, <2>2 DEF Pending, Header
<1>3. CASE Tail(s) # <<>>
  <2>1. Len(Tail(s)) \in 1..Len(Tail(s)) /\ Len(Tail(s)) + 1 = Len(s)
    BY <1>3, TailPlaces
  <2>2. Tail(s)[Len(Tail(s))] = s[Len(s)]
    BY <2>1, TailPlaces
  <2> QED BY <1>1, <1>3, <2>2 DEF Pending
<1> QED BY <1>2, <1>3

LEMMA FrontierNat ==
  ASSUME Inv, srv.pc \in {"open", "chunk", "data"}
  PROVE  Frontier \in Nat /\ (srv.pc = "data" => Len(ChunkData) \in Nat)
<1>1. srv.off \in Nat
  BY ServerLocals DEF Inv
<1>2. srv.pc = "data" => Len(ChunkData) \in Nat
  BY ChunkDataType DEF Inv, InChunk
<1> QED BY <1>1, <1>2 DEF Frontier

LEMMA ReceivingLate ==
  ASSUME Inv, Base, Streams, NEW c \in Calls,
         \/ RecvEnd(c) \/ RecvNext(c) \/ RecvData(c)
         \/ (RecvGarbage(c) /\ call'[c].pc # "raised"),
         ~InSync(c)
  PROVE  StreamInv(c)'
<1> DEFINE s == s2c[c]
           k == call[c].k
<1>1. /\ s # <<>> /\ s2c'[c] = Tail(s) /\ srv' = srv /\ link' = link /\ failed' = failed
      /\ call'[c].job = call[c].job
      /\ \/ (Takes(c) \/ Stores(c) \/ Skips(c)) /\ call'[c].k = k
         \/ Leaves(c)
  BY ReceivingKinds
<1>2. /\ call[c].pc \in {"hdr", "data"} /\ call[c].pc # "idle"
      /\ call[c].k \in Nat \ {0} /\ call[c].off \in Nat
  BY <1>1, CallFields DEF Takes, Stores, Skips, Leaves
<1>3. failed[c] \in Nat /\ failed[c] # 0 /\ failed[c] < k
  BY <1>2 DEF InSync, Base, BaseInv, FailInv, Asked, Active, Inv, TypeOK
<1>4. /\ Asked(c) = k /\ Asked(c)' = k /\ Bv(c)' = Bv(c)
      /\ call'[c].pc \in {"req", "hdr", "data"} /\ call'[c].k \in {k, k + 1}
      /\ call'[c].pc \in {"hdr", "data"} => call'[c].k = k
  BY <1>1, <1>2 DEF Asked, Bv, Takes, Stores, Skips, Leaves
<1>5. \A o : Later(c, o)' <=> Later(c, o)
  BY <1>1, <1>4 DEF Later
<1>6. /\ \A p \in 1..Len(s) : s[p].t = "n" => Later(c, s[p].off)
      /\ call[c].pc = "data" => Later(c, call[c].off)
  BY <1>2, <1>3 DEF Streams, StreamInv, LateInv, Active
<1>7. s \in Seq(Items)
  BY DEF Inv, TypeOK, Items
<1>8. \A p \in 1..Len(Tail(s)) : Tail(s)[p].t = "n" => Later(c, Tail(s)[p].off)
  BY <1>1, <1>6, <1>7, TailPlaces
<1>9. call'[c].pc = "data" => Later(c, call'[c].off)
  <2>1. CASE Takes(c)
    <3>1. s[1].t = "n" /\ call'[c].off = s[1].off /\ 1 \in 1..Len(s)
      BY <1>1, <1>7, <2>1, TailPlaces DEF Takes
    <3> QED BY <1>6, <3>1
  <2>2. CASE Stores(c)
    <3>1. PICK j \in failed[c] + 1..Asked(c) : Bv(c)[j].off <= call[c].off
      BY <1>6, <2>2 DEF Stores, Later
    <3>2. Bv(c)[j].off \in Nat
      <4>1. Bv(c) \in Seq(Extent) /\ k \in 1..Len(Bv(c))
        BY <1>2, CallFields DEF Inv, CallInv, AtExtent, Bv
      <4>2. j \in 1..Len(Bv(c))
        BY <1>3, <1>4, <4>1
      <4>3. Bv(c)[j] \in Extent
        BY <4>1, <4>2
      <4> QED BY <4>3 DEF Extent
    <3>3. Bv(c)[j].off <= call'[c].off
      BY <1>2, <2>2, <3>1, <3>2 DEF Stores
    <3> QED BY <3>1, <3>3 DEF Later
  <2>3. CASE Skips(c) \/ Leaves(c)
    BY <2>3 DEF Skips, Leaves
  <2> QED BY <1>1, <2>1, <2>2, <2>3
<1>10. LateInv(c)'
  BY <1>1, <1>5, <1>8, <1>9 DEF LateInv
<1>11. SyncInv(c)' /\ AskInv(c)'
  BY <1>1, <1>3, <1>4 DEF SyncInv, InSync, AskInv
<1> QED BY <1>10, <1>11 DEF StreamInv

LEMMA ReceivingInSync ==
  ASSUME Inv, Base, Streams, NEW c \in Calls,
         \/ RecvEnd(c) \/ RecvNext(c) \/ RecvData(c)
         \/ (RecvGarbage(c) /\ call'[c].pc # "raised"),
         InSync(c)
  PROVE  StreamInv(c)'
<1> DEFINE s == s2c[c]
           k == call[c].k
           h == Head(s)
<1>1. /\ s # <<>> /\ s2c'[c] = Tail(s) /\ srv' = srv /\ link' = link /\ failed' = failed
      /\ call'[c].job = call[c].job
      /\ \/ (Takes(c) \/ Stores(c) \/ Skips(c)) /\ call'[c].k = k
         \/ Leaves(c)
  BY ReceivingKinds
<1>2. /\ call[c].pc \in {"hdr", "data"} /\ call[c].pc # "idle"
      /\ k \in Nat \ {0} /\ call[c].off \in Nat /\ call[c].count \in Int
      /\ failed[c] \in {0, k} /\ s \in Seq(Items)
  BY CallFields DEF InSync, Inv, TypeOK, Items
<1>3. /\ Current(c) \in Extent
      /\ call[c].pc = "hdr" => h.t # "d"
      /\ call[c].pc = "hdr" /\ h.t = "n" =>
           /\ call[c].count > 0 /\ h.off \in Nat /\ h.len \in Nat
           /\ Framing(Tail(s), h.len)
           /\ Ahead(Current(c), Tail(s), call[c].count - h.len)
      /\ call[c].pc = "hdr" /\ h.t = "l" => Tail(s) = <<>>
      /\ call[c].pc = "hdr" /\ h.t = "e" => \A q \in 1..Len(Tail(s)) : Tail(s)[q].t = "l"
      /\ call[c].pc = "data" =>
           /\ h.t = "d" /\ call[c].l \in Nat \ {0}
           /\ Framing(Tail(s), call[c].l - 1)
           /\ Ahead(Current(c), Tail(s), call[c].count)
  BY <1>1, InSyncHead
<1>4. /\ Has(s, "e") => failed[c] = k
      /\ Ahead(Current(c), s, call[c].count)
      /\ link[c] = "open" => Together(c) \/ Answered(c)
  BY <1>1 DEF Streams, StreamInv, SyncInv, NotRead
<1>5. ~Skips(c)
  BY <1>3 DEF Skips
<1>6. CASE Leaves(c)
  <2>1. h.t \in {"e", "l"} /\ Has(s, h.t)
    <3>1. h.t \in {"n", "e", "l", "d"} /\ Has(s, h.t)
      BY <1>1, <1>2, TailHas
    <3> QED BY <1>2, <1>3, <1>6, <3>1 DEF Leaves
  <2>2. call'[c].pc = "req" /\ call'[c].k = k + 1 /\ call[c].pc = "hdr"
    BY <1>6 DEF Leaves
  <2>3. SyncInv(c)'
    BY <2>2 DEF SyncInv, InSync
  <2>4. LateInv(c)'
    <3>1. \A q \in 1..Len(Tail(s)) : Tail(s)[q].t # "n"
      <4>1. CASE h.t = "l"
        <5>1. Tail(s) = <<>>
          BY <1>3, <2>2, <4>1
        <5>2. Len(<<>>) = 0 /\ 1..0 = {}
          OBVIOUS
        <5>3. 1..Len(Tail(s)) = {}
          BY <5>1, <5>2, Zenon
        <5> QED BY <5>3
      <4>2. CASE h.t = "e"
        <5>1. \A q \in 1..Len(Tail(s)) : Tail(s)[q].t = "l"
          BY <1>3, <2>2, <4>2
        <5> QED BY <5>1
      <4> QED BY <2>1, <4>1, <4>2
    <3> QED BY <1>1, <2>2, <3>1 DEF LateInv
  <2>5. AskInv(c)'
    <3> SUFFICES ASSUME failed[c] = 0 PROVE AskInv(c)'
      BY <1>1 DEF AskInv
    <3>1. h.t = "l"
      BY <1>2, <1>4, <2>1
    <3>2. s2c'[c] = <<>>
      BY <1>1, <1>3, <2>2, <3>1
    <3>3. link[c] = "open" => srv.c = c /\ \/ srv.pc = "verbose" /\ srv.k = k
                                           \/ srv.pc = "req" /\ srv.k = k + 1
      <4>1. Together(c) => srv.pc = "verbose" /\ srv.c = c /\ srv.k = k
        <5> SUFFICES ASSUME Together(c) PROVE srv.pc = "verbose" /\ srv.c = c /\ srv.k = k
          OBVIOUS
        <5>1. srv.pc \notin {"accept", "cmd", "req"} /\ srv.c = c /\ srv.k = k
          BY DEF Together, Serving, CmdRead
        <5>2. srv.pc \notin {"open", "chunk", "data", "except", "last"}
          BY <2>1, <3>1 DEF Together
        <5> QED BY <5>1, <5>2 DEF Inv, TypeOK, ServerState
      <4> QED BY <1>4, <4>1 DEF Answered
    <3>4. k + 1 # 1
      BY <1>2
    <3>5. link[c] = "open" => srv.c = c /\ \/ srv.pc = "verbose" /\ srv.k + 1 = k + 1
                                           \/ srv.pc = "req" /\ srv.k = k + 1
      BY <3>3
    <3>6. call'[c].k # 1 /\ call'[c].k = k + 1
      BY <2>2, <3>4
    <3> HIDE DEF k
    <3> QED BY <1>1, <3>2, <3>5, <3>6 DEF AskInv, Waits
  <2> QED BY <2>3, <2>4, <2>5 DEF StreamInv
<1>7. CASE (Takes(c) \/ Stores(c)) /\ call'[c].k = k
  <2>1. /\ call'[c].pc \in {"hdr", "data"} /\ call'[c].k = k
        /\ Current(c)' = Current(c) /\ Left(c)' \in Nat
        /\ Framing(Tail(s), Left(c)')
        /\ Ahead(Current(c), Tail(s), call'[c].count)
        /\ Tail(s) = <<>> /\ srv.pc = "data" /\ link[c] = "open" /\ Together(c) =>
             h.t = "n" /\ Left(c)' = h.len /\ call'[c].off = h.off
    <3>1. Current(c)' = Current(c)
      BY <1>1, <1>7 DEF Current
    <3>2. CASE Takes(c)
      <4>1. Left(c)' = h.len /\ h.len \in Nat
        BY <1>3, <3>2 DEF Takes, Left
      <4> QED BY <1>3, <1>7, <3>1, <3>2, <4>1 DEF Takes
    <3>3. CASE Stores(c)
      <4>1. Left(c)' = call[c].l - 1 /\ call[c].l \in Nat \ {0}
        BY <1>3, <3>3 DEF Stores, Left
      <4>2. Together(c) /\ srv.pc = "data" => Tail(s) # <<>>
        <5> SUFFICES ASSUME Together(c), srv.pc = "data", Tail(s) = <<>> PROVE FALSE
          OBVIOUS
        <5>1. s[Len(s)].t = "n"
          BY <1>1 DEF Together, Pending, Header
        <5>2. Len(s) = 1 /\ h = s[1]
          <6> HIDE DEF s
          <6> QED BY <1>1, <1>2, OnePlace
        <5>3. h.t = "d"
          BY <1>3, <3>3 DEF Stores
        <5> QED BY <5>1, <5>2, <5>3
      <4> QED BY <1>3, <1>7, <3>1, <3>3, <4>1, <4>2 DEF Stores
    <3> QED BY <1>7, <3>2, <3>3
  <2>2. Has(Tail(s), "e") => failed[c] = k
    BY <1>1, <1>2, <1>4, TailHas
  <2>3. link[c] = "open" /\ Together(c) => Together(c)'
    <3> SUFFICES ASSUME link[c] = "open", Together(c) PROVE Together(c)'
      OBVIOUS
    <3>1. srv.pc \in {"open", "chunk", "data"} =>
            Current(c).off + Current(c).cnt <= call'[c].count + Frontier
      <4> SUFFICES ASSUME srv.pc \in {"open", "chunk", "data"}
                   PROVE  Current(c).off + Current(c).cnt <= call'[c].count + Frontier
        OBVIOUS
      <4> DEFINE w == Current(c).off + Current(c).cnt
                 f == Frontier
                 n == call[c].count
      <4>1. w \in Nat /\ f \in Nat /\ n \in Int /\ w <= n + f
        BY <1>2, <1>3, FrontierNat DEF Together, Extent
      <4>2. CASE Stores(c)
        BY <4>1, <4>2 DEF Stores
      <4>3. CASE Takes(c)
        <5> DEFINE x == h.off
                   y == h.len
        <5>1. x \in Nat /\ y \in Nat /\ w <= n + x
          BY <1>1, <1>2, <1>3, <1>4, <4>3, PopAhead DEF Takes
        <5>2. x + y <= f
          <6>1. h = s[1] /\ 1 \in 1..Len(s) /\ h.t = "n"
            BY <1>1, <1>2, <4>3, TailPlaces DEF Takes
          <6> QED BY <6>1 DEF Together
        <5>3. call'[c].count = n - y
          BY <4>3 DEF Takes
        <5> HIDE DEF x, y, w, f, n
        <5>4. w <= n - y + f
          BY <4>1, <5>1, <5>2
        <5> QED BY <5>3, <5>4 DEF w, f
      <4> QED BY <1>7, <4>2, <4>3
    <3>2. srv.pc = "data" => Pending(Tail(s), Left(c)', call'[c].off)
      <4> SUFFICES ASSUME srv.pc = "data" PROVE Pending(Tail(s), Left(c)', call'[c].off)
        OBVIOUS
      <4> DEFINE m == Left(c)'
                 a == call'[c].off
      <4>1. Pending(s, Left(c), call[c].off)
        BY DEF Together
      <4>2. Tail(s) = <<>> => h.t = "n" /\ m = h.len /\ a = h.off
        BY <2>1
      <4> HIDE DEF m, a, s
      <4> QED BY <1>1, <1>2, <4>1, <4>2, PendingKept DEF m, a
    <3> QED BY <1>1, <1>2, <2>1, <3>1, <3>2, TogetherKept
  <2>4. Answered(c) => Answered(c)'
    BY <1>1, <2>1 DEF Answered
  <2>5. SyncInv(c)'
    BY <1>1, <1>4, <2>1, <2>2, <2>3, <2>4 DEF SyncInv
  <2>6. AskInv(c)' /\ LateInv(c)'
    BY <1>1, <1>2, <2>1 DEF AskInv, LateInv
  <2> QED BY <2>5, <2>6 DEF StreamInv
<1> QED BY <1>1, <1>5, <1>6, <1>7

\* A call whose connection is not open keeps what it has received.
LEMMA Disconnected ==
  ASSUME NEW c \in Calls, StreamInv(c), call'[c] = call[c], s2c'[c] = s2c[c],
         failed'[c] = failed[c], link'[c] # "open"
  PROVE  StreamInv(c)'
<1>1. Left(c)' = Left(c) /\ Current(c)' = Current(c) /\ Bv(c)' = Bv(c) /\ Asked(c)' = Asked(c)
  BY DEF Left, Current, Bv, Asked
<1>2. SyncInv(c)' /\ AskInv(c)'
  BY <1>1 DEF StreamInv, SyncInv, InSync, AskInv
<1>3. LateInv(c)'
  BY <1>1 DEF StreamInv, LateInv, Later
<1> QED BY <1>2, <1>3 DEF StreamInv

LEMMA EndingStream ==
  ASSUME Inv, Streams, NEW c \in Calls,
         \/ RestartServer
         \/ (RecvAborted \/ AllServed \/ ReportUnbound \/ SendRaises) /\ srv.c = c
  PROVE  StreamInv(c)'
<1>1. StreamInv(c)
  BY DEF Streams
<1>2. CASE RestartServer
  <2>1. call' = call /\ failed' = failed /\ s2c' = s2c /\ link'[c] # "open"
    BY <1>2 DEF RestartServer
  <2> QED BY <1>1, <2>1, Disconnected
<1>3. CASE (RecvAborted \/ AllServed \/ ReportUnbound \/ SendRaises) /\ srv.c = c
  <2>1. call' = call /\ failed' = failed /\ s2c' = s2c /\ link'[c] # "open"
    BY <1>3, HandlerEndsEffect
  <2> QED BY <1>1, <2>1, Disconnected
<1> QED BY <1>2, <1>3

\* The server turns to the connection, or has the command.
LEMMA StartingStream ==
  ASSUME Inv, Base, Streams, NEW c \in Calls,
         (Accept /\ srv'.c = c) \/ (ReadCmd /\ srv.c = c)
  PROVE  StreamInv(c)'
<1>1. StreamInv(c)
  BY DEF Streams
<1>2. /\ call' = call /\ failed' = failed /\ s2c' = s2c /\ link' = link
      /\ ~CmdRead(c)
      /\ \A k : srv.c # c \/ (srv.pc # "verbose" /\ srv.pc # "req")
      /\ CmdRead(c)' => srv'.pc = "req" /\ srv'.k = 1
  <2>1. CASE Accept /\ srv'.c = c
    BY <2>1, ConstantsAssumption DEF Accept, SrvAt, Inv, TypeOK, ServerState, CmdRead
  <2>2. CASE ReadCmd /\ srv.c = c
    BY <2>2 DEF ReadCmd, SrvAt, CmdRead
  <2> QED BY <2>1, <2>2
<1>3. ~Together(c) /\ ~Answered(c)
  BY <1>2 DEF Together, Answered, Serving
<1>4. Left(c)' = Left(c) /\ Current(c)' = Current(c) /\ Bv(c)' = Bv(c) /\ Asked(c)' = Asked(c)
  BY <1>2 DEF Left, Current, Bv, Asked
<1>5. Waits(c, call[c].k) => Waits(c, call[c].k)'
  BY <1>2 DEF Waits
<1>6. NotRead(c) => NotRead(c)'
  BY <1>2, <1>4, <1>5 DEF NotRead
<1>7. SyncInv(c)'
  BY <1>1, <1>2, <1>3, <1>4, <1>6 DEF StreamInv, SyncInv, InSync
<1>8. AskInv(c)'
  BY <1>1, <1>2, <1>5 DEF StreamInv, AskInv
<1>9. LateInv(c)'
  BY <1>1, <1>2, <1>4 DEF StreamInv, LateInv, Later
<1> QED BY <1>7, <1>8, <1>9 DEF StreamInv

\* What the server has in hand is what an active call has asked for.
LEMMA InHand ==
  ASSUME Inv, Base, NEW c \in Calls, Serving(c), link[c] = "open"
  PROVE  /\ call[c].pc \in {"req", "hdr", "data"} /\ Bv(c) \in Seq(Extent)
         /\ Asked(c) \in Nat /\ Asked(c) <= Len(Bv(c))
         /\ srv.k \in 1..Asked(c) /\ srv.ext = Bv(c)[srv.k] /\ srv.ext \in Extent
<1>1. /\ BaseInv(c) /\ srv.c = c
      /\ srv.pc \in {"open", "chunk", "data", "except", "last", "verbose"}
  BY DEF Base, Serving, CmdRead, Inv, TypeOK, ServerState
<1>2. srv.k \in Nat \ {0} /\ srv.ext \in Extent
  BY <1>1, ServerLocals DEF Inv
<1>3. call[c].pc \in Active /\ call[c].pc # "idle"
  BY <1>1 DEF BaseInv, LinkInv, Active
<1>4. /\ call[c].pc # "cmd" /\ Unread(c) <= Asked(c) + 1 /\ srv.ext = Bv(c)[srv.k]
  BY <1>1, <1>3 DEF BaseInv, RequestInv, Serving
<1>5. /\ call[c].k \in Nat \ {0} /\ Bv(c) \in Seq(Extent) /\ Len(Bv(c)) \in Nat
  BY <1>3, CallFields
<1>6. Asked(c) \in Nat /\ Asked(c) <= Len(Bv(c))
  BY <1>1, <1>3, <1>5, SMTT(30) DEF BaseInv, PlaceInv, Started, Asked, Inv, CallInv, AtExtent, Bv
<1>7. srv.k <= Asked(c)
  BY <1>2, <1>4, <1>6 DEF Unread
<1> QED BY <1>2, <1>3, <1>4, <1>5, <1>6, <1>7 DEF Active

LEMMA ReadReqStream ==
  ASSUME Inv, Base, Streams, NEW c \in Calls, ReadReq, srv.c = c
  PROVE  StreamInv(c)'
<1>1. BaseInv(c) /\ StreamInv(c)
  BY DEF Base, Streams
<1>2. /\ srv.pc = "req" /\ UNCHANGED <<call, link, s2c, failed>>
  BY ReadsEffect
<1>3. /\ srv'.pc = "open" /\ srv'.c = c /\ srv'.k = srv.k
      /\ srv'.off = srv'.ext.off
  BY DEF ReadReq, Client
<1>4. CASE link[c] # "open"
  BY <1>1, <1>2, <1>4, Disconnected
<1>5. CASE link[c] = "open"
  <2>1. BaseInv(c)' /\ Inv'
    BY ReadReqBase, InvStep DEF Next, ServerStep
  <2>2. /\ call[c].pc \in Active /\ call[c].pc # "idle"
    BY <1>1, <1>5 DEF BaseInv, LinkInv, Active
  <2>3. /\ CmdRead(c) /\ CmdRead(c)' /\ ~Serving(c) /\ Serving(c)' /\ Unread(c)' = srv.k + 1
        /\ Bv(c)' = Bv(c) /\ Asked(c)' = Asked(c) /\ Current(c)' = Current(c) /\ Left(c)' = Left(c)
    BY <1>2, <1>3 DEF CmdRead, Serving, Unread, Bv, Asked, Current, Left
  <2>4. srv.k + 1 <= Asked(c) + 1 /\ srv'.ext = Bv(c)[srv.k]
    <3>1. RequestInv(c)' /\ link'[c] = "open" /\ call'[c].pc \in Active
      BY <1>2, <1>5, <2>1, <2>2 DEF BaseInv
    <3>2. Unread(c)' <= Asked(c)' + 1 /\ srv'.ext = Bv(c)'[srv'.k]
      BY <2>3, <3>1 DEF RequestInv
    <3> QED BY <1>3, <2>3, <3>2
  <2>5. call[c].k \in Nat \ {0} /\ srv.k \in Nat \ {0}
    BY <1>2, <2>2, CallFields DEF Inv, TypeOK, ServerState
  <2>6. Waits(c, call[c].k) => srv.k = call[c].k
    BY <1>2, <2>3, <2>5 DEF Waits
  <2>7. srv.k <= Asked(c) /\ Asked(c) \in Int
    BY <2>4, <2>5 DEF Asked
  <2>8. call[c].pc \in {"cmd", "req"} => failed[c] # 0
    <3> SUFFICES ASSUME call[c].pc \in {"cmd", "req"}, failed[c] = 0 PROVE FALSE
      OBVIOUS
    <3>1. srv.k = call[c].k
      BY <1>1, <1>5, <2>6 DEF StreamInv, AskInv
    <3>2. Asked(c) = call[c].k - 1
      BY DEF Asked
    <3> QED BY <2>5, <2>7, <3>1, <3>2
  <2>9. InSync(c) => NotRead(c)
    <3> SUFFICES ASSUME InSync(c) PROVE NotRead(c)
      OBVIOUS
    <3>1. ~Together(c)
      BY <2>3 DEF Together
    <3>2. ~Answered(c)
      BY <2>5, <2>7 DEF Answered, InSync, Asked
    <3> QED BY <1>1, <1>5, <3>1, <3>2 DEF StreamInv, SyncInv
  <2>10. InSync(c) => Together(c)'
    <3> SUFFICES ASSUME InSync(c) PROVE Together(c)'
      OBVIOUS
    <3>1. srv.k = call[c].k /\ s2c[c] = <<>> /\ call[c].count = Current(c).cnt
      BY <2>6, <2>9 DEF NotRead
    <3>2. srv'.ext = Current(c)
      BY <2>4, <3>1 DEF Current, Bv
    <3>3. Frontier' = Current(c).off
      <4>1. srv'.ext.off \in Nat
        BY <1>3, <2>1, ServerLocals DEF Inv, TypeOK, ServerState, Extent
      <4> QED BY <1>3, <3>2, <4>1 DEF Frontier
    <3>4. Current(c).off + Current(c).cnt <= call[c].count + Frontier'
      <4> DEFINE x == Current(c).off
                 y == Current(c).cnt
      <4>1. x \in Nat /\ y \in Nat
        <5>1. Current(c) \in Extent
          BY <1>3, <2>1, <3>2 DEF Inv, TypeOK, ServerState
        <5> QED BY <5>1 DEF Extent
      <4>2. Frontier' = x /\ call[c].count = y
        BY <3>1, <3>3
      <4> HIDE DEF x, y
      <4>3. x + y <= y + x
        BY <4>1
      <4> QED BY <4>2, <4>3 DEF x, y
    <3>5. s2c'[c] = <<>> /\ \A t : ~Has(<<>>, t)
      BY <1>2, <3>1, NothingSent
    <3>6. \A p \in 1..Len(s2c'[c]) : FALSE
      <4>1. Len(<<>>) = 0 /\ 1..0 = {}
        OBVIOUS
      <4>2. 1..Len(s2c'[c]) = {}
        BY <3>5, <4>1, Zenon
      <4> QED BY <4>2
    <3> QED BY <1>2, <1>3, <2>3, <3>1, <3>4, <3>5, <3>6 DEF Together
  <2>11. SyncInv(c)'
    BY <1>1, <1>2, <1>5, <2>3, <2>10 DEF StreamInv, SyncInv, InSync
  <2>12. AskInv(c)'
    BY <1>1, <1>2, <2>8 DEF StreamInv, AskInv
  <2>13. LateInv(c)'
    BY <1>1, <1>2, <2>3 DEF StreamInv, LateInv, Later
  <2> QED BY <2>11, <2>12, <2>13 DEF StreamInv
<1> QED BY <1>4, <1>5

LEMMA ReportStream ==
  ASSUME Inv, Base, Streams, NEW c \in Calls, Report, srv.c = c
  PROVE  StreamInv(c)'
<1>1. StreamInv(c)
  BY DEF Streams
<1>2. /\ srv.pc = "verbose" /\ srv'.pc = "req" /\ srv'.c = c /\ srv'.k = srv.k + 1
      /\ UNCHANGED <<call, link, s2c, failed>>
  BY DEF Report, SrvAt, Client
<1>3. /\ Left(c)' = Left(c) /\ Current(c)' = Current(c) /\ Bv(c)' = Bv(c) /\ Asked(c)' = Asked(c)
      /\ CmdRead(c) /\ CmdRead(c)' /\ Serving(c)
  BY <1>2 DEF Left, Current, Bv, Asked, CmdRead, Serving
<1>4. Waits(c, call[c].k) => Waits(c, call[c].k)'
  BY <1>2, <1>3 DEF Waits
<1>5. (NotRead(c) => NotRead(c)') /\ (Together(c) => Answered(c)') /\ ~Answered(c)
  BY <1>2, <1>3, <1>4 DEF NotRead, Together, Answered
<1>6. SyncInv(c)'
  BY <1>1, <1>2, <1>3, <1>5 DEF StreamInv, SyncInv, InSync
<1>7. AskInv(c)'
  BY <1>1, <1>2, <1>4 DEF StreamInv, AskInv
<1>8. LateInv(c)'
  BY <1>1, <1>2, <1>3 DEF StreamInv, LateInv, Later
<1> QED BY <1>6, <1>7, <1>8 DEF StreamInv

\* Where client and server are when the server serves a connection that is open.
LEMMA ServingPlace ==
  ASSUME Inv, Base, Streams, NEW c \in Calls, Serving(c), link[c] = "open", srv.pc # "verbose"
  PROVE  /\ call[c].pc \in {"req", "hdr", "data"}
         /\ call[c].pc = "req" => failed[c] # 0
         /\ InSync(c) => Together(c)
         /\ failed[c] = 0 => InSync(c) /\ Together(c)
<1>1. StreamInv(c) /\ call[c].pc \in {"req", "hdr", "data"} /\ CmdRead(c) /\ srv.pc # "req"
  BY InHand DEF Streams, Serving
<1>2. ~Waits(c, call[c].k) /\ ~Answered(c)
  BY <1>1 DEF Waits, Answered
<1>3. call[c].pc = "req" => failed[c] # 0
  BY <1>1, <1>2 DEF StreamInv, AskInv
<1>4. InSync(c) => Together(c)
  BY <1>1, <1>2 DEF StreamInv, SyncInv, NotRead
<1> QED BY <1>1, <1>3, <1>4 DEF InSync

\* What the server sends is for an extent after the one that failed.
LEMMA ServingLate ==
  ASSUME Inv, Base, Streams, NEW c \in Calls, srv.c = c, ServingStep, link[c] = "open"
  PROVE  LateInv(c)'
<1>1. /\ srv.pc \in {"open", "chunk", "data", "except", "last"}
      /\ srv'.k = srv.k /\ call' = call
      /\ srv'.pc = "except" =>
           s2c' = s2c /\ failed'[c] = IF failed[c] = 0 THEN srv.k ELSE failed[c]
      /\ srv'.pc # "except" => failed' = failed
  BY ServingSteps
<1>2. Serving(c) /\ BaseInv(c) /\ StreamInv(c)
  BY <1>1 DEF Serving, CmdRead, Base, Streams
<1>3. /\ call[c].pc \in {"req", "hdr", "data"}
      /\ failed[c] = 0 => Together(c) /\ InSync(c)
  BY <1>1, <1>2, ServingPlace
<1>4. /\ Asked(c) \in Nat /\ srv.k \in 1..Asked(c) /\ srv.ext = Bv(c)[srv.k] /\ srv.ext \in Extent
  BY <1>2, InHand
<1>5. Bv(c)' = Bv(c) /\ Asked(c)' = Asked(c) /\ call[c].k \in Nat
  BY <1>1, <1>3, CallFields DEF Bv, Asked
<1> SUFFICES ASSUME failed'[c] # 0, failed'[c] < call[c].k PROVE LateInv(c)'
  BY <1>1 DEF LateInv
<1>6. failed[c] # 0 /\ failed'[c] = failed[c] /\ failed[c] \in Nat
  <2>1. failed[c] = 0 => srv.k = call[c].k
    BY <1>3 DEF Together
  <2>2. failed[c] # 0
    BY <1>1, <1>4, <1>5, <2>1
  <2> QED BY <1>1, <2>2 DEF Inv, TypeOK
<1>7. /\ \A p \in 1..Len(s2c[c]) : s2c[c][p].t = "n" => Later(c, s2c[c][p].off)
      /\ call[c].pc = "data" => Later(c, call[c].off)
  BY <1>1, <1>2, <1>3, <1>6 DEF StreamInv, LateInv, Active
<1>8. \A o : Later(c, o)' <=> Later(c, o)
  BY <1>5, <1>6 DEF Later
<1>9. \A p \in 1..Len(s2c'[c]) : s2c'[c][p].t = "n" => Later(c, s2c'[c][p].off)
  <2>1. s2c[c] \in Seq(Items)
    BY DEF Inv, TypeOK, Items
  <2>2. CASE s2c' = s2c
    BY <1>7, <2>2
  <2>3. ASSUME NEW d \in Seq(Items), ServerSend(d),
               \A q \in 1..Len(d) : d[q].t = "n" => Later(c, d[q].off)
        PROVE  \A p \in 1..Len(s2c'[c]) : s2c'[c][p].t = "n" => Later(c, s2c'[c][p].off)
    <3>1. s2c'[c] = s2c[c] \o d
      BY <2>3, ServingSteps, ServerSends
    <3>2. /\ Len(s2c[c] \o d) = Len(s2c[c]) + Len(d) /\ Len(s2c[c]) \in Nat /\ Len(d) \in Nat
          /\ \A q \in 1..Len(s2c[c]) : (s2c[c] \o d)[q] = s2c[c][q]
          /\ \A q \in Len(s2c[c]) + 1..Len(s2c[c]) + Len(d) : (s2c[c] \o d)[q] = d[q - Len(s2c[c])]
      BY <2>1, <2>3, EndPlaces
    <3> SUFFICES ASSUME NEW p \in 1..Len(s2c'[c]), s2c'[c][p].t = "n"
                 PROVE  Later(c, s2c'[c][p].off)
      OBVIOUS
    <3>3. CASE p <= Len(s2c[c])
      BY <1>7, <3>1, <3>2, <3>3
    <3>4. CASE p > Len(s2c[c])
      <4> DEFINE a == Len(s2c[c])
                 b == Len(d)
      <4>1. a \in Nat /\ b \in Nat /\ p \in 1..a + b /\ p > a
        BY <3>1, <3>2, <3>4
      <4> HIDE DEF a, b
      <4>2. p - a \in 1..b /\ p \in a + 1..a + b
        BY <4>1
      <4>3. s2c'[c][p] = d[p - a]
        BY <3>1, <3>2, <4>2 DEF a, b
      <4> QED BY <2>3, <4>2, <4>3 DEF b
    <3> QED BY <3>2, <3>3, <3>4, <3>1
  <2>4. CASE OpenFile \/ ChunksDone \/ OpenFails \/ ReadFails \/ SendRaisesInTry
    BY <2>2, <2>4 DEF OpenFile, ChunksDone, OpenFails, ReadFails, SendRaisesInTry, ToExcept
  <2>5. CASE SendError \/ SendLast
    <3>1. PICK h \in HeaderItem : ServerSend(<<h>>) /\ h.t # "n"
      <4>1. Header("e", srv.off, 0) \in HeaderItem /\ Header("l", srv.off, srv.ext.cnt) \in HeaderItem
        <5>1. srv.off \in Nat /\ srv.ext \in Extent
          BY <1>1, ServerLocals DEF Inv
        <5> QED BY <5>1 DEF Header, HeaderItem, Extent
      <4>2. Header("e", srv.off, 0).t # "n" /\ Header("l", srv.off, srv.ext.cnt).t # "n"
        BY DEF Header
      <4> QED BY <2>5, <4>1, <4>2 DEF SendError, SendLast
    <3>2. <<h>> \in Seq(Items) /\ \A q \in 1..Len(<<h>>) : <<h>>[q].t # "n"
      BY <3>1 DEF Items
    <3> QED BY <2>3, <3>1, <3>2
  <2>6. CASE SendChunkHeader
    <3> DEFINE h == Header("n", srv.off, Len(ChunkData))
    <3>1. ServerSend(<<h>>) /\ srv.pc = "chunk"
      BY <2>6 DEF SendChunkHeader, SrvAt
    <3>2. Later(c, srv.off)
      <4>1. srv.off = srv.ext.off + srv.i /\ srv.i \in Nat /\ srv.ext.off \in Nat
        BY <1>1, <3>1, ServerLocals DEF Streams, OffsetInv, Inv, Extent
      <4>2. srv.k > failed[c]
        BY <1>2, <1>6, <3>1 DEF BaseInv, FailInv
      <4>3. srv.k \in failed[c] + 1..Asked(c)
        BY <1>4, <1>6, <4>2
      <4>4. Bv(c)[srv.k].off <= srv.off
        BY <1>4, <4>1
      <4> QED BY <4>3, <4>4 DEF Later
    <3>3. h \in HeaderItem /\ h.off = srv.off
      <4>1. srv.off \in Nat /\ Len(ChunkData) \in Nat
        BY <1>1, <2>6, ServerLocals, ChunkDataType DEF Inv, SendChunkHeader, SrvAt
      <4> QED BY <4>1 DEF Header, HeaderItem
    <3> HIDE DEF h
    <3>4. <<h>> \in Seq(Items) /\ \A q \in 1..Len(<<h>>) : <<h>>[q].off = srv.off
      BY <3>3 DEF Items
    <3> QED BY <2>3, <3>1, <3>2, <3>4
  <2>7. CASE SendChunkData
    <3>1. ChunkData \in Seq(DataItem) /\ \A q \in 1..Len(ChunkData) : ChunkData[q].t = "d"
      BY <2>7, ChunkDataType DEF Inv, InChunk, SendChunkData, SrvAt
    <3>2. ChunkData \in Seq(Items)
      BY <3>1 DEF Items
    <3>3. ServerSend(ChunkData)
      BY <2>7 DEF SendChunkData
    <3> QED BY <2>3, <3>1, <3>2, <3>3
  <2> QED BY <2>4, <2>5, <2>6, <2>7 DEF ServingStep
<1> QED BY <1>1, <1>6, <1>7, <1>8, <1>9 DEF LateInv

LEMMA PushHas ==
  ASSUME NEW s \in Seq(Items), NEW h \in HeaderItem
  PROVE  \A t : Has(s \o <<h>>, t) <=> Has(s, t) \/ h.t = t
<1>1. <<h>> \in Seq(Items) /\ Len(<<h>>) = 1 /\ <<h>>[1] = h
  BY DEF Items
<1> DEFINE r == s \o <<h>>
<1>2. /\ Len(r) = Len(s) + 1 /\ Len(s) \in Nat
      /\ \A q \in 1..Len(s) : r[q] = s[q]
  BY <1>1, EndPlaces
<1>3. r[Len(s) + 1] = h
  BY <1>1
<1> SUFFICES ASSUME NEW t PROVE Has(r, t) <=> Has(s, t) \/ h.t = t
  OBVIOUS
<1> HIDE DEF r
<1>4. Has(s, t) => Has(r, t)
  <2> SUFFICES ASSUME NEW p \in 1..Len(s), s[p].t = t PROVE Has(r, t)
    BY DEF Has
  <2>1. p \in 1..Len(r) /\ r[p].t = t
    BY <1>2
  <2> QED BY <2>1 DEF Has
<1>5. h.t = t => Has(r, t)
  <2>1. Len(s) + 1 \in 1..Len(r)
    BY <1>2
  <2> QED BY <1>3, <2>1 DEF Has
<1>6. Has(r, t) => Has(s, t) \/ h.t = t
  <2> SUFFICES ASSUME NEW p \in 1..Len(r), r[p].t = t PROVE Has(s, t) \/ h.t = t
    BY DEF Has
  <2>1. p \in 1..Len(s) \/ p = Len(s) + 1
    BY <1>2
  <2> QED BY <1>2, <1>3, <2>1 DEF Has
<1> QED BY <1>4, <1>5, <1>6

\* Every header that the server sends keeps a call in step that was.
LEMMA SendsHeader ==
  ASSUME Inv, Streams, NEW c \in Calls, srv.c = c, link[c] = "open",
         InSync(c), Together(c), NEW h \in HeaderItem, ServerSend(<<h>>), call' = call,
         srv'.c = srv.c, srv'.k = srv.k, srv'.pc \in {"data", "last", "verbose"},
         failed' = failed,
         ~Has(s2c[c], "l"), h.t # "l" => ~Has(s2c[c], "e"),
         h.t = "e" => failed[c] = call[c].k,
         h.t = "l" => srv'.pc # "last",
         h.t = "n" <=> srv'.pc = "data",
         h.t = "n" =>
           /\ srv.pc = "chunk" /\ srv.i < srv.ext.cnt
           /\ srv' = [srv EXCEPT !.pc = "data"]
           /\ h = Header("n", srv.off, Len(ChunkData)) /\ Len(ChunkData) \in Nat
           /\ srv.ext = Current(c)
  PROVE  SyncInv(c)'
<1> DEFINE s == s2c[c]
           e == Current(c)
           r == s \o <<h>>
           n == call[c].count
<1>1. /\ SyncInv(c) /\ s \in Seq(Items) /\ s2c'[c] = r
      /\ call[c].pc # "idle" /\ call[c].pc \in {"hdr", "data"}
  BY ServerSends DEF Streams, StreamInv, Inv, TypeOK, Items, InSync
<1>2. /\ n \in Int /\ e \in Extent /\ Left(c) \in Nat /\ srv.k = call[c].k
      /\ Framing(s, Left(c)) /\ Ahead(e, s, n)
  <2>1. call[c].k \in 1..Len(Bv(c)) /\ Bv(c) \in Seq(Extent) /\ call[c].l \in Nat
    BY <1>1, CallFields DEF Inv, CallInv, AtExtent, Bv
  <2> QED BY <1>1, <2>1, CallFields DEF Current, Bv, SyncInv, Left, Together
<1>3. Current(c)' = e /\ Left(c)' = Left(c) /\ Serving(c)'
  BY DEF Current, Left, Serving, CmdRead
<1>4. h.t = "n" =>
        /\ h.off = srv.off /\ h.len = Len(ChunkData)
        /\ Frontier = srv.off /\ Frontier' = srv.off + Len(ChunkData) /\ srv.off \in Nat
        /\ ChunkData' = ChunkData /\ srv'.off = srv.off
        /\ srv.off < e.off + e.cnt
  <2> SUFFICES ASSUME h.t = "n"
               PROVE  /\ h.off = srv.off /\ h.len = Len(ChunkData)
                      /\ Frontier = srv.off /\ Frontier' = srv.off + Len(ChunkData)
                      /\ srv.off \in Nat
                      /\ ChunkData' = ChunkData /\ srv'.off = srv.off
                      /\ srv.off < e.off + e.cnt
    OBVIOUS
  <2>1. /\ srv \in [pc : {"open", "chunk", "data", "except", "last", "verbose"},
            c : Calls, k : Nat \ {0}, n : Nat, ext : Extent, off : Nat,
            i : Nat, bound : BOOLEAN]
        /\ srv.off \in Nat /\ srv.i \in Nat
    BY ServerLocals DEF Inv
  <2>2. /\ srv'.off = srv.off /\ srv'.i = srv.i /\ srv'.ext = srv.ext /\ srv'.pc = "data"
    BY <2>1
  <2>3. ChunkData' = ChunkData
    BY <2>2 DEF ChunkData, ChunkAddr, ChunkLen, FileRead
  <2>4. h.off = srv.off /\ h.len = Len(ChunkData)
    BY DEF Header
  <2>5. srv.off < e.off + e.cnt
    <3> DEFINE x == e.off
               y == e.cnt
               i == srv.i
    <3>1. srv.off = x + i /\ i < y /\ x \in Nat /\ y \in Nat /\ i \in Nat
      BY <1>2, <2>1 DEF Streams, OffsetInv, Extent
    <3> HIDE DEF x, y, i
    <3>2. srv.off < x + y
      BY <3>1
    <3> QED BY <3>2 DEF x, y
  <2>6. Frontier = srv.off
    BY <2>1 DEF Frontier
  <2>7. Frontier' = srv.off + Len(ChunkData)
    BY <2>2, <2>3 DEF Frontier
  <2> QED BY <2>1, <2>2, <2>3, <2>4, <2>5, <2>6, <2>7
<1>5. h.t = "n" =>
        /\ e.off + e.cnt <= n + srv.off
        /\ \A p \in 1..Len(s) : s[p].t = "n" => s[p].off + s[p].len <= srv.off
  BY <1>4 DEF Together
<1> HIDE DEF e, s, r, n
<1>6. Framing(r, Left(c))
  BY <1>1, <1>2, PushItem DEF r, s
<1>7. Ahead(e, r, n)
  BY <1>1, <1>2, <1>4, <1>5, PushAhead DEF r
<1>8. Has(r, "e") => failed[c] = call[c].k
  BY <1>1, PushHas DEF SyncInv, r, s
<1>9. Together(c)'
  <2>1. \A t : Has(r, t) <=> Has(s, t) \/ h.t = t
    BY <1>1, PushHas DEF r
  <2>2. srv'.pc = "last" => ~Has(r, "l")
    BY <2>1 DEF s
  <2>3. CASE srv'.pc # "data"
    BY <1>1, <1>2, <1>3, <2>2, <2>3 DEF Together
  <2>4. CASE srv'.pc = "data"
    <3>1. ~Has(r, "e") /\ ~Has(r, "l")
      BY <2>1, <2>4 DEF s
    <3>2. /\ Len(r) = Len(s) + 1 /\ Len(s) \in Nat /\ \A q \in 1..Len(s) : r[q] = s[q]
          /\ r[Len(r)] = h
      <4>1. <<h>> \in Seq(Items) /\ Len(<<h>>) = 1 /\ <<h>>[1] = h
        BY DEF Items
      <4>2. /\ r \in Seq(Items) /\ Len(r) = Len(s) + 1 /\ Len(s) \in Nat
            /\ \A q \in 1..Len(s) : r[q] = s[q]
        BY <1>1, <4>1, EndPlaces DEF r
      <4>3. r[Len(s) + 1] = h
        BY <1>1, <4>1 DEF r
      <4> QED BY <4>2, <4>3
    <3>3. e.off + e.cnt <= n + Frontier'
      <4> DEFINE x == e.off + e.cnt
                 a == srv.off
                 b == Len(ChunkData)
      <4>1. x \in Nat /\ a \in Nat /\ b \in Nat /\ x <= n + a /\ Frontier' = a + b
        BY <1>2, <1>4, <1>5, <2>4 DEF Extent
      <4> HIDE DEF x, a, b
      <4>2. x <= n + (a + b)
        BY <1>2, <4>1
      <4> QED BY <4>1, <4>2 DEF x
    <3>4. \A p \in 1..Len(r) : r[p].t = "n" => r[p].off + r[p].len <= Frontier'
      <4> SUFFICES ASSUME NEW p \in 1..Len(r), r[p].t = "n"
                   PROVE  r[p].off + r[p].len <= Frontier'
        OBVIOUS
      <4> DEFINE x == r[p].off
                 y == r[p].len
                 a == srv.off
                 b == Len(ChunkData)
      <4>1. a \in Nat /\ b \in Nat /\ Frontier' = a + b
        BY <1>4, <2>4
      <4>2. CASE p = Len(r)
        <5>1. x = a /\ y = b
          BY <1>4, <2>4, <3>2, <4>2
        <5> HIDE DEF x, y, a, b
        <5>2. x + y <= Frontier'
          BY <4>1, <5>1
        <5> QED BY <5>2 DEF x, y
      <4>3. CASE p # Len(r)
        <5>1. p \in 1..Len(s) /\ r[p] = s[p]
          BY <3>2, <4>3
        <5>2. x \in Nat /\ y \in Nat /\ x + y <= a
          BY <1>1, <1>5, <2>4, <5>1, ItemFields
        <5> HIDE DEF x, y, a, b
        <5>3. x + y <= Frontier'
          BY <4>1, <5>2
        <5> QED BY <5>3 DEF x, y
      <4> QED BY <4>2, <4>3
    <3>5. Pending(s2c[c], Left(c), call[c].off)'
      <4>1. r # <<>> /\ r[Len(r)] = Header("n", srv'.off, Len(ChunkData'))
        <5>1. r # <<>>
          BY <1>1, <3>2
        <5> QED BY <1>4, <2>4, <3>2, <5>1
      <4> QED BY <1>1, <4>1 DEF Pending
    <3> QED BY <1>1, <1>2, <1>3, <2>4, <3>1, <3>3, <3>4, <3>5 DEF Together, n
  <2> QED BY <2>3, <2>4
<1> QED BY <1>1, <1>3, <1>6, <1>7, <1>8, <1>9 DEF SyncInv, n

LEMMA ChunkDataLen ==
  ASSUME TypeOK, srv.pc \in {"chunk", "data"}, srv.i < srv.ext.cnt
  PROVE  /\ ChunkLen \in Nat \ {0} /\ Len(ChunkData) \in Nat /\ Len(ChunkData) <= ChunkLen
         /\ Len(ChunkData) = LesserOf(ChunkLen, GreaterOf(0, Length[srv.ext.dev] - ChunkAddr))
         /\ \A q \in 1..Len(ChunkData) : ChunkData[q] = Data(<<srv.ext.dev, ChunkAddr + q - 1>>)
<1> DEFINE l == ChunkLen
           a == ChunkAddr
           d == srv.ext.dev
           n == LesserOf(l, GreaterOf(0, Length[d] - a))
<1>1. /\ srv.ext \in Extent /\ srv.off \in Nat /\ srv.i \in Nat
  BY ServerLocals
<1>2. l \in Nat \ {0} /\ a \in Nat /\ Length[d] \in Nat
  BY <1>1, ConstantsAssumption, SMTT(30) DEF ChunkLen, ChunkAddr, LesserOf, Extent
<1>3. ChunkData = [i \in 1..n |-> Data(<<d, a + i - 1>>)]
  BY DEF ChunkData, FileRead
<1>4. n \in Nat /\ n <= l
  <2> DEFINE m == Length[d]
  <2>1. m \in Nat
    BY <1>2
  <2> HIDE DEF l, a, m
  <2> QED BY <1>2, <2>1 DEF LesserOf, GreaterOf, m
<1>5. Len(ChunkData) = n
  <2> HIDE DEF n
  <2> QED BY <1>3, <1>4
<1>6. \A q \in 1..n : ChunkData[q] = Data(<<d, a + q - 1>>)
  <2> HIDE DEF n, a, d
  <2> QED BY <1>3
<1> QED BY <1>2, <1>4, <1>5, <1>6

\* So does the data of a chunk.
LEMMA SendsData ==
  ASSUME Inv, Streams, NEW c \in Calls, srv.c = c, link[c] = "open",
         InSync(c), Together(c), SendChunkData, srv.ext = Current(c)
  PROVE  SyncInv(c)'
<1> DEFINE s == s2c[c]
           e == Current(c)
           d == ChunkData
           r == s \o d
           n == call[c].count
<1>1. /\ SyncInv(c) /\ s \in Seq(Items) /\ call' = call /\ failed' = failed
      /\ call[c].pc # "idle" /\ call[c].pc \in {"hdr", "data"} /\ srv.pc = "data"
  BY DEF Streams, StreamInv, Inv, TypeOK, Items, InSync, SendChunkData, SrvAt
<1>2. /\ n \in Int /\ e \in Extent /\ Left(c) \in Nat /\ srv.k = call[c].k
      /\ Framing(s, Left(c)) /\ Ahead(e, s, n)
  <2>1. call[c].k \in 1..Len(Bv(c)) /\ Bv(c) \in Seq(Extent) /\ call[c].l \in Nat
    BY <1>1, CallFields DEF Inv, CallInv, AtExtent, Bv
  <2> QED BY <1>1, <2>1, CallFields DEF Current, Bv, SyncInv, Left, Together
<1>3. /\ srv'.pc = "chunk" /\ srv'.c = c /\ srv'.k = srv.k
      /\ srv'.off = srv.off + ChunkLen
      /\ srv.off \in Nat /\ srv.i \in Nat /\ srv.ext \in Extent
  <2>1. /\ srv \in [pc : {"open", "chunk", "data", "except", "last", "verbose"},
            c : Calls, k : Nat \ {0}, n : Nat, ext : Extent, off : Nat,
            i : Nat, bound : BOOLEAN]
        /\ srv.off \in Nat /\ srv.i \in Nat /\ srv.ext \in Extent
    BY <1>1, ServerLocals DEF Inv
  <2> QED BY <2>1 DEF SendChunkData
<1>4. /\ d \in Seq(Items) /\ \A q \in 1..Len(d) : d[q].t = "d"
  <2>1. d \in Seq(DataItem) /\ \A q \in 1..Len(d) : d[q].t = "d"
    BY <1>1, ChunkDataType DEF Inv, InChunk
  <2> QED BY <2>1 DEF Items
<1>5. /\ Current(c)' = e /\ Left(c)' = Left(c) /\ Serving(c)' /\ s2c'[c] = r
  BY <1>1, <1>3, ServerSends DEF Current, Left, Serving, CmdRead, SendChunkData
<1>6. /\ Pending(s, Left(c), call[c].off) /\ ~Has(s, "e") /\ ~Has(s, "l")
      /\ e.off + e.cnt <= n + Frontier
      /\ \A p \in 1..Len(s) : s[p].t = "n" => s[p].off + s[p].len <= Frontier
  BY <1>1 DEF Together
<1>7. /\ Frontier \in Nat /\ Frontier' \in Nat /\ Frontier <= Frontier'
  <2> DEFINE a == srv.off
             b == ChunkLen
             m == Len(d)
  <2>2. b \in Nat /\ a \in Nat
    BY <1>1, <1>3, ChunkDataLen DEF Inv, InChunk
  <2>3. m \in Nat /\ m <= b
    BY <1>1, <1>3, <2>2, ChunkDataLen DEF Inv, InChunk
  <2>4. Frontier = a + m
    BY <1>1 DEF Frontier
  <2>5. Frontier' = a + b
    <3>1. srv'.off \in Nat /\ srv'.off = a + b
      <4> HIDE DEF b
      <4> QED BY <1>3, <2>2 DEF b
    <3> HIDE DEF a, b
    <3> QED BY <1>3, <3>1 DEF Frontier
  <2>1. Frontier = a + m /\ Frontier' = a + b
    BY <2>4, <2>5
  <2> HIDE DEF a, b, m
  <2> QED BY <2>1, <2>2, <2>3
<1> HIDE DEF e, s, r, n, d
<1>8. /\ Framing(r, Left(c)) /\ ~Has(r, "e") /\ ~Has(r, "l") /\ Ahead(e, r, n)
  <2>1. \/ s # <<>> /\ s[Len(s)].t = "n" /\ s[Len(s)].len = Len(d)
        \/ s = <<>> /\ Left(c) = Len(d)
    BY <1>6 DEF Pending, Header, d
  <2> QED BY <1>1, <1>2, <1>4, <1>6, <2>1, PushData DEF r
<1>9. \A p \in 1..Len(r) : r[p].t = "n" => r[p].off + r[p].len <= Frontier'
  <2> SUFFICES ASSUME NEW p \in 1..Len(r), r[p].t = "n"
               PROVE  r[p].off + r[p].len <= Frontier'
    OBVIOUS
  <2>1. /\ Len(r) = Len(s) + Len(d) /\ Len(s) \in Nat /\ Len(d) \in Nat
        /\ \A q \in 1..Len(s) : r[q] = s[q]
        /\ \A q \in Len(s) + 1..Len(s) + Len(d) : r[q] = d[q - Len(s)]
    BY <1>1, <1>4, EndPlaces DEF r
  <2>2. p \in 1..Len(s)
    <3> SUFFICES ASSUME p \notin 1..Len(s) PROVE FALSE
      OBVIOUS
    <3> DEFINE a == Len(s)
               b == Len(d)
    <3>1. p \in 1..a + b /\ p \notin 1..a /\ a \in Nat /\ b \in Nat
      BY <2>1
    <3> HIDE DEF a, b
    <3>2. p \in a + 1..a + b /\ p - a \in 1..b
      BY <3>1
    <3>3. r[p] = d[p - a]
      BY <2>1, <3>2 DEF a, b
    <3> QED BY <1>4, <3>2, <3>3 DEF b
  <2> DEFINE x == r[p].off
             y == r[p].len
  <2>3. x \in Nat /\ y \in Nat /\ x + y <= Frontier
    BY <1>1, <1>6, <2>1, <2>2, ItemFields
  <2> HIDE DEF x, y
  <2>4. x + y <= Frontier'
    BY <1>7, <2>3
  <2> QED BY <2>4 DEF x, y
<1>10. e.off + e.cnt <= n + Frontier'
  <2> DEFINE x == e.off + e.cnt
             f == Frontier
             g == Frontier'
  <2>1. x \in Nat /\ n \in Int /\ x <= n + f
    BY <1>2, <1>6 DEF Extent
  <2>2. f \in Nat /\ g \in Nat /\ f <= g
    BY <1>7
  <2> HIDE DEF x, f, g
  <2>3. x <= n + g
    BY <2>1, <2>2
  <2> QED BY <2>3 DEF x, g
<1>11. Together(c)'
  BY <1>1, <1>2, <1>3, <1>5, <1>8, <1>9, <1>10 DEF Together, n
<1> QED BY <1>1, <1>2, <1>5, <1>8, <1>11 DEF SyncInv, n

\* The steps that send nothing.
LEMMA SendsNothing ==
  ASSUME Inv, Streams, NEW c \in Calls, srv.c = c, link[c] = "open",
         InSync(c), Together(c),
         OpenFile \/ ChunksDone \/ OpenFails \/ ReadFails \/ SendRaisesInTry
  PROVE  SyncInv(c)'
<1>1. /\ SyncInv(c) /\ call' = call /\ s2c' = s2c /\ srv.k = call[c].k
  BY DEF Streams, StreamInv, OpenFile, ChunksDone, OpenFails, ReadFails, SendRaisesInTry,
     ToExcept, Together
<1>2. /\ srv.pc \in {"open", "chunk", "data"}
      /\ srv'.c = c /\ srv'.k = srv.k /\ srv'.off = srv.off
      /\ srv'.pc \in {"chunk", "last", "except"}
      /\ srv'.pc = "chunk" => srv.pc = "open"
      /\ failed' = failed \/ failed'[c] = call[c].k
  <2>1. srv.pc \in {"open", "chunk", "data"}
    BY DEF OpenFile, ChunksDone, OpenFails, ReadFails, SendRaisesInTry, SrvAt
  <2>2. srv \in [pc : {"open", "chunk", "data", "except", "last", "verbose"},
            c : Calls, k : Nat \ {0}, n : Nat, ext : Extent, off : Nat,
            i : Nat, bound : BOOLEAN]
    BY <2>1, ServerLocals DEF Inv
  <2>3. CASE OpenFile \/ ChunksDone
    BY <2>1, <2>2, <2>3 DEF OpenFile, ChunksDone, SrvAt
  <2>4. CASE OpenFails \/ ReadFails \/ SendRaisesInTry
    <3>1. ToExcept
      BY <2>4 DEF OpenFails, ReadFails, SendRaisesInTry
    <3>2. failed' = failed \/ failed'[c] = srv.k
      BY <3>1 DEF ToExcept, Client, Inv, TypeOK
    <3> QED BY <1>1, <2>1, <2>2, <3>1, <3>2 DEF ToExcept
  <2> QED BY <2>3, <2>4
<1>3. /\ Current(c)' = Current(c) /\ Left(c)' = Left(c) /\ Serving(c)'
      /\ srv'.pc = "chunk" => Frontier' = Frontier
  BY <1>1, <1>2 DEF Current, Left, Serving, CmdRead, Frontier
<1>4. Together(c)'
  BY <1>1, <1>2, <1>3 DEF Together
<1>5. failed'[c] = call[c].k \/ failed' = failed
  BY <1>2
<1> QED BY <1>1, <1>3, <1>4, <1>5 DEF SyncInv

LEMMA ServingSync ==
  ASSUME Inv, Base, Streams, NEW c \in Calls, srv.c = c, ServingStep, link[c] = "open",
         InSync(c)
  PROVE  SyncInv(c)'
<1>1. /\ srv.pc \in {"open", "chunk", "data", "except", "last"}
      /\ srv'.c = srv.c /\ srv'.k = srv.k /\ call' = call
  BY ServingSteps
<1>2. Serving(c) /\ BaseInv(c) /\ StreamInv(c)
  BY <1>1 DEF Serving, CmdRead, Base, Streams
<1>3. Together(c)
  BY <1>1, <1>2, ServingPlace
<1>4. srv.ext = Current(c) /\ srv.ext \in Extent /\ srv.off \in Nat
  <2>1. srv.ext = Bv(c)[srv.k] /\ srv.ext \in Extent
    BY <1>2, InHand
  <2> QED BY <1>1, <1>3, <2>1, ServerLocals DEF Together, Current, Bv, Inv
<1>5. CASE OpenFile \/ ChunksDone \/ OpenFails \/ ReadFails \/ SendRaisesInTry
  BY <1>3, <1>5, SendsNothing
<1>6. CASE SendChunkData
  BY <1>3, <1>4, <1>6, SendsData
<1>7. CASE SendChunkHeader
  <2> DEFINE h == Header("n", srv.off, Len(ChunkData))
  <2>1. /\ srv.pc = "chunk" /\ srv.i < srv.ext.cnt /\ ServerSend(<<h>>)
        /\ srv' = [srv EXCEPT !.pc = "data"] /\ failed' = failed
    BY <1>7 DEF SendChunkHeader, SrvAt
  <2>2. Len(ChunkData) \in Nat
    BY <2>1, ChunkDataLen DEF Inv
  <2>3. h \in HeaderItem /\ h.t = "n" /\ h = Header("n", srv.off, Len(ChunkData))
    <3> DEFINE x == Len(ChunkData)
               y == srv.off
    <3>1. x \in Nat /\ y \in Nat
      BY <1>4, <2>2
    <3> HIDE DEF x, y
    <3>2. Header("n", y, x) \in HeaderItem /\ Header("n", y, x).t = "n"
      BY <3>1 DEF Header, HeaderItem
    <3> QED BY <3>2 DEF x, y
  <2>4. ~Has(s2c[c], "l") /\ ~Has(s2c[c], "e")
    BY <1>3, <2>1 DEF Together
  <2>5. srv'.pc = "data"
    BY <1>1, <2>1, ServerLocals DEF Inv
  <2> HIDE DEF h
  <2> QED BY <1>1, <1>3, <1>4, <2>1, <2>2, <2>3, <2>4, <2>5, SendsHeader
<1>8. CASE SendError
  <2> DEFINE h == Header("e", srv.off, 0)
  <2>1. srv.pc = "except" /\ ServerSend(<<h>>) /\ failed' = failed
    BY <1>8 DEF SendError, SrvAt
  <2>2. h \in HeaderItem /\ h.t = "e"
    BY <1>4 DEF Header, HeaderItem
  <2>3. ~Has(s2c[c], "l") /\ ~Has(s2c[c], "e")
    BY <1>3, <2>1 DEF Together
  <2>4. srv'.pc = "last"
    BY <1>1, <1>8, ServerLocals DEF Inv, SendError
  <2>5. failed[c] = call[c].k
    BY <1>2, <2>1 DEF BaseInv, FailInv, InSync
  <2> HIDE DEF h
  <2> QED BY <1>1, <1>3, <2>1, <2>2, <2>3, <2>4, <2>5, SendsHeader
<1>9. CASE SendLast
  <2> DEFINE h == Header("l", srv.off, srv.ext.cnt)
  <2>1. srv.pc = "last" /\ ServerSend(<<h>>) /\ failed' = failed
    BY <1>9 DEF SendLast, SrvAt
  <2>2. h \in HeaderItem /\ h.t = "l"
    BY <1>4 DEF Header, HeaderItem, Extent
  <2>3. ~Has(s2c[c], "l")
    BY <1>3, <2>1 DEF Together
  <2>4. srv'.pc = "verbose"
    BY <1>1, <1>9, ServerLocals DEF Inv, SendLast
  <2> HIDE DEF h
  <2> QED BY <1>1, <1>3, <2>1, <2>2, <2>3, <2>4, SendsHeader
<1> QED BY <1>5, <1>6, <1>7, <1>8, <1>9 DEF ServingStep

LEMMA ServingStream ==
  ASSUME Inv, Base, Streams, NEW c \in Calls, srv.c = c, ServingStep
  PROVE  StreamInv(c)'
<1>1. /\ srv.pc \in {"open", "chunk", "data", "except", "last"}
      /\ srv'.k = srv.k /\ call' = call
      /\ srv'.pc = "except" => failed'[c] = IF failed[c] = 0 THEN srv.k ELSE failed[c]
      /\ srv'.pc # "except" => failed' = failed
  BY ServingSteps
<1>2. Serving(c) /\ BaseInv(c) /\ StreamInv(c) /\ CmdRead(c)
  BY <1>1 DEF Serving, CmdRead, Base, Streams
<1>3. CASE link[c] # "open"
  <2>1. link[c] \in {"cfin", "crst"}
    BY <1>2, <1>3 DEF BaseInv, LinkInv
  <2>2. call'[c].pc \in Ended
    BY <1>1, <1>2, <2>1 DEF BaseInv, LinkInv
  <2> QED BY <2>2, ClosedStream
<1>4. CASE link[c] = "open"
  <2>1. /\ call[c].pc \in {"req", "hdr", "data"}
        /\ call[c].pc = "req" => failed[c] # 0
        /\ failed[c] = 0 => InSync(c) /\ Together(c)
    BY <1>1, <1>2, <1>4, ServingPlace
  <2>2. srv.k # 0 /\ srv.k \in Nat
    BY <1>1, ServerLocals DEF Inv
  <2>3. call'[c].pc = "req" => failed'[c] # 0
    BY <1>1, <2>1, <2>2
  <2>4. InSync(c)' => InSync(c)
    BY <1>1, <2>1 DEF InSync
  <2>5. SyncInv(c)'
    <3>1. CASE InSync(c)
      BY <1>4, <3>1, ServingSync
    <3>2. CASE ~InSync(c)
      BY <2>4, <3>2 DEF SyncInv
    <3> QED BY <3>1, <3>2
  <2>6. AskInv(c)'
    BY <1>1, <2>1, <2>3 DEF AskInv
  <2>7. LateInv(c)'
    BY <1>4, ServingLate
  <2> QED BY <2>5, <2>6, <2>7 DEF StreamInv
<1> QED BY <1>3, <1>4

LEMMA StreamStep == Inv /\ Base /\ Streams /\ [Next]_vars => Streams'
<1> SUFFICES ASSUME Inv, Base, Streams, [Next]_vars PROVE Streams'
  OBVIOUS
<1>1. OffsetInv'
  BY OffsetStep DEF Streams
<1> SUFFICES ASSUME NEW d \in Calls PROVE StreamInv(d)'
  BY <1>1 DEF Streams
<1>2. StreamInv(d)
  BY DEF Streams
<1>3. ASSUME NEW c \in Calls, (\E j \in Jobs : Connect(c, j)) \/ ClientStep(c) \/ Die(c)
      PROVE  StreamInv(d)'
  <2>1. CASE d # c
    BY <1>2, <1>3, <2>1, ClientElsewhere, StreamFrame
  <2>2. CASE d = c
    <3>1. CASE \E j \in Jobs : Connect(c, j)
      BY <2>2, <3>1, ConnectStream
    <3>2. CASE SendCmd(c) \/ SendReq(c)
      BY <2>2, <3>2, SendStream
    <3>3. CASE RecvEnd(c) \/ RecvNext(c) \/ RecvData(c)
               \/ (RecvGarbage(c) /\ call'[c].pc # "raised")
      BY <2>2, <3>3, ReceivingLate, ReceivingInSync
    <3>4. CASE TooManyBlocks(c) \/ BufferTooSmall(c) \/ PeerReset(c) \/ Return(c) \/ Die(c)
               \/ (RecvGarbage(c) /\ call'[c].pc = "raised")
      <4>1. PICK p \in Ended : Closes(c, p) /\ call[c].pc \in Active
        BY <3>4, ClosingSteps
      <4>2. call'[c].pc = p
        <5>1. call[c].pc # "idle"
          BY <4>1 DEF Active
        <5> QED BY <4>1, <5>1, ClosesEffect DEF Closes
      <4> QED BY <2>2, <4>1, <4>2, ClosedStream
    <3> QED BY <1>3, <3>1, <3>2, <3>3, <3>4 DEF ClientStep
  <2> QED BY <2>1, <2>2
<1>4. CASE ServerStep
  <2>1. CASE srv.c # d /\ srv'.c # d
    BY <1>2, <1>4, <2>1, ServerElsewhere, StreamFrame
  <2>2. CASE srv.c = d \/ srv'.c = d
    <3>1. CASE Accept
      <4>1. srv.c # d
        BY <3>1, ConstantsAssumption DEF Accept, SrvAt, Inv, TypeOK, ServerState
      <4> QED BY <2>2, <3>1, <4>1, StartingStream
    <3>2. srv.c = d \/ Accept
      BY <1>4, <2>2, ServerClient
    <3>3. CASE srv.c = d
      BY <1>4, <3>1, <3>3, StartingStream, ReadReqStream, EndingStream, ServingStream, ReportStream
         DEF ServerStep, ServingStep
    <3> QED BY <3>1, <3>2, <3>3
  <2> QED BY <2>1, <2>2
<1>5. CASE RestartServer
  BY <1>5, EndingStream
<1>6. CASE UNCHANGED vars
  <2>1. Elsewhere(d)
    BY <1>6 DEF vars, Elsewhere
  <2> QED BY <1>2, <2>1, StreamFrame
<1> QED BY <1>3, <1>4, <1>5, <1>6 DEF Next

LEMMA InitStreams == Init => Streams
<1> SUFFICES ASSUME Init PROVE Streams
  OBVIOUS
<1>1. \A c \in Calls : call[c].pc = "idle"
  BY DEF Init, Idle
<1>2. srv.pc = "accept"
  BY DEF Init, IdleServer
<1> QED BY <1>1, <1>2 DEF Streams, OffsetInv, StreamInv, SyncInv, InSync, AskInv, LateInv, Active

LEMMA NothingLeftOver == Inv /\ Base /\ Streams => InStep
<1> SUFFICES ASSUME Inv, Base, Streams, NEW c \in Calls,
                    call[c].pc = "req", call[c].k > 1, failed[c] = 0, link[c] = "open"
             PROVE  /\ s2c[c] = <<>> /\ c2s[c] = <<>>
                    /\ srv.c = c
                    /\ \/ srv.pc = "verbose" /\ srv.k + 1 = call[c].k
                       \/ srv.pc = "req" /\ srv.k = call[c].k
  BY DEF InStep
<1> DEFINE k == call[c].k
           b == Asked(c)
<1>1. BaseInv(c) /\ StreamInv(c)
  BY DEF Base, Streams
<1>2. k \in Nat \ {0} /\ k # 1 /\ Bv(c) \in Seq(Extent) /\ b = k - 1 /\ b \in Nat /\ b + 1 = k
  BY CallFields DEF Asked
<1>3. s2c[c] = <<>> /\ Waits(c, k)
  BY <1>1 DEF StreamInv, AskInv
<1>4. srv.c = c /\ \/ srv.pc = "verbose" /\ srv.k + 1 = k
                   \/ srv.pc = "req" /\ srv.k = k
  BY <1>2, <1>3 DEF Waits
<1>5. CmdRead(c) /\ Unread(c) = k
  BY <1>4 DEF CmdRead, Unread, Serving
<1>6. c2s[c] = Requests(Bv(c), k, b)
  BY <1>1, <1>5 DEF BaseInv, RequestInv, Active
<1>7. b <= Len(Bv(c)) /\ Len(Bv(c)) \in Nat
  BY <1>1, <1>2 DEF BaseInv, PlaceInv, Started, Inv, CallInv
<1>8. Requests(Bv(c), k, b) = <<>>
  <2> HIDE DEF b, k
  <2> QED BY <1>2, <1>7, RequestsUnderWay
<1> QED BY <1>3, <1>4, <1>6, <1>8

(***************************************************************************)
(* The buffers.                                                            *)
(***************************************************************************)

\* How many cells the first chunk of e has.
NFirst(e) == LesserOf(LesserOf(e.cnt, Chunk), GreaterOf(0, Length[e.dev] - e.off))

\* n cells for e from address o on, up to the end of the first chunk or behind it.
Packet(e, o, n) ==
  /\ e.off <= o /\ o + n <= e.off + e.cnt
  /\ o + n = e.off + NFirst(e) \/ o >= e.off + Chunk

\* The cells behind place p of the stream are the n cells of e from o on, unless
\* they are of a later chunk.
Cells(e, s, p, o, n) ==
  \A q \in 1..n : p + q <= Len(s) /\ o < e.off + Chunk => s[p + q] = Data(<<e.dev, o + q - 1>>)

Packets(e, s) ==
  \A p \in 1..Len(s) : s[p].t = "n" =>
    Packet(e, s[p].off, s[p].len) /\ Cells(e, s, p, s[p].off, s[p].len)

----------------------------------------------------------------------------
\* The places of the extents in the buffer

LEMMA StartsGrow ==
  ASSUME NEW bv \in Seq(Extent), NEW a \in 0..Len(bv), NEW b \in 0..Len(bv), a <= b
  PROVE  Starts(bv)[a] <= Starts(bv)[b]
<1> DEFINE N == Len(bv)
           f == Starts(bv)
           S == {n \in Nat : a <= n /\ n <= N => f[a] <= f[n]}
<1>1. f \in [0..N -> Nat] /\ N \in Nat /\ a \in Nat /\ b \in Nat
  BY StartsAre
<1>2. \A k \in 1..N : f[k] = f[k - 1] + bv[k].cnt /\ bv[k].cnt \in Nat
  <2>1. \A k \in 1..N : bv[k] \in Extent
    OBVIOUS
  <2> QED BY <2>1, StartsAre DEF Extent
<1> HIDE DEF f, N
<1>3. 0 \in S
  BY <1>1
<1>4. ASSUME NEW n \in Nat, n \in S PROVE n + 1 \in S
  <2> SUFFICES ASSUME a <= n + 1, n + 1 <= N PROVE f[a] <= f[n + 1]
    OBVIOUS
  <2>1. CASE a = n + 1
    BY <1>1, <2>1
  <2>2. CASE a <= n
    <3>1. n + 1 \in 1..N /\ (n + 1) - 1 = n /\ n \in 0..N /\ a \in 0..N
      BY <1>1, <2>2
    <3>2. f[n + 1] = f[n] + bv[n + 1].cnt /\ bv[n + 1].cnt \in Nat
      BY <1>2, <3>1
    <3>3. f[a] <= f[n]
      BY <1>4, <2>2, <3>1
    <3>4. f[a] \in Nat /\ f[n] \in Nat
      BY <1>1, <3>1
    <3> QED BY <3>2, <3>3, <3>4
  <2> QED BY <1>1, <2>1, <2>2
<1>5. b \in S
  <2> HIDE DEF S
  <2> QED BY <1>1, <1>3, <1>4, NatSetInduction
<1> QED BY <1>1, <1>5 DEF f, N

\* Where the places of an extent are, and of those before and behind it.
LEMMA Places ==
  ASSUME NEW bv \in Seq(Extent), NEW m \in 1..Len(bv)
  PROVE  /\ bv[m] \in Extent /\ bv[m].cnt \in Nat /\ bv[m].off \in Nat
         /\ Starts(bv)[m - 1] \in Nat /\ Starts(bv)[m] \in Nat /\ Total(bv) \in Nat
         /\ Starts(bv)[m] = Starts(bv)[m - 1] + bv[m].cnt
         /\ Starts(bv)[m] <= Total(bv)
         /\ \A b \in 1..Len(bv) : m < b => Starts(bv)[m] <= Starts(bv)[b - 1]
<1>1. bv[m] \in Extent /\ bv[m].cnt \in Nat /\ bv[m].off \in Nat
  <2>1. bv[m] \in Extent
    OBVIOUS
  <2> QED BY <2>1 DEF Extent
<1>2. m \in 0..Len(bv) /\ m - 1 \in 0..Len(bv) /\ Len(bv) \in 0..Len(bv) /\ m <= Len(bv)
      /\ Len(bv) \in Nat
  OBVIOUS
<1>3. Starts(bv) \in [0..Len(bv) -> Nat] /\ Starts(bv)[m] = Starts(bv)[m - 1] + bv[m].cnt
  BY StartsAre
<1>4. Starts(bv)[m] <= Total(bv) /\ Total(bv) \in Nat
  BY <1>2, <1>3, StartsGrow DEF Total
<1>5. ASSUME NEW b \in 1..Len(bv), m < b PROVE Starts(bv)[m] <= Starts(bv)[b - 1]
  <2>1. b - 1 \in 0..Len(bv) /\ m <= b - 1
    BY <1>2, <1>5
  <2> QED BY <1>2, <2>1, StartsGrow
<1> QED BY <1>1, <1>2, <1>3, <1>4, <1>5

LEMMA FirstCells ==
  ASSUME NEW e \in Extent
  PROVE  /\ NFirst(e) \in Nat /\ NFirst(e) <= e.cnt /\ NFirst(e) <= Chunk
         /\ NFirst(e) > 0 => e.off + NFirst(e) <= Length[e.dev]
         /\ \A i \in FirstChunk(e) : /\ i \in Nat /\ i < e.cnt /\ i < Chunk
                                     /\ i >= NFirst(e) => RightCell(e, i) = Zero
         /\ \A i \in 0..NFirst(e) - 1 : /\ i \in FirstChunk(e)
                                        /\ RightCell(e, i) = <<e.dev, e.off + i>>
<1> DEFINE x == e.off
           n == e.cnt
           z == Length[e.dev]
           f == NFirst(e)
<1>1. x \in Nat /\ n \in Nat /\ z \in Nat /\ Chunk \in Nat \ {0}
  BY ConstantsAssumption DEF Extent
<1>2. f = LesserOf(LesserOf(n, Chunk), GreaterOf(0, z - x))
  BY DEF NFirst
<1>3. /\ FirstChunk(e) = 0..(LesserOf(n, Chunk) - 1)
      /\ \A i : RightCell(e, i) = IF x + i < z THEN <<e.dev, x + i>> ELSE Zero
  BY DEF FirstChunk, RightCell
<1> HIDE DEF x, n, z, f
<1>4. f \in Nat /\ f <= n /\ f <= Chunk /\ (f > 0 => x + f <= z)
  BY <1>1, <1>2 DEF LesserOf, GreaterOf
<1>5. ASSUME NEW i \in FirstChunk(e)
      PROVE  i \in Nat /\ i < n /\ i < Chunk /\ (i >= f => RightCell(e, i) = Zero)
  <2>1. i \in Nat /\ i < n /\ i < Chunk
    BY <1>1, <1>3 DEF LesserOf
  <2>2. i >= f => ~(x + i < z)
    BY <1>1, <1>2, <2>1 DEF LesserOf, GreaterOf
  <2> QED BY <1>3, <2>1, <2>2
<1>6. ASSUME NEW i \in 0..f - 1 PROVE i \in FirstChunk(e) /\ RightCell(e, i) = <<e.dev, x + i>>
  <2>1. i \in 0..(LesserOf(n, Chunk) - 1) /\ x + i < z
    BY <1>1, <1>2, <1>4 DEF LesserOf, GreaterOf
  <2> QED BY <1>3, <2>1
<1> QED BY <1>4, <1>5, <1>6 DEF x, n, z, f

\* A packet that begins in the first chunk ends with it, within the file.
LEMMA PacketEnds ==
  ASSUME NEW e \in Extent, NEW o \in Nat, NEW n \in Nat \ {0}, Packet(e, o, n)
  PROVE  /\ o - e.off \in 0..e.cnt - 1
         /\ o - e.off \in FirstChunk(e) =>
              o < e.off + Chunk /\ RightCell(e, o - e.off) = <<e.dev, o>>
<1> DEFINE x == e.off
           y == e.cnt
           f == NFirst(e)
<1>1. x \in Nat /\ y \in Nat /\ f \in Nat /\ Chunk \in Nat \ {0}
  BY FirstCells, ConstantsAssumption DEF Extent
<1>2. x <= o /\ o + n <= x + y /\ (o + n = x + f \/ o >= x + Chunk)
  BY DEF Packet
<1>3. \A i \in FirstChunk(e) : i \in Nat /\ i < Chunk
  BY FirstCells
<1>4. \A i \in 0..f - 1 : RightCell(e, i) = <<e.dev, x + i>>
  BY FirstCells
<1> HIDE DEF x, y, f
<1>5. o - x \in 0..y - 1
  BY <1>1, <1>2
<1>6. ASSUME o - x \in FirstChunk(e) PROVE o < x + Chunk /\ RightCell(e, o - x) = <<e.dev, o>>
  <2>1. o - x \in Nat /\ o - x < Chunk
    BY <1>3, <1>6
  <2>2. o < x + Chunk /\ o - x \in 0..f - 1 /\ x + (o - x) = o
    BY <1>1, <1>2, <2>1
  <2> QED BY <1>4, <2>2
<1> QED BY <1>5, <1>6 DEF x, y

----------------------------------------------------------------------------
\* Taking items off a stream of packets, putting items at its end

LEMMA PopCells ==
  ASSUME NEW s \in Seq(Items), s # <<>>, NEW e, NEW p \in Nat, p # 0, NEW o, NEW n,
         Cells(e, s, p, o, n), n \in Nat
  PROVE  Cells(e, Tail(s), p - 1, o, n)
<1> DEFINE t == Tail(s)
<1> SUFFICES ASSUME NEW q \in 1..n, (p - 1) + q <= Len(t), o < e.off + Chunk
             PROVE  t[(p - 1) + q] = Data(<<e.dev, o + q - 1>>)
  BY DEF Cells
<1>1. /\ Len(t) = Len(s) - 1 /\ Len(s) \in Nat \ {0}
      /\ \A j \in 1..Len(t) : t[j] = s[j + 1]
  BY TailPlaces
<1> HIDE DEF t
<1>2. (p - 1) + q \in 1..Len(t) /\ ((p - 1) + q) + 1 = p + q /\ p + q <= Len(s)
  BY <1>1
<1>3. t[(p - 1) + q] = s[p + q]
  BY <1>1, <1>2
<1> QED BY <1>2, <1>3 DEF Cells

LEMMA PopPackets ==
  ASSUME NEW s \in Seq(Items), s # <<>>, NEW e, Packets(e, s)
  PROVE  /\ Packets(e, Tail(s))
         /\ Head(s).t = "n" => Packet(e, Head(s).off, Head(s).len)
                               /\ Cells(e, Tail(s), 0, Head(s).off, Head(s).len)
<1> DEFINE t == Tail(s)
<1>1. /\ Len(t) = Len(s) - 1 /\ Len(s) \in Nat \ {0}
      /\ \A q \in 1..Len(t) : t[q] = s[q + 1] /\ q + 1 \in 1..Len(s)
      /\ Head(s) = s[1] /\ 1 \in 1..Len(s)
  BY TailPlaces
<1>2. \A p \in 1..Len(s) : s[p].t = "n" => s[p].len \in Nat
  BY ItemFields
<1>3. ASSUME NEW p \in 1..Len(t), t[p].t = "n"
      PROVE  Packet(e, t[p].off, t[p].len) /\ Cells(e, t, p, t[p].off, t[p].len)
  <2>1. p + 1 \in 1..Len(s) /\ t[p] = s[p + 1] /\ p + 1 \in Nat /\ p + 1 # 0 /\ (p + 1) - 1 = p
    BY <1>1
  <2>2. Packet(e, t[p].off, t[p].len) /\ Cells(e, s, p + 1, t[p].off, t[p].len)
    BY <1>3, <2>1 DEF Packets
  <2>3. Cells(e, t, (p + 1) - 1, t[p].off, t[p].len)
    <3> DEFINE a == p + 1
               o == t[p].off
               n == t[p].len
    <3>1. a \in Nat /\ a # 0 /\ Cells(e, s, a, o, n) /\ n \in Nat
      BY <1>2, <1>3, <2>1, <2>2
    <3> HIDE DEF a, o, n
    <3>2. Cells(e, t, a - 1, o, n)
      BY <3>1, PopCells
    <3> QED BY <3>2 DEF a, o, n
  <2> QED BY <2>1, <2>2, <2>3
<1>4. ASSUME Head(s).t = "n"
      PROVE  Packet(e, Head(s).off, Head(s).len) /\ Cells(e, t, 0, Head(s).off, Head(s).len)
  <2>1. Packet(e, Head(s).off, Head(s).len) /\ Cells(e, s, 1, Head(s).off, Head(s).len)
    BY <1>1, <1>4 DEF Packets
  <2>2. Cells(e, t, 1 - 1, Head(s).off, Head(s).len)
    <3> DEFINE o == Head(s).off
               n == Head(s).len
               a == 1
    <3>1. a \in Nat /\ a # 0 /\ n \in Nat /\ Cells(e, s, a, o, n)
      BY <1>1, <1>2, <1>4, <2>1
    <3> HIDE DEF o, n, a
    <3>2. Cells(e, t, a - 1, o, n)
      BY <3>1, PopCells
    <3> QED BY <3>2 DEF o, n, a
  <2> QED BY <2>1, <2>2
<1> QED BY <1>3, <1>4 DEF Packets

\* The first of the cells in hand, and the rest of them.
LEMMA PopInHand ==
  ASSUME NEW s \in Seq(Items), s # <<>>, NEW e \in Extent, NEW o \in Nat, NEW l \in Nat \ {0},
         Packet(e, o, l), Cells(e, s, 0, o, l)
  PROVE  /\ Packet(e, o + 1, l - 1) /\ Cells(e, Tail(s), 0, o + 1, l - 1)
         /\ o < e.off + Chunk => Head(s).cell = <<e.dev, o>>
<1> DEFINE t == Tail(s)
           x == e.off
<1>1. /\ Len(t) = Len(s) - 1 /\ Len(s) \in Nat \ {0}
      /\ \A q \in 1..Len(t) : t[q] = s[q + 1] /\ q + 1 \in 1..Len(s)
      /\ Head(s) = s[1] /\ 1 \in 1..Len(s)
  BY TailPlaces
<1>2. x \in Nat /\ e.cnt \in Nat /\ NFirst(e) \in Nat /\ Chunk \in Nat \ {0}
  BY FirstCells, ConstantsAssumption DEF Extent
<1>3. \A q \in 1..l : q <= Len(s) /\ o < x + Chunk => s[q] = Data(<<e.dev, o + q - 1>>)
  <2> SUFFICES ASSUME NEW q \in 1..l, q <= Len(s), o < x + Chunk
               PROVE  s[q] = Data(<<e.dev, o + q - 1>>)
    OBVIOUS
  <2>1. 0 + q = q
    OBVIOUS
  <2> QED BY <2>1 DEF Cells
<1> HIDE DEF t, x
<1>4. Packet(e, o + 1, l - 1)
  <2> DEFINE y == e.cnt
             f == NFirst(e)
  <2>1. x <= o /\ o + l <= x + y /\ (o + l = x + f \/ o >= x + Chunk)
    BY DEF Packet, x
  <2>2. y \in Nat /\ f \in Nat
    BY <1>2
  <2> HIDE DEF y, f
  <2>3. /\ x <= o + 1 /\ (o + 1) + (l - 1) <= x + y
        /\ (o + 1) + (l - 1) = x + f \/ o + 1 >= x + Chunk
    BY <1>2, <2>1, <2>2
  <2> QED BY <2>3 DEF Packet, x, y, f
<1>5. Cells(e, t, 0, o + 1, l - 1)
  <2> SUFFICES ASSUME NEW q \in 1..l - 1, 0 + q <= Len(t), o + 1 < x + Chunk
               PROVE  t[0 + q] = Data(<<e.dev, (o + 1) + q - 1>>)
    BY DEF Cells, x
  <2>1. q \in 1..Len(t) /\ q + 1 \in 1..l /\ q + 1 <= Len(s) /\ o < x + Chunk
        /\ o + (q + 1) - 1 = (o + 1) + q - 1 /\ 0 + q = q
    BY <1>1, <1>2
  <2>2. s[q + 1] = Data(<<e.dev, o + (q + 1) - 1>>)
    BY <1>3, <2>1
  <2> QED BY <1>1, <2>1, <2>2
<1>6. o < x + Chunk => Head(s).cell = <<e.dev, o>>
  <2>1. 1 \in 1..l /\ 1 <= Len(s) /\ o + 1 - 1 = o
    BY <1>1
  <2>2. o < x + Chunk => s[1] = Data(<<e.dev, o>>)
    BY <1>3, <2>1
  <2> QED BY <1>1, <2>2 DEF Data
<1> QED BY <1>4, <1>5, <1>6 DEF t, x

\* Items behind the packets that are all there change nothing.
LEMMA PushCells ==
  ASSUME NEW s \in Seq(Items), NEW d \in Seq(Items), NEW e, NEW p \in Nat, NEW o, NEW n \in Nat,
         p + n <= Len(s), Cells(e, s, p, o, n)
  PROVE  Cells(e, s \o d, p, o, n)
<1> DEFINE r == s \o d
<1>1. Len(s) \in Nat /\ \A q \in 1..Len(s) : r[q] = s[q]
  BY EndPlaces
<1> HIDE DEF r
<1>2. \A q \in 1..n : p + q \in 1..Len(s) /\ p + q <= Len(s)
  BY <1>1
<1>3. Cells(e, r, p, o, n)
  BY <1>1, <1>2 DEF Cells
<1> QED BY <1>3 DEF r

LEMMA PushPackets ==
  ASSUME NEW s \in Seq(Items), NEW h \in HeaderItem, NEW e, Packets(e, s), Whole(s, 0),
         h.t = "n" => Packet(e, h.off, h.len)
  PROVE  Packets(e, s \o <<h>>)
<1> DEFINE r == s \o <<h>>
           d == <<h>>
<1>1. d \in Seq(Items) /\ Len(d) = 1 /\ d[1] = h
  BY DEF Items
<1>2. /\ Len(r) = Len(s) + 1 /\ Len(s) \in Nat /\ \A q \in 1..Len(s) : r[q] = s[q]
  BY <1>1, EndPlaces
<1>3. r[Len(s) + 1] = h
  BY <1>1
<1>4. ASSUME NEW p \in 1..Len(s), s[p].t = "n"
      PROVE  Packet(e, s[p].off, s[p].len) /\ Cells(e, r, p, s[p].off, s[p].len)
  <2>1. Packet(e, s[p].off, s[p].len) /\ Cells(e, s, p, s[p].off, s[p].len)
    BY <1>4 DEF Packets
  <2>2. p + s[p].len <= Len(s) /\ s[p].len \in Nat /\ p \in Nat
    BY <1>2, <1>4, ItemFields DEF Whole
  <2>3. Cells(e, r, p, s[p].off, s[p].len)
    <3> DEFINE o == s[p].off
               n == s[p].len
    <3> HIDE DEF o, n, d
    <3>1. Cells(e, s, p, o, n) /\ p + n <= Len(s) /\ n \in Nat
      BY <2>1, <2>2 DEF o, n
    <3>2. Cells(e, s \o d, p, o, n)
      BY <1>1, <2>2, <3>1, PushCells
    <3> QED BY <3>2 DEF o, n, d
  <2> QED BY <2>1, <2>3
<1> HIDE DEF r, d
<1>5. ASSUME NEW p \in 1..Len(r), r[p].t = "n"
      PROVE  Packet(e, r[p].off, r[p].len) /\ Cells(e, r, p, r[p].off, r[p].len)
  <2>1. CASE p \in 1..Len(s)
    BY <1>2, <1>4, <1>5, <2>1
  <2>2. CASE p = Len(s) + 1
    <3>1. Packet(e, r[p].off, r[p].len)
      BY <1>3, <1>5, <2>2
    <3>2. h.len \in Nat
      BY DEF HeaderItem
    <3>3. \A q \in 1..h.len : ~(p + q <= Len(r))
      <4> DEFINE n == h.len
      <4> HIDE DEF n
      <4>1. \A q \in 1..n : ~(p + q <= Len(r))
        BY <1>2, <2>2, <3>2 DEF n
      <4> QED BY <4>1 DEF n
    <3>4. Cells(e, r, p, r[p].off, r[p].len)
      BY <1>3, <2>2, <3>3 DEF Cells
    <3> QED BY <3>1, <3>4
  <2> QED BY <1>2, <2>1, <2>2
<1> QED BY <1>5 DEF Packets, r

\* The data of the last packet.
LEMMA PushPacketData ==
  ASSUME NEW s \in Seq(Items), NEW d \in Seq(Items), \A q \in 1..Len(d) : d[q].t = "d",
         NEW e, NEW o, Packets(e, s), Whole(s, Len(d)),
         s # <<>> /\ s[Len(s)].t = "n" => s[Len(s)].off = o,
         \A q \in 1..Len(d) : o < e.off + Chunk => d[q] = Data(<<e.dev, o + q - 1>>)
  PROVE  /\ Packets(e, s \o d)
         /\ s = <<>> => Cells(e, s \o d, 0, o, Len(d))
<1> DEFINE r == s \o d
<1>1. /\ Len(r) = Len(s) + Len(d) /\ Len(s) \in Nat /\ Len(d) \in Nat
      /\ \A q \in 1..Len(s) : r[q] = s[q]
      /\ \A q \in 1..Len(d) : r[Len(s) + q] = d[q]
      /\ \A q \in Len(s) + 1..Len(s) + Len(d) : r[q] = d[q - Len(s)]
  BY EndPlaces
<1>2. ASSUME NEW p \in 1..Len(s), s[p].t = "n"
      PROVE  Packet(e, s[p].off, s[p].len) /\ Cells(e, r, p, s[p].off, s[p].len)
  <2>1. Packet(e, s[p].off, s[p].len) /\ Cells(e, s, p, s[p].off, s[p].len)
    BY <1>2 DEF Packets
  <2>2. s[p].len \in Nat /\ p \in Nat
    BY <1>1, <1>2, ItemFields
  <2>3. CASE p + s[p].len <= Len(s)
    <3> DEFINE a == s[p].off
               n == s[p].len
    <3> HIDE DEF a, n
    <3>1. Cells(e, s, p, a, n) /\ p + n <= Len(s) /\ n \in Nat
      BY <2>1, <2>2, <2>3 DEF a, n
    <3>2. Cells(e, s \o d, p, a, n)
      BY <2>2, <3>1, PushCells
    <3> QED BY <2>1, <3>2 DEF a, n
  <2>4. CASE p = Len(s) /\ s[p].len = Len(d)
    <3>1. s[p].off = o
      BY <1>1, <1>2, <2>4
    <3>2. \A q \in 1..Len(d) : o < e.off + Chunk => r[p + q] = Data(<<e.dev, o + q - 1>>)
      BY <1>1, <2>4
    <3> QED BY <2>1, <2>4, <3>1, <3>2 DEF Cells
  <2> QED BY <1>2, <2>3, <2>4 DEF Whole
<1> HIDE DEF r
<1>3. ASSUME NEW p \in 1..Len(r), r[p].t = "n"
      PROVE  p \in 1..Len(s) /\ r[p] = s[p]
  <2> SUFFICES ASSUME p \notin 1..Len(s) PROVE FALSE
    BY <1>1
  <2> DEFINE a == Len(s)
             b == Len(d)
  <2>1. p \in 1..a + b /\ p \notin 1..a /\ a \in Nat /\ b \in Nat
    BY <1>1
  <2> HIDE DEF a, b
  <2>2. p \in a + 1..a + b /\ p - a \in 1..b
    BY <2>1
  <2>3. r[p] = d[p - a]
    BY <1>1, <2>2 DEF a, b
  <2> QED BY <1>3, <2>2, <2>3 DEF b
<1>4. Packets(e, r)
  BY <1>2, <1>3 DEF Packets
<1>5. s = <<>> => Cells(e, r, 0, o, Len(d))
  <2> SUFFICES ASSUME s = <<>> PROVE Cells(e, r, 0, o, Len(d))
    OBVIOUS
  <2>1. Len(s) = 0
    OBVIOUS
  <2> QED BY <1>1, <2>1 DEF Cells
<1> QED BY <1>4, <1>5 DEF r

----------------------------------------------------------------------------
\* What is on its way, and what has arrived

\* The cells under way belong to the extent the call is at.
ContentInv(c) ==
  InSync(c) =>
    /\ Packets(Current(c), s2c[c])
    /\ call[c].pc = "data" => /\ Packet(Current(c), call[c].off, call[c].l)
                              /\ Cells(Current(c), s2c[c], 0, call[c].off, call[c].l)

\* The header of the first chunk has been sent.
FirstSent(c) ==
  /\ srv.c = c
  /\ \/ /\ srv.pc \in {"data", "last", "verbose"} \/ (srv.pc = "chunk" /\ srv.i > 0)
        /\ srv.k = call[c].k
     \/ srv.pc = "req" /\ srv.k = call[c].k + 1

\* Each cell of the first chunk is in the buffer, or of the packet in hand, or
\* its packet is under way.
AllFirst(c) ==
  \A i \in 0..NFirst(Current(c)) - 1 :
    \/ Got(c, call[c].k, i) = <<Current(c).dev, Current(c).off + i>>
    \/ call[c].off <= Current(c).off + i /\ Current(c).off + i < call[c].off + Left(c)
    \/ \E p \in 1..Len(s2c[c]) : s2c[c][p].t = "n" /\ s2c[c][p].off = Current(c).off
FirstInv(c) ==
  /\ InSync(c) /\ failed[c] = 0
  /\ Has(s2c[c], "l") \/ (link[c] = "open" /\ FirstSent(c))
  => AllFirst(c)

\* The two properties, of one call.
PlacesInv(c) ==
  Started(c) =>
    \A m \in Extents(c) : \A i \in FirstChunk(Bv(c)[m]) :
      /\ failed[c] = 0 \/ m <= failed[c] => Got(c, m, i) \in {Zero, RightCell(Bv(c)[m], i)}
      /\ m < call[c].k /\ (failed[c] = 0 \/ m < failed[c]) =>
           Got(c, m, i) = RightCell(Bv(c)[m], i)

BufferInv(c) == ContentInv(c) /\ FirstInv(c) /\ PlacesInv(c)
Buffers == \A c \in Calls : BufferInv(c)

LEMMA BufferFrame ==
  ASSUME NEW d \in Calls, BufferInv(d), Elsewhere(d)
  PROVE  BufferInv(d)'
<1>1. /\ Left(d)' = Left(d) /\ Current(d)' = Current(d) /\ Bv(d)' = Bv(d)
      /\ (InSync(d)' <=> InSync(d)) /\ (FirstSent(d)' <=> FirstSent(d))
  BY DEF Elsewhere, Left, Current, Bv, InSync, FirstSent
<1>2. ContentInv(d)'
  BY <1>1 DEF Elsewhere, BufferInv, ContentInv
<1>3. AllFirst(d) <=> AllFirst(d)'
  BY <1>1 DEF Elsewhere, AllFirst, Got
<1>4. FirstInv(d)'
  BY <1>1, <1>3 DEF Elsewhere, BufferInv, FirstInv
<1>5. PlacesInv(d)'
  BY <1>1 DEF Elsewhere, BufferInv, PlacesInv, Started, Extents, Got
<1> QED BY <1>2, <1>4, <1>5 DEF BufferInv

\* An error later on takes nothing back.
LEMMA PlacesKept ==
  ASSUME NEW c \in Calls, Started(c), PlacesInv(c), buf'[c] = buf[c],
         call'[c].job = call[c].job, call'[c].k = call[c].k,
         failed'[c] = failed[c] \/ failed[c] = 0
  PROVE  PlacesInv(c)'
<1>1. Bv(c)' = Bv(c) /\ Extents(c)' = Extents(c)
  BY DEF Bv, Extents
<1>2. \A m, i : Got(c, m, i)' = Got(c, m, i)
  BY DEF Got
<1>3. \A m \in Extents(c) : \A i \in FirstChunk(Bv(c)[m]) :
        /\ failed[c] = 0 \/ m <= failed[c] => Got(c, m, i) \in {Zero, RightCell(Bv(c)[m], i)}
        /\ m < call[c].k /\ (failed[c] = 0 \/ m < failed[c]) =>
             Got(c, m, i) = RightCell(Bv(c)[m], i)
  BY DEF PlacesInv
<1> QED BY <1>1, <1>2, <1>3 DEF PlacesInv

\* A call that is over keeps its buffer.
LEMMA ClosedBuffer ==
  ASSUME NEW c \in Calls, Started(c), PlacesInv(c), buf'[c] = buf[c], call'[c].pc \in Ended,
         call'[c].job = call[c].job, call'[c].k = call[c].k,
         failed'[c] = failed[c] \/ failed[c] = 0
  PROVE  BufferInv(c)'
<1>1. ~InSync(c)'
  BY DEF InSync, Ended
<1> QED BY <1>1, PlacesKept DEF BufferInv, ContentInv, FirstInv

LEMMA ConnectBuffer ==
  ASSUME Inv, NEW c \in Calls, NEW j \in Jobs, Connect(c, j)
  PROVE  BufferInv(c)'
<1>1. /\ call'[c].pc = "cmd" /\ call'[c].k = 1 /\ call'[c].job = j
      /\ buf'[c] = [i \in 0..(Total(j.blockv) - 1) |-> Zero]
  BY DEF Connect, Inv, TypeOK
<1>2. ~InSync(c)'
  BY <1>1 DEF InSync
<1>3. j.blockv \in Seq(Extent)
  BY ConstantsAssumption
<1>4. ASSUME NEW m \in Extents(c)', NEW i \in FirstChunk(Bv(c)'[m]) PROVE Got(c, m, i)' = Zero
  <2> DEFINE bv == j.blockv
             x == Starts(bv)[m - 1]
             n == bv[m].cnt
             y == Starts(bv)[m]
             z == Total(bv)
  <2>1. m \in 1..Len(bv) /\ i \in FirstChunk(bv[m])
    BY <1>1 DEF Extents, Bv
  <2>2. bv[m] \in Extent /\ x \in Nat /\ n \in Nat /\ y = x + n /\ y <= z /\ z \in Nat
    BY <1>3, <2>1, Places
  <2>3. i \in Nat /\ i < n
    BY <2>1, <2>2, FirstCells
  <2>4. x + i \in 0..(z - 1)
    <3> HIDE DEF x, n, y, z
    <3> QED BY <2>2, <2>3
  <2>5. Got(c, m, i)' = buf'[c][x + i]
    BY <1>1 DEF Got
  <2> HIDE DEF x, z
  <2> QED BY <1>1, <2>4, <2>5 DEF z
<1>5. \A m \in Extents(c)' : ~(m < 1)
  BY DEF Extents
<1> QED BY <1>1, <1>2, <1>4, <1>5 DEF BufferInv, ContentInv, FirstInv, PlacesInv

LEMMA SendBuffer ==
  ASSUME Inv, Base, Streams, Buffers, NEW c \in Calls, SendCmd(c) \/ SendReq(c)
  PROVE  BufferInv(c)'
<1>1. /\ BaseInv(c) /\ StreamInv(c) /\ BufferInv(c)
      /\ call[c].pc \in {"cmd", "req"} /\ call[c].pc # "idle"
  BY DEF SendCmd, SendReq, Base, Streams, Buffers
<1>2. /\ call[c] \in CallState /\ call[c].k \in Nat \ {0}
  BY <1>1, CallFields
<1>3. /\ call'[c].k = call[c].k /\ call'[c].job = call[c].job
      /\ call'[c].pc = IF call[c].pc = "cmd" THEN "req" ELSE "hdr"
  BY <1>1, <1>2 DEF SendCmd, SendReq, Inv, TypeOK, CallState
<1>4. /\ srv' = srv /\ failed' = failed /\ s2c' = s2c /\ buf' = buf
      /\ link'[c] = "open" => link[c] = "open"
  <2>1. \E item : ClientSend(c, item)
    BY Zenon DEF SendCmd, SendReq
  <2> QED BY <2>1, SendsEffect DEF SendCmd, SendReq
<1>5. failed[c] \in Nat /\ failed[c] < call[c].k
  <2>1. failed[c] <= call[c].k - 1
    BY <1>1 DEF BaseInv, FailInv, Asked, Active
  <2> QED BY <1>2, <2>1 DEF Inv, TypeOK
<1>6. PlacesInv(c)'
  BY <1>1, <1>3, <1>4, PlacesKept DEF BufferInv, Started
<1>7. ASSUME InSync(c)' PROVE s2c'[c] = <<>> /\ ~(link'[c] = "open" /\ FirstSent(c)') /\ call'[c].pc = "hdr"
  <2>1. failed[c] = 0 /\ call[c].pc = "req" /\ call'[c].pc = "hdr"
    BY <1>1, <1>3, <1>4, <1>5, <1>7 DEF InSync
  <2>2. s2c[c] = <<>> /\ (link[c] = "open" => Waits(c, call[c].k))
    BY <1>1, <2>1 DEF StreamInv, AskInv
  <2>3. Waits(c, call[c].k) => ~FirstSent(c)
    <3> SUFFICES ASSUME Waits(c, call[c].k), FirstSent(c) PROVE FALSE
      OBVIOUS
    <3>1. srv.c = c /\ CmdRead(c)
      BY DEF FirstSent, CmdRead
    <3>2. \/ srv.pc = "verbose" /\ srv.k + 1 = call[c].k
          \/ srv.pc = "req" /\ srv.k = call[c].k
      BY <3>1 DEF Waits
    <3>3. srv.k \in Nat
      BY <3>2 DEF Inv, TypeOK, ServerState
    <3> QED BY <1>2, <3>2, <3>3 DEF FirstSent
  <2>4. FirstSent(c)' <=> FirstSent(c)
    BY <1>3, <1>4 DEF FirstSent
  <2> QED BY <1>4, <2>1, <2>2, <2>3, <2>4
<1>8. \A e : Packets(e, <<>>)
  <2>1. Len(<<>>) = 0 /\ 1..0 = {}
    OBVIOUS
  <2>2. 1..Len(<<>>) = {}
    BY <2>1, Zenon
  <2> QED BY <2>2 DEF Packets
<1>9. ContentInv(c)'
  BY <1>7, <1>8 DEF ContentInv
<1>10. FirstInv(c)'
  BY <1>7, NothingSent DEF FirstInv
<1> QED BY <1>6, <1>9, <1>10 DEF BufferInv

\* Where the places of an extent are in the buffer.
LEMMA GotPlace ==
  ASSUME NEW bv \in Seq(Extent), NEW m \in 1..Len(bv), NEW i \in FirstChunk(bv[m])
  PROVE  /\ i \in Nat /\ Starts(bv)[m - 1] \in Nat /\ Starts(bv)[m] \in Nat
         /\ Starts(bv)[m - 1] + i < Starts(bv)[m]
         /\ Starts(bv)[m - 1] + i \in 0..(Total(bv) - 1)
<1> DEFINE x == Starts(bv)[m - 1]
           n == bv[m].cnt
           y == Starts(bv)[m]
           z == Total(bv)
<1>1. bv[m] \in Extent /\ x \in Nat /\ n \in Nat /\ y \in Nat /\ y = x + n /\ y <= z /\ z \in Nat
  BY Places
<1>2. i \in Nat /\ i < n
  BY <1>1, FirstCells
<1> HIDE DEF x, n, y, z
<1>3. x + i < y /\ x + i \in 0..(z - 1)
  BY <1>1, <1>2
<1> QED BY <1>1, <1>2, <1>3 DEF x, y, z

\* recv_into() puts a cell at its place, if that is not before the buffer.
LEMMA Stored ==
  ASSUME Inv, NEW c \in Calls, RecvData(c), call[c].l > 0, Current(c).off \in Nat,
         NEW s \in Nat, s = call[c].boff + (call[c].off - Current(c).off)
  PROVE  /\ s \in 0..(Total(Bv(c)) - 1) /\ buf'[c][s] = Head(s2c[c]).cell
         /\ \A x \in 0..(Total(Bv(c)) - 1) : x # s => buf'[c][x] = buf[c][x]
<1> DEFINE z == Total(Bv(c))
           w == WriteAt(c)
           l == call[c].l
           v == Head(s2c[c]).cell
<1>1. call[c].pc # "idle" /\ call[c].l <= Room(c) /\ buf' = [buf EXCEPT ![c][w] = v]
  BY DEF RecvData
<1>2. l \in Nat /\ l > 0 /\ Bv(c) \in Seq(Extent)
  BY <1>1, CallFields
<1>3. z \in Nat
  BY <1>2, StartsAre DEF Total
<1>4. w = SliceStart(z, s) /\ l <= z - w
  BY <1>1 DEF WriteAt, Room, Bv
<1>5. buf[c] \in [0..(z - 1) -> Cell] /\ DOMAIN buf = Calls
  BY <1>1 DEF Inv, TypeOK, Started, Bv
<1> HIDE DEF z, w, l, v
<1>6. w = s /\ s \in 0..(z - 1)
  BY <1>2, <1>3, <1>4 DEF SliceStart, LesserOf, GreaterOf
<1>7. buf'[c] = [buf[c] EXCEPT ![w] = v]
  BY <1>1, <1>5
<1>8. buf'[c][s] = v /\ \A x \in 0..(z - 1) : x # s => buf'[c][x] = buf[c][x]
  BY <1>5, <1>6, <1>7
<1> QED BY <1>6, <1>8 DEF z, v

\* What arrives after the first error goes behind the extent that failed.
LEMMA LateReceiving ==
  ASSUME Inv, Base, Streams, Buffers, NEW c \in Calls,
         \/ RecvEnd(c) \/ RecvNext(c) \/ RecvData(c)
         \/ (RecvGarbage(c) /\ call'[c].pc # "raised"),
         ~InSync(c)
  PROVE  BufferInv(c)'
<1> DEFINE k == call[c].k
           f == failed[c]
           bv == Bv(c)
           e == Current(c)
           o == call[c].off
<1>1. /\ failed' = failed /\ call'[c].job = call[c].job
      /\ \/ (Takes(c) \/ Stores(c) \/ Skips(c)) /\ call'[c].k = k
         \/ Leaves(c)
      /\ ~RecvData(c) => buf' = buf
      /\ RecvData(c) => Stores(c)
  BY ReceivingKinds
<1>2. /\ call[c].pc \in {"hdr", "data"} /\ call[c].pc # "idle"
      /\ k \in Nat \ {0} /\ o \in Nat /\ call[c].boff \in Nat /\ bv \in Seq(Extent) /\ Len(bv) \in Nat
      /\ call[c].job \in Jobs /\ call[c].l \in Nat
  BY <1>1, CallFields DEF Takes, Stores, Skips, Leaves
<1>3. f \in Nat /\ f # 0 /\ f < k
  BY <1>2 DEF InSync, Base, BaseInv, FailInv, Asked, Active, Inv, TypeOK
<1>4. k \in 1..Len(bv) /\ call[c].boff = Starts(bv)[k - 1] /\ Asked(c) = k /\ e = bv[k]
  BY <1>2 DEF Inv, CallInv, AtExtent, Base, BaseInv, PlaceInv, Started, Asked, Bv, Current
<1>5. ~InSync(c)' /\ call'[c].k \in {k, k + 1} /\ Bv(c)' = bv /\ Extents(c)' = 1..Len(bv) /\ Extents(c) = 1..Len(bv)
  BY <1>1, <1>2, <1>3 DEF InSync, Bv, Extents, Takes, Stores, Skips, Leaves
<1>6. \A m \in 1..Len(bv) : \A i \in FirstChunk(bv[m]) :
        /\ m <= f => Got(c, m, i) \in {Zero, RightCell(bv[m], i)}
        /\ m < f => Got(c, m, i) = RightCell(bv[m], i)
  BY <1>2, <1>3, <1>5 DEF Buffers, BufferInv, PlacesInv, Started
<1>7. ASSUME NEW m \in 1..Len(bv), NEW i \in FirstChunk(bv[m]), m <= f
      PROVE  Got(c, m, i)' = Got(c, m, i)
  <2>1. CASE ~RecvData(c)
    BY <1>1, <2>1 DEF Got
  <2>2. CASE RecvData(c)
    <3> DEFINE s == call[c].boff + (o - e.off)
               a == Starts(bv)[f]
               x == Starts(bv)[m - 1] + i
    <3>1. PICK j \in f + 1..k : bv[j].off <= o
      BY <1>1, <1>2, <1>3, <1>4, <2>2 DEF Stores, Streams, StreamInv, LateInv, Active, Later
    <3>2. j \in 1..Len(bv) /\ f \in 1..Len(bv) /\ f < j /\ j <= k
      BY <1>2, <1>3, <1>4, <3>1
    <3>3. a \in Nat /\ a <= Starts(bv)[j - 1] /\ a <= Starts(bv)[k - 1]
      BY <1>2, <1>3, <1>4, <3>2, Places
    <3>4. a <= s /\ s \in Nat /\ e.off \in Nat
      <4> DEFINE b == Starts(bv)[k - 1]
                 p == Starts(bv)[j - 1]
                 q == Starts(bv)[j]
                 u == bv[j].off
                 n == bv[j].cnt
                 d == e.off
      <4>1. b \in Nat /\ p \in Nat /\ q \in Nat /\ u \in Nat /\ n \in Nat /\ d \in Nat /\ q = p + n
        BY <1>2, <1>4, <3>2, Places
      <4>2. a \in Nat /\ a <= p /\ a <= b /\ u <= o /\ s = b + (o - d)
        BY <1>4, <3>1, <3>3
      <4>3. j < k => d <= u + n /\ q <= b
        BY <1>2, <1>4, <3>2, Places, RowsAssumption DEF Bv
      <4>4. j = k => d = u
        BY <1>4
      <4>5. (j < k \/ j = k) /\ o \in Nat
        BY <1>2, <3>1, <3>2
      <4> HIDE DEF a, b, p, q, u, n, d, s, k, o
      <4>6. ASSUME j < k PROVE a <= s /\ s \in Nat
        BY <4>1, <4>2, <4>3, <4>5, <4>6
      <4>7. ASSUME j = k PROVE a <= s /\ s \in Nat
        <5>1. d = u
          BY <4>4, <4>7
        <5> QED BY <4>1, <4>2, <4>5, <5>1
      <4> QED BY <4>1, <4>5, <4>6, <4>7 DEF d
    <3>5. x \in 0..(Total(bv) - 1) /\ x < Starts(bv)[m] /\ Starts(bv)[m] \in Nat /\ x \in Nat
      <4> DEFINE y == Starts(bv)[m - 1]
                 z == Total(bv)
      <4>1. /\ i \in Nat /\ y \in Nat /\ Starts(bv)[m] \in Nat
            /\ y + i < Starts(bv)[m] /\ y + i \in 0..(z - 1)
        BY <1>2, GotPlace
      <4> HIDE DEF y, z
      <4>2. y + i \in Nat
        BY <4>1
      <4> QED BY <4>1, <4>2 DEF y, z
    <3>6. Starts(bv)[m] <= a
      <4>1. m \in 0..Len(bv) /\ f \in 0..Len(bv)
        BY <1>3, <3>2
      <4> QED BY <1>2, <1>7, <4>1, StartsGrow
    <3>7. call[c].l > 0
      BY <1>1, <2>2 DEF Stores, Inv, CallInv, InPacket
    <3> HIDE DEF s, a, x
    <3>8. x # s
      BY <3>3, <3>4, <3>5, <3>6
    <3>9. s = call[c].boff + (o - e.off)
      BY DEF s
    <3>10. buf'[c][x] = buf[c][x]
      BY <2>2, <3>4, <3>5, <3>7, <3>8, <3>9, Stored
    <3> QED BY <1>5, <3>10 DEF Got, Bv, x
  <2> QED BY <2>1, <2>2
<1>8. PlacesInv(c)'
  <2> SUFFICES ASSUME NEW m \in 1..Len(bv), NEW i \in FirstChunk(bv[m])
               PROVE  /\ m <= f => Got(c, m, i)' \in {Zero, RightCell(bv[m], i)}
                      /\ m < f => Got(c, m, i)' = RightCell(bv[m], i)
    BY <1>1, <1>3, <1>5 DEF PlacesInv
  <2> QED BY <1>3, <1>6, <1>7
<1> QED BY <1>5, <1>8 DEF BufferInv, ContentInv, FirstInv

\* A call in step takes a header, or leaves its extent.
LEMMA TakingBuffer ==
  ASSUME Inv, Base, Streams, Buffers, NEW c \in Calls,
         \/ RecvEnd(c) \/ RecvNext(c) \/ RecvData(c)
         \/ (RecvGarbage(c) /\ call'[c].pc # "raised"),
         InSync(c), Takes(c), call'[c].k = call[c].k
  PROVE  BufferInv(c)'
<1> DEFINE s == s2c[c]
           h == Head(s)
           e == Current(c)
<1>1. /\ s # <<>> /\ s2c'[c] = Tail(s) /\ srv' = srv /\ link' = link /\ failed' = failed
      /\ call'[c].job = call[c].job /\ buf' = buf
      /\ call[c].pc = "hdr" /\ h.t = "n"
      /\ call'[c].off = h.off /\ call'[c].l = h.len
      /\ call'[c].pc = IF h.len > 0 THEN "data" ELSE "hdr"
  BY ReceivingKinds DEF Takes, Stores
<1>2. s \in Seq(Items) /\ e \in Extent /\ h.off \in Nat /\ h.len \in Nat
  BY <1>1, InSyncHead
<1>3. Packets(e, s)
  BY DEF Buffers, BufferInv, ContentInv
<1>4. Packets(e, Tail(s)) /\ Packet(e, h.off, h.len) /\ Cells(e, Tail(s), 0, h.off, h.len)
  <2> HIDE DEF s, e
  <2> QED BY <1>1, <1>2, <1>3, PopPackets
<1>5. Current(c)' = e /\ Left(c)' = h.len
  BY <1>1, <1>2 DEF Current, Left
<1>6. ContentInv(c)'
  BY <1>1, <1>4, <1>5 DEF ContentInv
<1>7. PlacesInv(c)'
  BY <1>1, PlacesKept DEF Started, Buffers, BufferInv
<1>8. FirstInv(c)'
  <2> SUFFICES ASSUME InSync(c)', failed[c] = 0,
                      Has(Tail(s), "l") \/ (link[c] = "open" /\ FirstSent(c)),
                      NEW i \in 0..NFirst(e) - 1
               PROVE  \/ Got(c, call[c].k, i) = <<e.dev, e.off + i>>
                      \/ h.off <= e.off + i /\ e.off + i < h.off + h.len
                      \/ \E p \in 1..Len(Tail(s)) : Tail(s)[p].t = "n" /\ Tail(s)[p].off = e.off
    <3>1. FirstSent(c)' <=> FirstSent(c)
      BY <1>1 DEF FirstSent
    <3>2. \A n : Got(c, call[c].k, n)' = Got(c, call[c].k, n)
      BY <1>1 DEF Got
    <3> QED BY <1>1, <1>5, <3>1, <3>2 DEF FirstInv, AllFirst
  <2>1. AllFirst(c)
    <3>1. Has(Tail(s), "l") => Has(s, "l")
      BY <1>1, <1>2, TailHas
    <3> QED BY <3>1 DEF Buffers, BufferInv, FirstInv
  <2>2. \/ Got(c, call[c].k, i) = <<e.dev, e.off + i>>
        \/ \E p \in 1..Len(s) : s[p].t = "n" /\ s[p].off = e.off
    <3>1. ~(call[c].off <= e.off + i /\ e.off + i < call[c].off + Left(c))
      <4>1. Left(c) = 0 /\ call[c].off \in Nat /\ e.off \in Nat /\ NFirst(e) \in Nat
        BY <1>1, <1>2, CallFields, FirstCells DEF Left, Extent
      <4> DEFINE a == e.off
                 b == call[c].off
                 n == NFirst(e)
      <4>2. i \in 0..n - 1 /\ n \in Nat /\ a \in Nat /\ b \in Nat
        BY <4>1
      <4> HIDE DEF a, b, n
      <4>3. ~(b <= a + i /\ a + i < b + 0)
        BY <4>2
      <4> QED BY <4>1, <4>3 DEF a, b
    <3> QED BY <2>1, <3>1 DEF AllFirst
  <2>3. ASSUME NEW p \in 1..Len(s), s[p].t = "n", s[p].off = e.off
        PROVE  \/ h.off <= e.off + i /\ e.off + i < h.off + h.len
               \/ \E q \in 1..Len(Tail(s)) : Tail(s)[q].t = "n" /\ Tail(s)[q].off = e.off
    <3>0. /\ Len(Tail(s)) = Len(s) - 1 /\ Len(s) \in Nat \ {0} /\ h = s[1]
          /\ \A q \in 1..Len(Tail(s)) : Tail(s)[q] = s[q + 1]
      BY <1>1, <1>2, TailPlaces
    <3>1. CASE p = 1
      <4> DEFINE a == e.off
                 n == NFirst(e)
                 m == h.len
      <4>1. h.off = a /\ a \in Nat /\ n \in Nat /\ m \in Nat
        BY <1>2, <2>3, <3>0, <3>1, FirstCells DEF Extent
      <4>2. a + m = a + n \/ a >= a + Chunk
        BY <1>4, <4>1 DEF Packet
      <4>3. i \in 0..n - 1 /\ Chunk \in Nat \ {0}
        BY ConstantsAssumption
      <4> HIDE DEF a, n, m
      <4>4. a <= a + i /\ a + i < a + m
        BY <4>1, <4>2, <4>3
      <4> QED BY <4>1, <4>4 DEF a, m
    <3>2. CASE p # 1
      <4>1. p - 1 \in 1..Len(Tail(s)) /\ (p - 1) + 1 = p
        BY <3>0, <3>2
      <4>2. Tail(s)[p - 1] = s[p]
        BY <3>0, <4>1
      <4> QED BY <2>3, <4>1, <4>2
    <3> QED BY <3>1, <3>2
  <2> QED BY <2>2, <2>3
<1> QED BY <1>6, <1>7, <1>8 DEF BufferInv

\* A call in step is done with an extent that the server has answered.
LEMMA LeavingBuffer ==
  ASSUME Inv, Base, Streams, Buffers, NEW c \in Calls,
         \/ RecvEnd(c) \/ RecvNext(c) \/ RecvData(c)
         \/ (RecvGarbage(c) /\ call'[c].pc # "raised"),
         InSync(c), Leaves(c)
  PROVE  BufferInv(c)'
<1> DEFINE s == s2c[c]
           h == Head(s)
           k == call[c].k
           e == Current(c)
<1>1. /\ s # <<>> /\ s2c'[c] = Tail(s) /\ failed' = failed
      /\ call'[c].job = call[c].job /\ buf' = buf
      /\ call[c].pc = "hdr" /\ call'[c].pc = "req" /\ call'[c].k = k + 1
      /\ h.t = "n" => call[c].count <= 0
  BY ReceivingKinds DEF Leaves, Stores
<1>2. /\ s \in Seq(Items) /\ e \in Extent /\ k \in Nat \ {0} /\ failed[c] \in {0, k}
      /\ call[c].pc # "idle" /\ call[c].off \in Nat /\ call[c].count \in Int
  BY <1>1, InSyncHead, CallFields DEF InSync
<1>3. h.t \in {"e", "l"} /\ Has(s, h.t) /\ (h.t = "l" => Tail(s) = <<>>)
  <2>1. h.t \in {"n", "e", "l", "d"} /\ Has(s, h.t)
    BY <1>1, <1>2, TailHas
  <2>2. h.t # "d" /\ (h.t = "n" => call[c].count > 0) /\ (h.t = "l" => Tail(s) = <<>>)
    BY <1>1, InSyncHead
  <2> QED BY <1>1, <1>2, <2>1, <2>2
<1>4. ASSUME failed[c] = 0, NEW i \in FirstChunk(e) PROVE Got(c, k, i) = RightCell(e, i)
  <2>1. h.t = "l" /\ Has(s, "l") /\ Tail(s) = <<>>
    <3>1. Has(s, "e") => failed[c] = k
      BY DEF Streams, StreamInv, SyncInv
    <3> QED BY <1>2, <1>3, <1>4, <3>1
  <2>2. AllFirst(c)
    BY <1>4, <2>1 DEF Buffers, BufferInv, FirstInv
  <2>3. \A p \in 1..Len(s) : s[p].t # "n"
    <3>1. Len(s) = 1 /\ h = s[1]
      <4> HIDE DEF s
      <4> QED BY <1>1, <1>2, <2>1, OnePlace
    <3> QED BY <2>1, <3>1
  <2>4. Left(c) = 0
    BY <1>1 DEF Left
  <2>5. CASE i \in 0..NFirst(e) - 1
    <3>1. Got(c, k, i) = <<e.dev, e.off + i>>
      <4>1. ~(call[c].off <= e.off + i /\ e.off + i < call[c].off + 0)
        <5> DEFINE a == e.off
                   b == call[c].off
                   n == NFirst(e)
        <5>1. i \in 0..n - 1 /\ n \in Nat /\ a \in Nat /\ b \in Nat
          BY <1>2, <2>5, FirstCells DEF Extent
        <5> HIDE DEF a, b, n
        <5>2. ~(b <= a + i /\ a + i < b + 0)
          BY <5>1
        <5> QED BY <5>2 DEF a, b
      <4> QED BY <2>2, <2>3, <2>4, <2>5, <4>1 DEF AllFirst
    <3>2. RightCell(e, i) = <<e.dev, e.off + i>>
      BY <1>2, <2>5, FirstCells
    <3> QED BY <3>1, <3>2
  <2>6. CASE i \notin 0..NFirst(e) - 1
    <3>1. i \in Nat /\ NFirst(e) \in Nat /\ (i >= NFirst(e) => RightCell(e, i) = Zero)
      BY <1>2, FirstCells
    <3>2. RightCell(e, i) = Zero
      <4> DEFINE n == NFirst(e)
      <4> HIDE DEF n
      <4>1. i \notin 0..n - 1 /\ n \in Nat /\ i \in Nat
        BY <2>6, <3>1 DEF n
      <4>2. i >= n
        BY <4>1
      <4> QED BY <3>1, <4>2 DEF n
    <3>3. Got(c, k, i) \in {Zero, RightCell(e, i)}
      <4>1. k \in Extents(c) /\ e = Bv(c)[k]
        BY <1>1, <1>2 DEF Inv, CallInv, AtExtent, Extents, Current, Bv
      <4> QED BY <1>2, <1>4, <4>1 DEF Buffers, BufferInv, PlacesInv, Started
    <3> QED BY <3>2, <3>3
  <2> QED BY <2>5, <2>6
<1>5. Bv(c)' = Bv(c) /\ Extents(c)' = Extents(c) /\ Current(c) = Bv(c)[k]
  BY <1>1 DEF Bv, Extents, Current
<1>6. \A m, i : Got(c, m, i)' = Got(c, m, i)
  BY <1>1 DEF Got
<1>7. PlacesInv(c)'
  <2> SUFFICES ASSUME NEW m \in Extents(c), NEW i \in FirstChunk(Bv(c)[m])
               PROVE  /\ failed[c] = 0 \/ m <= failed[c] =>
                           Got(c, m, i) \in {Zero, RightCell(Bv(c)[m], i)}
                      /\ m < k + 1 /\ (failed[c] = 0 \/ m < failed[c]) =>
                           Got(c, m, i) = RightCell(Bv(c)[m], i)
    BY <1>1, <1>5, <1>6 DEF PlacesInv
  <2>1. /\ failed[c] = 0 \/ m <= failed[c] => Got(c, m, i) \in {Zero, RightCell(Bv(c)[m], i)}
        /\ m < k /\ (failed[c] = 0 \/ m < failed[c]) => Got(c, m, i) = RightCell(Bv(c)[m], i)
    BY <1>2 DEF Buffers, BufferInv, PlacesInv, Started
  <2>2. m \in Nat
    BY <1>2, CallFields DEF Extents
  <2>3. m < k + 1 /\ (failed[c] = 0 \/ m < failed[c]) => m < k \/ (m = k /\ failed[c] = 0)
    <3> HIDE DEF k
    <3> QED BY <1>2, <2>2
  <2> QED BY <1>4, <1>5, <2>1, <2>3
<1>8. ~InSync(c)'
  BY <1>1 DEF InSync
<1> QED BY <1>7, <1>8 DEF BufferInv, ContentInv, FirstInv

\* A cell of the packet in hand goes to its place in the extent.
LEMMA StoringBuffer ==
  ASSUME Inv, Base, Streams, Buffers, NEW c \in Calls, RecvData(c), InSync(c)
  PROVE  BufferInv(c)'
<1> DEFINE s == s2c[c]
           h == Head(s)
           k == call[c].k
           e == Current(c)
           o == call[c].off
           l == call[c].l
           bv == Bv(c)
           a == Starts(bv)[k - 1]
           w == a + (o - e.off)
<1>1. /\ s # <<>> /\ s2c'[c] = Tail(s) /\ srv' = srv /\ link' = link /\ failed' = failed
      /\ call'[c].job = call[c].job /\ call'[c].k = k
      /\ call[c].pc = "data" /\ call'[c].pc = (IF l = 1 THEN "hdr" ELSE "data")
      /\ call'[c].off = o + 1 /\ call'[c].l = l - 1
  BY ReceivingKinds DEF Stores, Leaves, Takes, Skips
<1>2. /\ s \in Seq(Items) /\ e \in Extent /\ h.t = "d" /\ l \in Nat \ {0}
      /\ o \in Nat /\ bv \in Seq(Extent) /\ failed[c] \in {0, k} /\ call[c].pc # "idle"
      /\ k \in Nat \ {0} /\ e.off \in Nat /\ e.cnt \in Nat
  <2>1. s \in Seq(Items) /\ e \in Extent /\ h.t = "d" /\ l \in Nat \ {0}
    BY <1>1, InSyncHead
  <2>2. call[c].pc # "idle"
    BY <1>1
  <2>3. o \in Nat /\ bv \in Seq(Extent) /\ k \in Nat \ {0}
    BY <2>2, CallFields
  <2>4. failed[c] \in {0, k} /\ e.off \in Nat /\ e.cnt \in Nat
    BY <2>1 DEF InSync, Extent
  <2> QED BY <2>1, <2>2, <2>3, <2>4
<1>3. k \in 1..Len(bv) /\ call[c].boff = a /\ e = bv[k]
  BY <1>1 DEF Inv, CallInv, AtExtent, Base, BaseInv, PlaceInv, Started, Bv, Current
<1>4. Packets(e, s) /\ Packet(e, o, l) /\ Cells(e, s, 0, o, l)
  BY <1>1 DEF Buffers, BufferInv, ContentInv
<1>5. /\ Packets(e, Tail(s)) /\ Packet(e, o + 1, l - 1) /\ Cells(e, Tail(s), 0, o + 1, l - 1)
      /\ o < e.off + Chunk => h.cell = <<e.dev, o>>
  <2> HIDE DEF s, e, o, l
  <2> QED BY <1>1, <1>2, <1>4, PopPackets, PopInHand DEF h
<1>6. /\ o - e.off \in 0..e.cnt - 1
      /\ o - e.off \in FirstChunk(e) => o < e.off + Chunk /\ RightCell(e, o - e.off) = <<e.dev, o>>
  <2> HIDE DEF e, o, l
  <2> QED BY <1>2, <1>4, PacketEnds
<1>7. a \in Nat /\ w \in Nat /\ a <= w /\ w < Starts(bv)[k] /\ Starts(bv)[k] \in Nat
  <2>1. a \in Nat /\ Starts(bv)[k] \in Nat /\ Starts(bv)[k] = a + e.cnt
    BY <1>2, <1>3, Places
  <2> DEFINE x == e.off
             n == e.cnt
             y == Starts(bv)[k]
  <2>2. x \in Nat /\ n \in Nat /\ o \in Nat /\ o - x \in 0..n - 1 /\ w = a + (o - x)
    BY <1>2, <1>6
  <2> HIDE DEF a, w, x, n, y, o
  <2>3. w \in Nat /\ a <= w /\ w < y
    BY <2>1, <2>2 DEF y, n
  <2> QED BY <2>1, <2>3 DEF y
<1>8. buf'[c][w] = h.cell /\ \A x \in 0..(Total(bv) - 1) : x # w => buf'[c][x] = buf[c][x]
  <2> HIDE DEF w
  <2>1. w = call[c].boff + (call[c].off - Current(c).off)
    BY <1>3 DEF w
  <2>2. call[c].l > 0 /\ Current(c).off \in Nat
    BY <1>2
  <2> QED BY <1>7, <2>1, <2>2, Stored
<1>9. /\ Current(c)' = e /\ Bv(c)' = bv /\ Extents(c)' = Extents(c) /\ Extents(c) = 1..Len(bv)
      /\ Left(c) = l /\ Left(c)' = l - 1
  BY <1>1, <1>2 DEF Current, Bv, Extents, Left
\* One place changes, to what belongs there.
<1>10. ASSUME NEW m \in 1..Len(bv), NEW i \in FirstChunk(bv[m])
       PROVE  \/ Got(c, m, i)' = Got(c, m, i) /\ ~(m = k /\ i = o - e.off)
              \/ m = k /\ i = o - e.off /\ Got(c, m, i)' = RightCell(e, i)
  <2> DEFINE x == Starts(bv)[m - 1] + i
  <2>1. /\ i \in Nat /\ Starts(bv)[m - 1] \in Nat /\ Starts(bv)[m] \in Nat
        /\ x < Starts(bv)[m] /\ x \in 0..(Total(bv) - 1)
    BY <1>2, GotPlace
  <2>2. Got(c, m, i) = buf[c][x] /\ Got(c, m, i)' = buf'[c][x]
    BY <1>9 DEF Got, Bv
  <2>3. CASE m = k /\ i = o - e.off
    <3>1. x = w /\ i \in FirstChunk(e)
      BY <1>3, <2>3
    <3>2. buf'[c][x] = h.cell
      BY <1>8, <3>1
    <3>3. h.cell = RightCell(e, i)
      BY <1>5, <1>6, <2>3, <3>1
    <3> QED BY <2>2, <2>3, <3>2, <3>3
  <2>4. CASE ~(m = k /\ i = o - e.off)
    <3>1. x # w
      <4>1. CASE m = k
        <5> DEFINE y == e.off
        <5>1. x = a + i /\ w = a + (o - y) /\ i # o - y /\ y \in Nat
          BY <1>2, <2>4, <4>1
        <5> HIDE DEF x, w, a, y, o
        <5> QED BY <1>2, <1>7, <2>1, <5>1
      <4>2. CASE m < k
        <5>1. Starts(bv)[m] <= a
          BY <1>2, <1>3, <4>2, Places
        <5>2. x < Starts(bv)[m] /\ a <= w /\ x \in Int
          BY <1>7, <2>1
        <5> HIDE DEF x, w, a
        <5> QED BY <1>7, <2>1, <5>1, <5>2
      <4>3. CASE k < m
        <5> DEFINE b == Starts(bv)[m - 1]
                   f == Starts(bv)[k]
        <5>1. f <= b
          BY <1>2, <1>3, <4>3, Places
        <5>2. x = b + i /\ w < f /\ f \in Nat /\ b \in Nat /\ w \in Nat
          BY <1>7, <2>1
        <5> HIDE DEF x, w, b, f
        <5> QED BY <2>1, <5>1, <5>2
      <4>4. m \in Nat /\ k \in Nat
        BY <1>2
      <4> HIDE DEF k
      <4>5. m = k \/ m < k \/ k < m
        BY <4>4
      <4> QED BY <4>1, <4>2, <4>3, <4>5
    <3> QED BY <1>8, <2>1, <2>2, <2>4, <3>1
  <2> QED BY <2>3, <2>4
<1>11. ContentInv(c)'
  BY <1>1, <1>5, <1>9 DEF ContentInv
<1>12. PlacesInv(c)'
  <2> SUFFICES ASSUME NEW m \in 1..Len(bv), NEW i \in FirstChunk(bv[m])
               PROVE  /\ failed[c] = 0 \/ m <= failed[c] =>
                           Got(c, m, i)' \in {Zero, RightCell(bv[m], i)}
                      /\ m < k /\ (failed[c] = 0 \/ m < failed[c]) =>
                           Got(c, m, i)' = RightCell(bv[m], i)
    BY <1>1, <1>9 DEF PlacesInv
  <2>1. /\ failed[c] = 0 \/ m <= failed[c] => Got(c, m, i) \in {Zero, RightCell(bv[m], i)}
        /\ m < k /\ (failed[c] = 0 \/ m < failed[c]) => Got(c, m, i) = RightCell(bv[m], i)
    BY <1>2, <1>9 DEF Buffers, BufferInv, PlacesInv, Started
  <2> QED BY <1>3, <1>10, <2>1
<1>13. FirstInv(c)'
  <2> SUFFICES ASSUME failed[c] = 0, Has(Tail(s), "l") \/ (link[c] = "open" /\ FirstSent(c)),
                      NEW i \in 0..NFirst(e) - 1
               PROVE  \/ Got(c, k, i)' = <<e.dev, e.off + i>>
                      \/ o + 1 <= e.off + i /\ e.off + i < (o + 1) + (l - 1)
                      \/ \E p \in 1..Len(Tail(s)) : Tail(s)[p].t = "n" /\ Tail(s)[p].off = e.off
    <3>1. FirstSent(c)' <=> FirstSent(c)
      BY <1>1 DEF FirstSent
    <3>2. \A n : Got(c, call[c].k, n)' = Got(c, k, n)'
      OBVIOUS
    <3>3. AllFirst(c)' <=>
            \A n \in 0..NFirst(e) - 1 :
              \/ Got(c, k, n)' = <<e.dev, e.off + n>>
              \/ o + 1 <= e.off + n /\ e.off + n < (o + 1) + (l - 1)
              \/ \E p \in 1..Len(Tail(s)) : Tail(s)[p].t = "n" /\ Tail(s)[p].off = e.off
      BY <1>1, <1>9 DEF AllFirst, Got
    <3> QED BY <1>1, <3>1, <3>3 DEF FirstInv
  <2>1. i \in FirstChunk(e) /\ RightCell(e, i) = <<e.dev, e.off + i>> /\ i \in Nat
    BY <1>2, FirstCells
  <2>2. \/ Got(c, k, i) = <<e.dev, e.off + i>>
        \/ o <= e.off + i /\ e.off + i < o + l
        \/ \E p \in 1..Len(s) : s[p].t = "n" /\ s[p].off = e.off
    <3>1. Has(Tail(s), "l") => Has(s, "l")
      BY <1>1, <1>2, TailHas
    <3>2. AllFirst(c)
      BY <3>1 DEF Buffers, BufferInv, FirstInv
    <3> QED BY <1>9, <3>2 DEF AllFirst
  <2>3. ASSUME NEW p \in 1..Len(s), s[p].t = "n", s[p].off = e.off
        PROVE  \E q \in 1..Len(Tail(s)) : Tail(s)[q].t = "n" /\ Tail(s)[q].off = e.off
    <3>1. /\ Len(Tail(s)) = Len(s) - 1 /\ Len(s) \in Nat \ {0} /\ h = s[1]
          /\ \A q \in 1..Len(Tail(s)) : Tail(s)[q] = s[q + 1]
      BY <1>1, <1>2, TailPlaces
    <3>2. p - 1 \in 1..Len(Tail(s)) /\ (p - 1) + 1 = p
      BY <1>2, <2>3, <3>1
    <3>3. Tail(s)[p - 1] = s[p]
      BY <3>1, <3>2
    <3> QED BY <2>3, <3>2, <3>3
  <2>4. /\ Got(c, k, i)' = Got(c, k, i) \/ Got(c, k, i)' = <<e.dev, e.off + i>>
        /\ i = o - e.off => Got(c, k, i)' = <<e.dev, e.off + i>>
    <3>1. PICK m \in 1..Len(bv) : m = k
      BY <1>3
    <3>2. Got(c, k, i)' = Got(c, m, i)' /\ Got(c, k, i) = Got(c, m, i)
      BY <1>1, <3>1 DEF Got
    <3>3. i \in FirstChunk(bv[m]) /\ bv[m] = e
      BY <1>3, <2>1, <3>1
    <3> QED BY <1>10, <2>1, <3>1, <3>2, <3>3
  <2>5. o <= e.off + i /\ e.off + i < o + l =>
          i = o - e.off \/ (o + 1 <= e.off + i /\ e.off + i < (o + 1) + (l - 1))
    <3> DEFINE y == e.off
    <3>1. y \in Nat /\ o \in Nat /\ l \in Nat /\ i \in Nat
      BY <1>2, <2>1
    <3> HIDE DEF y, o, l
    <3>2. o <= y + i /\ y + i < o + l =>
            i = o - y \/ (o + 1 <= y + i /\ y + i < (o + 1) + (l - 1))
      BY <3>1
    <3> QED BY <3>2 DEF y
  <2> QED BY <2>2, <2>3, <2>4, <2>5
<1> QED BY <1>11, <1>12, <1>13 DEF BufferInv

LEMMA ReceivingBuffer ==
  ASSUME Inv, Base, Streams, Buffers, NEW c \in Calls,
         \/ RecvEnd(c) \/ RecvNext(c) \/ RecvData(c)
         \/ (RecvGarbage(c) /\ call'[c].pc # "raised")
  PROVE  BufferInv(c)'
<1>1. CASE ~InSync(c)
  BY <1>1, LateReceiving
<1>2. CASE InSync(c)
  <2>1. \/ (Takes(c) \/ Stores(c) \/ Skips(c)) /\ call'[c].k = call[c].k
        \/ Leaves(c)
    BY ReceivingKinds
  <2>2. ~Skips(c)
    BY <1>2, ReceivingKinds, InSyncHead DEF Skips
  <2>3. Stores(c) => RecvData(c)
    BY DEF Stores, RecvEnd, RecvNext, RecvGarbage
  <2> QED BY <1>2, <2>1, <2>2, <2>3, TakingBuffer, LeavingBuffer, StoringBuffer
<1> QED BY <1>1, <1>2

\* The steps of the server that move no data.
LEMMA QuietBuffer ==
  ASSUME NEW c \in Calls, BufferInv(c), call'[c] = call[c], s2c'[c] = s2c[c],
         buf'[c] = buf[c], failed'[c] = failed[c],
         link'[c] = "open" /\ FirstSent(c)' => link[c] = "open" /\ FirstSent(c)
  PROVE  BufferInv(c)'
<1>1. /\ Left(c)' = Left(c) /\ Current(c)' = Current(c) /\ Bv(c)' = Bv(c)
      /\ (InSync(c)' <=> InSync(c))
  BY DEF Left, Current, Bv, InSync
<1>2. ContentInv(c)'
  BY <1>1 DEF BufferInv, ContentInv
<1>3. AllFirst(c) <=> AllFirst(c)'
  BY <1>1 DEF AllFirst, Got
<1>4. FirstInv(c)'
  BY <1>1, <1>3 DEF BufferInv, FirstInv
<1>5. PlacesInv(c)'
  BY <1>1 DEF BufferInv, PlacesInv, Started, Extents, Got
<1> QED BY <1>2, <1>4, <1>5 DEF BufferInv

LEMMA BetweenBuffer ==
  ASSUME Inv, Base, Buffers, NEW c \in Calls,
         \/ RestartServer \/ (Accept /\ srv'.c = c)
         \/ (ReadCmd \/ ReadReq \/ Report) /\ srv.c = c
         \/ (RecvAborted \/ AllServed \/ ReportUnbound \/ SendRaises) /\ srv.c = c
  PROVE  BufferInv(c)'
<1>1. BufferInv(c) /\ BaseInv(c)
  BY DEF Base, Buffers
<1>2. call' = call /\ s2c' = s2c /\ buf' = buf /\ failed' = failed
  BY HandlerEndsEffect DEF RestartServer, Accept, ReadCmd, ReadReq, Report
<1>3. link'[c] = "open" /\ FirstSent(c)' => link[c] = "open" /\ FirstSent(c)
  <2> SUFFICES ASSUME link'[c] = "open", FirstSent(c)' PROVE link[c] = "open" /\ FirstSent(c)
    OBVIOUS
  <2>1. /\ srv'.c = c
        /\ \/ srv'.pc \in {"data", "last", "verbose", "chunk"}
           \/ srv'.pc = "req" /\ srv'.k = call'[c].k + 1
    BY DEF FirstSent
  <2>2. CASE RestartServer \/ Accept \/ ReadReq
    BY <2>1, <2>2 DEF RestartServer, IdleServer, Accept, ReadReq
  <2>3. CASE (RecvAborted \/ AllServed \/ ReportUnbound \/ SendRaises) /\ srv.c = c
    BY <2>1, <2>3, HandlerEndsEffect DEF IdleServer
  <2>4. CASE ReadCmd
    <3>1. srv'.pc = "req" /\ srv'.k = 1 /\ link' = link
      BY <2>4 DEF ReadCmd
    <3>2. call[c].pc # "idle"
      BY <1>1, <3>1 DEF BaseInv, LinkInv
    <3>3. call[c].k \in Nat \ {0}
      BY <3>2, CallFields
    <3> QED BY <1>2, <2>1, <3>1, <3>3
  <2>5. CASE Report /\ srv.c = c
    <3>1. srv.pc = "verbose" /\ srv'.pc = "req" /\ srv'.k = srv.k + 1 /\ link' = link
      BY <2>5 DEF Report, SrvAt
    <3>2. call[c].pc # "idle" /\ srv.k \in Nat
      BY <1>1, <3>1, ServerLocals DEF BaseInv, LinkInv, Inv
    <3>3. call[c].k \in Nat \ {0}
      BY <3>2, CallFields
    <3>4. srv.k = call[c].k
      BY <1>2, <2>1, <3>1, <3>2, <3>3
    <3> QED BY <2>5, <3>1, <3>4 DEF FirstSent
  <2> QED BY <2>2, <2>3, <2>4, <2>5
<1> QED BY <1>1, <1>2, <1>3, QuietBuffer

\* The chunks of an extent are packets.
LEMMA ChunkPacket ==
  ASSUME Inv, OffsetInv, srv.pc \in {"chunk", "data"}, srv.i < srv.ext.cnt
  PROVE  /\ Packet(srv.ext, srv.off, Len(ChunkData))
         /\ srv.i = 0 => srv.off = srv.ext.off
         /\ srv.off < srv.ext.off + Chunk => ChunkAddr = srv.off
<1> DEFINE x == srv.ext.off
           y == srv.ext.cnt
           i == srv.i
           o == srv.off
           z == Length[srv.ext.dev]
           n == Len(ChunkData)
           f == NFirst(srv.ext)
<1>1. /\ srv.ext \in Extent /\ i \in Nat /\ o \in Nat
  BY ServerLocals DEF Inv
<1>2. x \in Nat /\ y \in Nat /\ z \in Nat /\ Chunk \in Nat \ {0}
  BY <1>1, ConstantsAssumption DEF Extent
<1>3. o = x + i /\ (i = 0 \/ i >= LesserOf(y, Chunk)) /\ i < y
  BY DEF OffsetInv
<1>4. n = LesserOf(LesserOf(y - i, Chunk), GreaterOf(0, z - (o + i))) /\ n \in Nat
  BY ChunkDataLen DEF Inv, ChunkLen, ChunkAddr
<1>5. f = LesserOf(LesserOf(y, Chunk), GreaterOf(0, z - x))
  BY DEF NFirst
<1>6. ChunkAddr = o + i
  BY DEF ChunkAddr
<1> HIDE DEF x, y, i, o, z, n, f
<1>7. i = 0 \/ i >= Chunk
  BY <1>1, <1>2, <1>3 DEF LesserOf
<1>8. n <= y - i
  BY <1>1, <1>2, <1>3, <1>4 DEF LesserOf, GreaterOf
<1>9. i = 0 => n = f /\ o = x
  BY <1>1, <1>2, <1>3, <1>4, <1>5
<1>10. i >= Chunk => o >= x + Chunk
  BY <1>1, <1>2, <1>3
<1>11. x <= o /\ o + n <= x + y
  BY <1>1, <1>2, <1>3, <1>4, <1>8
<1>12. o + n = x + f \/ o >= x + Chunk
  BY <1>7, <1>9, <1>10
<1>13. o < x + Chunk => o + i = o
  BY <1>1, <1>2, <1>7, <1>10
<1> QED BY <1>6, <1>9, <1>11, <1>12, <1>13 DEF Packet, x, y, i, o, n, f

\* A header behind what is under way.
LEMMA HeaderContent ==
  ASSUME Inv, NEW c \in Calls, srv.pc # "data", link[c] = "open", InSync(c), ContentInv(c),
         call'[c] = call[c], NEW h \in HeaderItem, s2c'[c] = s2c[c] \o <<h>>,
         h.t = "n" => Packet(Current(c), h.off, h.len)
  PROVE  ContentInv(c)'
<1> DEFINE s == s2c[c]
           e == Current(c)
           d == <<h>>
           o == call[c].off
           l == call[c].l
<1>1. /\ s \in Seq(Items) /\ Packets(e, s) /\ Current(c)' = e /\ CallInv(c) /\ Outstanding(c) = 0
      /\ d \in Seq(Items)
  BY DEF Inv, TypeOK, Items, ContentInv, Current, Outstanding
<1>2. Packets(e, s \o d)
  <2>1. Whole(s, 0)
    BY <1>1 DEF CallInv
  <2> HIDE DEF s, e
  <2> QED BY <1>1, <2>1, PushPackets DEF e
<1>3. call[c].pc = "data" => Packet(e, o, l) /\ Cells(e, s \o d, 0, o, l)
  <2> SUFFICES ASSUME call[c].pc = "data" PROVE Packet(e, o, l) /\ Cells(e, s \o d, 0, o, l)
    OBVIOUS
  <2>1. Packet(e, o, l) /\ Cells(e, s, 0, o, l) /\ l \in Nat
    BY CallFields DEF ContentInv
  <2>2. 0 + l <= Len(s)
    <3>1. l > 0 /\ (l <= Len(s) \/ l = 0)
      BY <1>1 DEF CallInv, InPacket
    <3> HIDE DEF l
    <3> QED BY <1>1, <2>1, <3>1
  <2> HIDE DEF s, e, d, o, l
  <2>3. Cells(e, s \o d, 0, o, l)
    BY <1>1, <2>1, <2>2, PushCells
  <2> QED BY <2>1, <2>3
<1> QED BY <1>1, <1>2, <1>3 DEF ContentInv

\* The data of a chunk behind its header.
LEMMA DataContent ==
  ASSUME Inv, OffsetInv, NEW c \in Calls, srv.c = c, srv.pc = "data", link[c] = "open", InSync(c),
         ContentInv(c), Together(c), srv.ext = Current(c),
         call'[c] = call[c], s2c'[c] = s2c[c] \o ChunkData
  PROVE  ContentInv(c)'
<1> DEFINE s == s2c[c]
           e == Current(c)
           d == ChunkData
           o == call[c].off
           l == call[c].l
           a == srv.off
<1>1. /\ s \in Seq(Items) /\ Packets(e, s) /\ Current(c)' = e /\ CallInv(c) /\ Outstanding(c) = Len(d)
  BY DEF Inv, TypeOK, Items, ContentInv, Current, Outstanding
<1>2. /\ d \in Seq(Items) /\ (\A q \in 1..Len(d) : d[q].t = "d") /\ Len(d) \in Nat
      /\ \A q \in 1..Len(d) : d[q] = Data(<<e.dev, ChunkAddr + q - 1>>)
  <2>1. d \in Seq(DataItem) /\ \A q \in 1..Len(d) : d[q].t = "d"
    BY ChunkDataType DEF Inv, InChunk
  <2>2. d \in Seq(Items)
    BY <2>1 DEF Items
  <2> QED BY <2>1, <2>2, ChunkDataLen DEF Inv, InChunk
<1>3. \A q \in 1..Len(d) : a < e.off + Chunk => d[q] = Data(<<e.dev, a + q - 1>>)
  <2>1. a < e.off + Chunk => ChunkAddr = a
    BY ChunkPacket DEF Inv, InChunk
  <2> QED BY <1>2, <2>1
<1>4. Pending(s, Left(c), o)
  BY DEF Together
<1>5. s # <<>> /\ s[Len(s)].t = "n" => s[Len(s)].off = a
  BY <1>4 DEF Pending, Header
<1>6. /\ Packets(e, s \o d)
      /\ s = <<>> => Cells(e, s \o d, 0, a, Len(d))
  <2>1. Whole(s, Len(d))
    BY <1>1 DEF CallInv
  <2> HIDE DEF s, e, d, a
  <2> QED BY <1>1, <1>2, <1>3, <1>5, <2>1, PushPacketData, ZenonT(30)
<1>7. call[c].pc = "data" => Packet(e, o, l) /\ Cells(e, s \o d, 0, o, l)
  <2> SUFFICES ASSUME call[c].pc = "data" PROVE Packet(e, o, l) /\ Cells(e, s \o d, 0, o, l)
    OBVIOUS
  <2>1. Packet(e, o, l) /\ Cells(e, s, 0, o, l) /\ l \in Nat
    BY CallFields DEF ContentInv
  <2>2. l > 0 /\ (l <= Len(s) \/ (s = <<>> /\ l = Len(d)))
    BY <1>1 DEF CallInv, InPacket
  <2>3. CASE l <= Len(s)
    <3>1. 0 + l <= Len(s)
      BY <2>1, <2>3
    <3> HIDE DEF s, e, d, o, l
    <3>2. Cells(e, s \o d, 0, o, l)
      BY <1>1, <1>2, <2>1, <3>1, PushCells
    <3> QED BY <2>1, <3>2
  <2>4. CASE s = <<>> /\ l = Len(d)
    <3>1. o = a
      <4>1. Left(c) = l
        BY DEF Left
      <4> QED BY <1>4, <2>2, <2>4, <4>1 DEF Pending
    <3> QED BY <1>6, <2>1, <2>4, <3>1
  <2> QED BY <2>2, <2>3, <2>4
<1> QED BY <1>1, <1>6, <1>7 DEF ContentInv

LEMMA AllFirstKept ==
  ASSUME NEW c \in Calls, AllFirst(c), call'[c] = call[c], buf'[c] = buf[c],
         \/ s2c'[c] = s2c[c]
         \/ /\ s2c[c] \in Seq(Items)
            /\ \E d \in Seq(Items) : s2c'[c] = s2c[c] \o d
  PROVE  AllFirst(c)'
<1>1. \A p \in 1..Len(s2c[c]) : p \in 1..Len(s2c'[c]) /\ s2c'[c][p] = s2c[c][p]
  <2>1. CASE s2c'[c] = s2c[c]
    BY <2>1
  <2>2. ASSUME s2c[c] \in Seq(Items), NEW d \in Seq(Items), s2c'[c] = s2c[c] \o d
        PROVE  \A p \in 1..Len(s2c[c]) : p \in 1..Len(s2c'[c]) /\ s2c'[c][p] = s2c[c][p]
    <3> DEFINE s == s2c[c]
               r == s \o d
    <3>1. /\ Len(r) = Len(s) + Len(d) /\ Len(s) \in Nat /\ Len(d) \in Nat
          /\ \A q \in 1..Len(s) : r[q] = s[q]
      BY <2>2, EndPlaces
    <3> HIDE DEF r
    <3>2. \A p \in 1..Len(s) : p \in 1..Len(r) /\ r[p] = s[p]
      BY <3>1
    <3> QED BY <2>2, <3>2 DEF r
  <2> QED BY <2>1, <2>2
<1>2. /\ Current(c)' = Current(c) /\ Left(c)' = Left(c)
      /\ \A i : Got(c, call[c].k, i)' = Got(c, call[c].k, i)
  BY DEF Current, Left, Got
<1> SUFFICES ASSUME NEW i \in 0..NFirst(Current(c)) - 1
             PROVE  \/ Got(c, call[c].k, i) = <<Current(c).dev, Current(c).off + i>>
                    \/ call[c].off <= Current(c).off + i /\ Current(c).off + i < call[c].off + Left(c)
                    \/ \E p \in 1..Len(s2c'[c]) :
                         s2c'[c][p].t = "n" /\ s2c'[c][p].off = Current(c).off
  BY <1>2 DEF AllFirst
<1> QED BY <1>1 DEF AllFirst

\* What a step of the server that serves an open connection does to its answer.
LEMMA ServingSends ==
  ASSUME Inv, NEW c \in Calls, srv.c = c, ServingStep, link[c] = "open", s2c[c] \in Seq(Items)
  PROVE  \/ /\ OpenFile \/ ChunksDone \/ OpenFails \/ ReadFails \/ SendRaisesInTry
            /\ s2c'[c] = s2c[c]
         \/ /\ SendChunkHeader /\ srv.pc = "chunk" /\ srv.i < srv.ext.cnt
            /\ Len(ChunkData) \in Nat /\ srv.off \in Nat
            /\ s2c'[c] = s2c[c] \o <<Header("n", srv.off, Len(ChunkData))>>
         \/ SendChunkData /\ srv.pc = "data" /\ ChunkData \in Seq(Items) /\ s2c'[c] = s2c[c] \o ChunkData
         \/ /\ SendError \/ SendLast
            /\ srv.pc = IF SendError THEN "except" ELSE "last"
            /\ \E h \in HeaderItem : h.t # "n" /\ s2c'[c] = s2c[c] \o <<h>>
<1>1. /\ srv.pc \in {"open", "chunk", "data", "except", "last"} /\ srv'.c = srv.c
  BY ServingSteps
<1>2. srv.off \in Nat /\ srv.ext.cnt \in Nat
  BY <1>1, ServerLocals DEF Inv, Extent
<1>3. CASE OpenFile \/ ChunksDone \/ OpenFails \/ ReadFails \/ SendRaisesInTry
  BY <1>3 DEF OpenFile, ChunksDone, OpenFails, ReadFails, SendRaisesInTry, ToExcept
<1>4. CASE SendChunkHeader
  <2> DEFINE h == Header("n", srv.off, Len(ChunkData))
  <2>1. srv.pc = "chunk" /\ srv.i < srv.ext.cnt /\ ServerSend(<<h>>)
    BY <1>4 DEF SendChunkHeader, SrvAt
  <2>2. Len(ChunkData) \in Nat
    BY <2>1, ChunkDataLen DEF Inv
  <2> HIDE DEF h
  <2>3. s2c'[c] = s2c[c] \o <<h>>
    BY <1>1, <2>1, ServerSends
  <2> QED BY <1>2, <1>4, <2>1, <2>2, <2>3 DEF h
<1>5. CASE SendChunkData
  <2>1. srv.pc = "data" /\ ServerSend(ChunkData)
    BY <1>5 DEF SendChunkData, SrvAt
  <2>2. ChunkData \in Seq(Items)
    <3>1. ChunkData \in Seq(DataItem)
      BY <2>1, ChunkDataType DEF Inv, InChunk
    <3> QED BY <3>1 DEF Items
  <2>3. s2c'[c] = s2c[c] \o ChunkData
    BY <1>1, <2>1, ServerSends
  <2> QED BY <1>5, <2>1, <2>2, <2>3
<1>6. CASE SendError
  <2> DEFINE h == Header("e", srv.off, 0)
  <2>1. srv.pc = "except" /\ ServerSend(<<h>>)
    BY <1>6 DEF SendError, SrvAt
  <2>2. h \in HeaderItem /\ h.t # "n"
    BY <1>2 DEF Header, HeaderItem
  <2> HIDE DEF h
  <2>3. s2c'[c] = s2c[c] \o <<h>>
    BY <1>1, <2>1, ServerSends
  <2> QED BY <1>6, <2>1, <2>2, <2>3
<1>7. CASE SendLast
  <2> DEFINE h == Header("l", srv.off, srv.ext.cnt)
  <2>1. srv.pc = "last" /\ ServerSend(<<h>>)
    BY <1>7 DEF SendLast, SrvAt
  <2>2. h \in HeaderItem /\ h.t # "n"
    BY <1>2 DEF Header, HeaderItem
  <2> HIDE DEF h
  <2>3. s2c'[c] = s2c[c] \o <<h>>
    BY <1>1, <2>1, ServerSends
  <2>4. ~SendError
    BY <2>1 DEF SendError, SrvAt
  <2> QED BY <1>7, <2>1, <2>2, <2>3, <2>4
<1> QED BY <1>3, <1>4, <1>5, <1>6, <1>7 DEF ServingStep

LEMMA ServingContent ==
  ASSUME Inv, OffsetInv, NEW c \in Calls, srv.c = c, ServingStep, link[c] = "open", InSync(c),
         ContentInv(c), Together(c), srv.ext = Current(c)
  PROVE  ContentInv(c)'
<1>1. call' = call /\ s2c[c] \in Seq(Items) /\ Current(c)' = Current(c)
  BY ServingSteps DEF Inv, TypeOK, Items, Current
<1>2. CASE s2c'[c] = s2c[c]
  BY <1>1, <1>2 DEF ContentInv
<1>3. CASE /\ srv.pc = "chunk" /\ srv.i < srv.ext.cnt /\ Len(ChunkData) \in Nat /\ srv.off \in Nat
           /\ s2c'[c] = s2c[c] \o <<Header("n", srv.off, Len(ChunkData))>>
  <2> DEFINE h == Header("n", srv.off, Len(ChunkData))
             n == Len(ChunkData)
             o == srv.off
  <2>1. h = [t |-> "n", off |-> o, len |-> n]
    BY DEF Header
  <2>2. Packet(Current(c), o, n)
    BY <1>3, ChunkPacket
  <2>3. srv.pc # "data" /\ s2c'[c] = s2c[c] \o <<h>> /\ n \in Nat /\ o \in Nat
    BY <1>3
  <2> HIDE DEF h, n, o
  <2>4. h \in HeaderItem /\ h.t = "n" /\ h.off = o /\ h.len = n
    BY <2>1, <2>3 DEF HeaderItem
  <2> QED BY <1>1, <2>2, <2>3, <2>4, HeaderContent
<1>4. CASE srv.pc = "data" /\ s2c'[c] = s2c[c] \o ChunkData
  BY <1>1, <1>4, DataContent
<1>5. ASSUME NEW h \in HeaderItem, h.t # "n", s2c'[c] = s2c[c] \o <<h>>, srv.pc \in {"except", "last"}
      PROVE  ContentInv(c)'
  BY <1>1, <1>5, HeaderContent
<1> QED BY <1>1, <1>2, <1>3, <1>4, <1>5, ServingSends

LEMMA ServingFirst ==
  ASSUME Inv, OffsetInv, NEW c \in Calls, srv.c = c, ServingStep, link[c] = "open", InSync(c),
         FirstInv(c), FailInv(c), Together(c), srv.ext = Current(c)
  PROVE  FirstInv(c)'
<1> DEFINE s == s2c[c]
           e == Current(c)
<1>1. /\ call' = call /\ buf' = buf /\ s \in Seq(Items) /\ Current(c)' = e /\ srv'.c = c
      /\ srv'.pc = "except" => failed'[c] = IF failed[c] = 0 THEN srv.k ELSE failed[c]
      /\ srv'.pc # "except" => failed' = failed
  BY ServingSteps DEF Inv, TypeOK, Items, Current
<1>2. /\ srv.k \in Nat \ {0} /\ srv.i \in Nat /\ e \in Extent /\ srv.k = call[c].k
      /\ srv \in [pc : {"open", "chunk", "data", "except", "last", "verbose"},
            c : Calls, k : Nat \ {0}, n : Nat, ext : Extent, off : Nat,
            i : Nat, bound : BOOLEAN]
  BY ServingSteps, ServerLocals DEF Inv, Together
<1> SUFFICES ASSUME failed'[c] = 0, Has(s2c'[c], "l") \/ FirstSent(c)' PROVE AllFirst(c)'
  BY DEF FirstInv
<1>3. failed[c] = 0 /\ srv'.pc # "except" /\ srv.pc # "except"
  BY <1>1, <1>2 DEF FailInv
<1>4. FirstSent(c) => AllFirst(c)'
  <2> SUFFICES ASSUME FirstSent(c) PROVE AllFirst(c)'
    OBVIOUS
  <2>1. AllFirst(c)
    BY <1>3 DEF FirstInv
  <2>2. \/ s2c'[c] = s
        \/ \E d \in Seq(Items) : s2c'[c] = s \o d
    <3>1. \A h \in HeaderItem : <<h>> \in Seq(Items)
      BY DEF Items
    <3>2. Len(ChunkData) \in Nat /\ srv.off \in Nat => Header("n", srv.off, Len(ChunkData)) \in HeaderItem
      <4> DEFINE n == Len(ChunkData)
                 o == srv.off
      <4> HIDE DEF n, o
      <4>1. n \in Nat /\ o \in Nat => Header("n", o, n) \in HeaderItem
        BY DEF Header, HeaderItem
      <4> QED BY <4>1 DEF n, o
    <3> QED BY <1>1, <3>1, <3>2, ServingSends
  <2> QED BY <1>1, <2>1, <2>2, AllFirstKept
<1>5. CASE OpenFile
  <2>1. srv.pc = "open" /\ srv'.pc = "chunk" /\ srv'.i = srv.i /\ s2c'[c] = s
    BY <1>2, <1>5 DEF OpenFile, SrvAt
  <2>2. srv.i = 0 /\ ~Has(s, "l")
    BY <2>1 DEF OffsetInv, Together
  <2>3. ~FirstSent(c)'
    BY <2>1, <2>2 DEF FirstSent
  <2> QED BY <2>1, <2>2, <2>3
<1>6. CASE ChunksDone
  <2>1. srv.pc = "chunk" /\ srv.i >= e.cnt
    BY <1>6 DEF ChunksDone, SrvAt
  <2>2. CASE srv.i > 0
    BY <1>2, <1>4, <2>1, <2>2 DEF FirstSent
  <2>3. CASE srv.i = 0
    <3>1. NFirst(e) \in Nat /\ NFirst(e) <= e.cnt /\ e.cnt \in Nat
      BY <1>2, FirstCells DEF Extent
    <3>2. 0..NFirst(e) - 1 = {}
      <4> DEFINE n == NFirst(e)
                 m == e.cnt
      <4>1. n \in Nat /\ n <= m /\ m \in Nat /\ 0 >= m
        BY <2>1, <2>3, <3>1
      <4> HIDE DEF n, m
      <4>2. 0..n - 1 = {}
        BY <4>1
      <4> QED BY <4>2 DEF n
    <3> QED BY <1>1, <3>2 DEF AllFirst
  <2> QED BY <1>2, <2>2, <2>3
<1>7. CASE OpenFails \/ ReadFails \/ SendRaisesInTry
  <2>1. srv'.pc = "except"
    BY <1>2, <1>7 DEF OpenFails, ReadFails, SendRaisesInTry, ToExcept
  <2> QED BY <1>3, <2>1
<1>8. CASE /\ srv.pc = "chunk" /\ srv.i < srv.ext.cnt /\ Len(ChunkData) \in Nat /\ srv.off \in Nat
           /\ s2c'[c] = s2c[c] \o <<Header("n", srv.off, Len(ChunkData))>>
  <2>1. CASE srv.i > 0
    BY <1>2, <1>4, <1>8, <2>1 DEF FirstSent
  <2>2. CASE srv.i = 0
    <3> DEFINE h == Header("n", srv.off, Len(ChunkData))
               r == s \o <<h>>
    <3>1. h.t = "n" /\ h.off = e.off
      BY <1>8, <2>2, ChunkPacket DEF Header
    <3> HIDE DEF h
    <3>2. Len(r) \in 1..Len(r) /\ r[Len(r)] = h
      BY <1>1
    <3>3. s2c'[c] = r
      BY <1>8 DEF h
    <3> HIDE DEF r
    <3> QED BY <1>1, <3>1, <3>2, <3>3 DEF AllFirst
  <2> QED BY <1>2, <2>1, <2>2
<1>9. CASE srv.pc \in {"data", "last"}
  BY <1>2, <1>4, <1>9 DEF FirstSent
<1> QED BY <1>1, <1>3, <1>5, <1>6, <1>7, <1>8, <1>9, ServingSends

LEMMA ServingBuffer ==
  ASSUME Inv, Base, Streams, Buffers, NEW c \in Calls, srv.c = c, ServingStep
  PROVE  BufferInv(c)'
<1>1. /\ srv.pc \in {"open", "chunk", "data", "except", "last"}
      /\ srv'.k = srv.k /\ call' = call /\ buf' = buf
      /\ srv'.pc = "except" => failed'[c] = IF failed[c] = 0 THEN srv.k ELSE failed[c]
      /\ srv'.pc # "except" => failed' = failed
      /\ link'[c] = link[c] \/ (link[c] = "cfin" /\ link'[c] = "crst")
  BY ServingSteps
<1>2. Serving(c) /\ BaseInv(c) /\ BufferInv(c) /\ CmdRead(c) /\ OffsetInv
  BY <1>1 DEF Serving, CmdRead, Base, Buffers, Streams
<1>3. failed'[c] = failed[c] \/ failed[c] = 0
  BY <1>1
<1>4. Started(c)
  BY <1>2 DEF BaseInv, LinkInv, Started
<1>5. CASE link[c] # "open"
  <2>1. link[c] \in {"cfin", "crst"}
    BY <1>2, <1>5 DEF BaseInv, LinkInv
  <2>2. call'[c].pc \in Ended
    BY <1>1, <1>2, <2>1 DEF BaseInv, LinkInv
  <2> QED BY <1>1, <1>2, <1>3, <1>4, <2>2, ClosedBuffer DEF BufferInv
<1>6. CASE link[c] = "open"
  <2>1. PlacesInv(c)'
    BY <1>1, <1>2, <1>3, <1>4, PlacesKept DEF BufferInv
  <2>2. /\ call[c].pc \in {"req", "hdr", "data"}
        /\ call[c].pc = "req" => failed[c] # 0
        /\ InSync(c) => Together(c)
        /\ failed[c] = 0 => InSync(c) /\ Together(c)
    BY <1>1, <1>2, <1>6, ServingPlace
  <2>3. InSync(c)' => InSync(c)
    BY <1>1, <2>2 DEF InSync
  <2>4. CASE ~InSync(c)
    BY <2>1, <2>3, <2>4 DEF BufferInv, ContentInv, FirstInv
  <2>5. CASE InSync(c)
    <3>1. Together(c)
      BY <2>2, <2>5
    <3>2. srv.ext = Current(c)
      <4>1. srv.ext = Bv(c)[srv.k]
        BY <1>2, <1>6, InHand
      <4> QED BY <3>1, <4>1 DEF Together, Current, Bv
    <3>3. ContentInv(c)'
      BY <1>2, <1>6, <2>5, <3>1, <3>2, ServingContent DEF BufferInv
    <3>4. FirstInv(c)'
      BY <1>2, <1>6, <2>5, <3>1, <3>2, ServingFirst DEF BufferInv, BaseInv
    <3> QED BY <2>1, <3>3, <3>4 DEF BufferInv
  <2> QED BY <2>4, <2>5
<1> QED BY <1>5, <1>6

LEMMA BufferStep == Inv /\ Base /\ Streams /\ Buffers /\ [Next]_vars => Buffers'
<1> SUFFICES ASSUME Inv, Base, Streams, Buffers, [Next]_vars, NEW d \in Calls
             PROVE  BufferInv(d)'
  BY DEF Buffers
<1>1. BufferInv(d) /\ BaseInv(d)
  BY DEF Base, Buffers
<1>2. ASSUME NEW c \in Calls, (\E j \in Jobs : Connect(c, j)) \/ ClientStep(c) \/ Die(c)
      PROVE  BufferInv(d)'
  <2>1. CASE d # c
    BY <1>1, <1>2, <2>1, ClientElsewhere, BufferFrame
  <2>2. CASE d = c
    <3>1. CASE \E j \in Jobs : Connect(c, j)
      BY <2>2, <3>1, ConnectBuffer
    <3>2. CASE SendCmd(c) \/ SendReq(c)
      BY <2>2, <3>2, SendBuffer
    <3>3. CASE RecvEnd(c) \/ RecvNext(c) \/ RecvData(c)
               \/ (RecvGarbage(c) /\ call'[c].pc # "raised")
      BY <2>2, <3>3, ReceivingBuffer
    <3>4. CASE TooManyBlocks(c) \/ BufferTooSmall(c) \/ PeerReset(c) \/ Return(c) \/ Die(c)
               \/ (RecvGarbage(c) /\ call'[c].pc = "raised")
      <4>1. PICK p \in Ended : Closes(c, p) /\ call[c].pc \in Active
        BY <3>4, ClosingSteps
      <4>2. call[c].pc # "idle"
        BY <4>1 DEF Active
      <4>3. /\ call'[c].pc = p /\ call'[c].job = call[c].job /\ call'[c].k = call[c].k
            /\ buf' = buf /\ failed' = failed
        BY <4>1, <4>2, ClosesEffect DEF Closes
      <4> QED BY <1>1, <2>2, <4>2, <4>3, ClosedBuffer DEF BufferInv, Started
    <3> QED BY <1>2, <3>1, <3>2, <3>3, <3>4 DEF ClientStep
  <2> QED BY <2>1, <2>2
<1>3. CASE ServerStep
  <2>1. CASE srv.c # d /\ srv'.c # d
    BY <1>1, <1>3, <2>1, ServerElsewhere, BufferFrame
  <2>2. CASE srv.c = d \/ srv'.c = d
    <3>1. CASE Accept
      <4>1. srv.c # d
        BY <3>1, ConstantsAssumption DEF Accept, SrvAt, Inv, TypeOK, ServerState
      <4> QED BY <2>2, <3>1, <4>1, BetweenBuffer
    <3>2. srv.c = d \/ Accept
      BY <1>3, <2>2, ServerClient
    <3>3. CASE srv.c = d
      BY <1>3, <3>1, <3>3, BetweenBuffer, ServingBuffer DEF ServerStep, ServingStep
    <3> QED BY <3>1, <3>2, <3>3
  <2> QED BY <2>1, <2>2
<1>4. CASE RestartServer
  BY <1>4, BetweenBuffer
<1>5. CASE UNCHANGED vars
  <2>1. Elsewhere(d)
    BY <1>5 DEF vars, Elsewhere
  <2> QED BY <1>1, <2>1, BufferFrame
<1> QED BY <1>2, <1>3, <1>4, <1>5 DEF Next

LEMMA InitBuffers == Init => Buffers
<1> SUFFICES ASSUME Init, NEW c \in Calls PROVE BufferInv(c)
  BY DEF Buffers
<1>1. call[c].pc = "idle"
  BY DEF Init, Idle
<1> QED BY <1>1 DEF BufferInv, ContentInv, FirstInv, PlacesInv, InSync, Started

(***************************************************************************)
(* The theorems.                                                           *)
(***************************************************************************)

AllInv == Inv /\ Base /\ Streams /\ Buffers

LEMMA AllHolds == Spec => []AllInv
<1>1. Init => AllInv
  BY InitInv, InitBase, InitStreams, InitBuffers DEF AllInv
<1>2. AllInv /\ [Next]_vars => AllInv'
  BY InvStep, BaseStep, StreamStep, BufferStep DEF AllInv
<1> QED BY <1>1, <1>2, PTL DEF Spec

\* A read that returns, or raises for what the server or the stream did, never
\* leaves the server waiting for a byte of its closed connection (read_len()
\* spins on recv() of a connection the client has closed): a client that closes
\* has asked for all that it announced, or resets the connection.
THEOREM ServerSpinsForLostClientsOnly == Spec => []OnlyLostClientsSpinTheServer
<1>1. AllInv => OnlyLostClientsSpinTheServer
  BY OnlyLostClients DEF AllInv
<1> QED BY <1>1, AllHolds, PTL

\* Until an error packet, client and server change to the next extent together:
\* _readv_network asks for it with nothing of the last answer left over, and
\* handle() waits for that request.
THEOREM AnswersKeepStep == Spec => []InStep
<1>1. AllInv => InStep
  BY NothingLeftOver DEF AllInv
<1> QED BY <1>1, AllHolds, PTL

\* An extent that the client is done with holds the device's data, up to the
\* first extent whose answer was cut short by 'e': whatever _read_network_buf
\* receives later goes elsewhere in the one buffer of _readv_network.
THEOREM PrefixHolds == Spec => []PrefixExact
<1>1. AllInv => PrefixExact
  <2> SUFFICES ASSUME AllInv, NEW c \in Calls, Started(c), NEW k \in Extents(c),
                      k < call[c].k, failed[c] = 0 \/ k < failed[c],
                      NEW i \in FirstChunk(Bv(c)[k])
               PROVE  Got(c, k, i) = RightCell(Bv(c)[k], i)
    BY DEF PrefixExact, Bv
  <2> QED BY DEF AllInv, Buffers, BufferInv, PlacesInv
<1> QED BY <1>1, AllHolds, PTL

\* At no time is there another block's data at a place of the extents up to the
\* first that failed, though after it the offsets of the answers are taken
\* relative to other extents than they belong to (_read_network_buf: the slice
\* of recv_into() begins at boff + (off - offset)).
THEOREM HonestHolds == Spec => []HonestToFirstError
<1>1. AllInv => HonestToFirstError
  <2> SUFFICES ASSUME AllInv, NEW c \in Calls, Started(c), NEW k \in Extents(c),
                      failed[c] = 0 \/ k <= failed[c],
                      NEW i \in FirstChunk(Bv(c)[k])
               PROVE  Got(c, k, i) \in {Zero, RightCell(Bv(c)[k], i)}
    BY DEF HonestToFirstError, Bv
  <2> QED BY DEF AllInv, Buffers, BufferInv, PlacesInv
<1> QED BY <1>1, AllHolds, PTL

----------------------------------------------------------------------------
\* A sound request is answered: nothing fails and nobody closes early

\* The server has not failed on a sound request and is there until it has sent
\* all of the answers; only a file that did not open leaves i unbound.
UnboundInv(c) ==
  srv.c = c /\ srv.pc \in {"chunk", "data", "last", "verbose"} /\ ~srv.bound => failed[c] # 0
SoundInv(c) ==
  call[c].pc \in Active /\ Sound(Bv(c)) =>
    /\ failed[c] = 0
    /\ \/ link[c] = "open"
       \/ link[c] = "sfin" /\ call[c].pc # "cmd" /\ Asked(c) = Len(Bv(c))
Soundness == \A c \in Calls : UnboundInv(c) /\ SoundInv(c)

LEMMA SoundFrame ==
  ASSUME NEW d \in Calls, UnboundInv(d), SoundInv(d), Elsewhere(d)
  PROVE  UnboundInv(d)' /\ SoundInv(d)'
  BY DEF UnboundInv, SoundInv, Elsewhere, Bv, Asked

\* What a call does itself.
LEMMA ClientSound ==
  ASSUME Inv, Base, Soundness, NEW c \in Calls,
         (\E j \in Jobs : Connect(c, j)) \/ ClientStep(c) \/ Die(c)
  PROVE  UnboundInv(c)' /\ SoundInv(c)'
<1>1. BaseInv(c) /\ UnboundInv(c) /\ SoundInv(c)
  BY DEF Base, Soundness
<1>2. CASE \E j \in Jobs : Connect(c, j)
  <2>1. /\ call[c].pc = "idle" /\ srv' = srv /\ failed' = failed
        /\ link' = [link EXCEPT ![c] = "open"]
    BY <1>2 DEF Connect
  <2>2. failed[c] = 0 /\ link'[c] = "open"
    BY <1>1, <2>1 DEF BaseInv, FailInv, Inv, TypeOK
  <2> QED BY <1>1, <2>1, <2>2 DEF UnboundInv, SoundInv
<1>3. CASE SendCmd(c) \/ SendReq(c)
  <2>1. /\ call[c].pc \in {"cmd", "req"} /\ srv' = srv /\ failed' = failed
        /\ call[c].pc = "req" => call[c].k <= Len(Bv(c))
        /\ \E item : ClientSend(c, item)
    BY <1>3, Zenon DEF SendCmd, SendReq, MoreExtents, Bv
  <2>2. call[c] \in CallState /\ call[c].k \in Nat /\ Len(Bv(c)) \in Nat /\ call[c].pc # "idle"
    BY <2>1, CallFields
  <2>3. call'[c].job = call[c].job
    BY <1>3, <2>2 DEF SendCmd, SendReq, Inv, TypeOK, CallState
  <2>4. link[c] = "open" => link'[c] = "open"
    BY <2>1, SendsEffect
  <2>5. call[c].pc = "req" => Asked(c) # Len(Bv(c))
    BY <2>1, <2>2 DEF Asked
  <2> QED BY <1>1, <2>1, <2>3, <2>4, <2>5 DEF UnboundInv, SoundInv, Bv, Active
<1>4. CASE \/ RecvEnd(c) \/ RecvNext(c) \/ RecvData(c)
           \/ (RecvGarbage(c) /\ call'[c].pc # "raised")
  <2>1. /\ call[c].pc \in {"hdr", "data"} /\ srv' = srv /\ failed' = failed /\ link' = link
        /\ call'[c].job = call[c].job
        /\ \/ call'[c].pc \in {"hdr", "data"} /\ call'[c].k = call[c].k
           \/ Advance(c)
    BY <1>4, ReceivingSteps
  <2>2. call[c].k \in Nat /\ call[c].pc # "idle"
    BY <2>1, CallFields
  <2>3. Advance(c) => call'[c].pc = "req" /\ call'[c].k = call[c].k + 1
    BY <2>2, AdvanceEffect
  <2>4. Asked(c)' = Asked(c) /\ call'[c].pc # "cmd"
    BY <2>1, <2>2, <2>3 DEF Asked
  <2> QED BY <1>1, <2>1, <2>4 DEF UnboundInv, SoundInv, Bv, Active
<1>5. CASE \/ TooManyBlocks(c) \/ BufferTooSmall(c) \/ PeerReset(c) \/ Return(c) \/ Die(c)
           \/ (RecvGarbage(c) /\ call'[c].pc = "raised")
  <2>1. PICK p \in Ended : Closes(c, p) /\ call[c].pc \in Active
    BY <1>5, ClosingSteps
  <2>2. srv' = srv /\ failed' = failed /\ call' = [call EXCEPT ![c].pc = p]
    BY <2>1 DEF Closes
  <2>3. call[c].pc # "idle"
    BY <2>1 DEF Active
  <2>4. call'[c].pc = p
    BY <2>2, <2>3, CallFields DEF Inv, TypeOK, CallState
  <2> QED BY <1>1, <2>2, <2>4 DEF UnboundInv, SoundInv, Active, Ended
<1> QED BY <1>2, <1>3, <1>4, <1>5 DEF ClientStep

\* While it has an extent of a sound request in hand the server cannot fail.
LEMMA NoFailure ==
  ASSUME Inv, Base, OffsetInv, NEW c \in Calls, srv.c = c, link[c] = "open",
         call[c].pc \in Active, Sound(Bv(c)), ServingStep
  PROVE  srv'.pc # "except"
<1>1. /\ srv.pc \in {"open", "chunk", "data", "except", "last"}
      /\ BaseInv(c)
  BY ServingSteps DEF Base
<1>2. /\ srv.ext \in Extent /\ srv.off \in Nat /\ srv.i \in Nat /\ srv.k \in Nat \ {0}
      /\ srv \in [pc : {"open", "chunk", "data", "except", "last", "verbose"},
            c : Calls, k : Nat \ {0}, n : Nat, ext : Extent, off : Nat,
            i : Nat, bound : BOOLEAN]
  BY <1>1, ServerLocals DEF Inv
<1>3. srv.k \in 1..Len(Bv(c)) /\ srv.ext = Bv(c)[srv.k]
  <2>1. Serving(c)
    BY <1>1 DEF CmdRead, Serving
  <2>2. /\ Asked(c) \in Nat /\ Asked(c) <= Len(Bv(c)) /\ Len(Bv(c)) \in Nat
        /\ srv.k \in 1..Asked(c) /\ srv.ext = Bv(c)[srv.k]
    BY <2>1, InHand
  <2> QED BY <2>2
<1>4. /\ srv.ext.cnt <= Chunk /\ srv.ext.dev \in Openable
      /\ ~ReadRaises(srv.ext.dev, srv.ext.off, srv.ext.cnt)
  BY <1>3 DEF Sound
<1>5. ~OpenFails
  BY <1>4 DEF OpenFails
<1>6. ~ReadFails
  <2> SUFFICES ASSUME ReadFails PROVE FALSE
    OBVIOUS
  <2>1. srv.pc = "chunk" /\ srv.i < srv.ext.cnt /\ ReadRaises(srv.ext.dev, ChunkAddr, ChunkLen)
    BY DEF ReadFails, SrvAt
  <2>2. srv.off = srv.ext.off + srv.i /\ (srv.i = 0 \/ srv.i >= LesserOf(srv.ext.cnt, Chunk))
    BY <2>1 DEF OffsetInv
  <2>3. srv.ext.cnt \in Nat /\ srv.ext.off \in Nat
    BY <1>2 DEF Extent
  <2>4. srv.i = 0
    BY ConstantsAssumption, <1>2, <1>4, <2>1, <2>2, <2>3 DEF LesserOf
  <2>5. ChunkAddr = srv.ext.off /\ ChunkLen = srv.ext.cnt
    BY ConstantsAssumption, <1>4, <2>2, <2>3, <2>4 DEF ChunkAddr, ChunkLen, LesserOf
  <2> QED BY <1>4, <2>1, <2>5
<1>7. ~SendRaisesInTry
  BY DEF SendRaisesInTry, Client
<1>8. CASE OpenFile \/ SendChunkHeader \/ SendChunkData \/ ChunksDone \/ SendError \/ SendLast
  BY <1>2, <1>8 DEF OpenFile, SendChunkHeader, SendChunkData, ChunksDone, SendError, SendLast
<1> QED BY <1>5, <1>6, <1>7, <1>8 DEF ServingStep

LEMMA ServerSound ==
  ASSUME Inv, Base, OffsetInv, Soundness, ServerStep, NEW c \in Calls, srv.c = c
  PROVE  UnboundInv(c)' /\ SoundInv(c)'
<1>1. BaseInv(c) /\ UnboundInv(c) /\ SoundInv(c)
  BY DEF Base, Soundness
<1>2. ~Accept
  BY ConstantsAssumption DEF Accept, SrvAt, Inv, TypeOK, ServerState
<1>3. CASE ReadCmd \/ ReadReq
  <2>1. UNCHANGED <<call, link, failed>>
    BY <1>3, ReadsEffect
  <2>2. srv'.pc \in {"req", "open"}
    BY <1>3 DEF ReadCmd, ReadReq
  <2> QED BY <1>1, <2>1, <2>2 DEF UnboundInv, SoundInv, Bv, Asked
<1>4. CASE RecvAborted \/ AllServed \/ ReportUnbound \/ SendRaises
  <2>1. /\ call' = call /\ failed' = failed /\ srv' = IdleServer
        /\ link'[c] = IF link[c] # "open" THEN "down"
                      ELSE IF c2s[c] = <<>> THEN "sfin" ELSE "srst"
    BY <1>4, HandlerEndsEffect
  <2>2. UnboundInv(c)'
    BY <2>1 DEF UnboundInv, IdleServer
  <2>3. SoundInv(c)'
    <3> SUFFICES ASSUME call[c].pc \in Active, Sound(Bv(c))
                 PROVE  /\ failed[c] = 0 /\ link'[c] = "sfin"
                        /\ call[c].pc # "cmd" /\ Asked(c) = Len(Bv(c))
      BY <2>1 DEF SoundInv, Bv, Asked
    <3>1. failed[c] = 0 /\ link[c] \in {"open", "sfin"}
      BY <1>1 DEF SoundInv
    <3>2. AllServed
      <4>1. link[c] # "crst"
        BY <3>1
      <4>2. ~RecvAborted /\ ~SendRaises
        BY <4>1 DEF RecvAborted, SendRaises, Client
      <4>3. ~ReportUnbound
        BY <1>1, <3>1 DEF ReportUnbound, SrvAt, UnboundInv
      <4> QED BY <1>4, <4>2, <4>3
    <3>3. srv.pc = "req" /\ srv.k > srv.n /\ CmdRead(c) /\ ~Serving(c) /\ srv.k \in Nat \ {0}
      BY <3>2 DEF AllServed, SrvAt, CmdRead, Serving, Inv, TypeOK, ServerState
    <3>4. link[c] = "open"
      BY <1>1, <3>1, <3>3 DEF BaseInv, LinkInv
    <3>5. /\ call[c].pc # "cmd" /\ srv.n = Len(Bv(c)) /\ srv.k <= Asked(c) + 1
          /\ c2s[c] = Requests(Bv(c), srv.k, Asked(c))
      BY <1>1, <3>3, <3>4 DEF BaseInv, RequestInv, Unread
    <3>6. /\ call[c].k \in Nat \ {0} /\ Bv(c) \in Seq(Extent) /\ Len(Bv(c)) \in Nat
          /\ call[c].pc # "idle"
      BY CallFields DEF Active
    <3>7. Asked(c) \in Nat /\ Asked(c) <= Len(Bv(c))
      BY <1>1, <3>6 DEF BaseInv, PlaceInv, Started, Asked, Inv, CallInv, AtExtent, Bv
    <3>8. Asked(c) = Len(Bv(c)) /\ srv.k = Asked(c) + 1
      BY <3>3, <3>5, <3>6, <3>7
    <3>9. c2s[c] = <<>>
      BY <3>3, <3>5, <3>6, <3>7, <3>8, RequestsUnderWay
    <3> QED BY <2>1, <3>1, <3>4, <3>5, <3>8, <3>9
  <2> QED BY <2>2, <2>3
<1>5. CASE ServingStep
  <2>1. /\ srv.pc \in {"open", "chunk", "data", "except", "last"}
        /\ call' = call /\ srv'.c = c
        /\ srv'.pc # "except" => failed' = failed
        /\ link'[c] = link[c] \/ (link[c] = "cfin" /\ link'[c] = "crst")
    BY <1>5, ServingSteps
  <2>2. UnboundInv(c)'
    <3>1. srv \in [pc : {"open", "chunk", "data", "except", "last", "verbose"},
              c : Calls, k : Nat \ {0}, n : Nat, ext : Extent, off : Nat,
              i : Nat, bound : BOOLEAN]
      BY <2>1, ServerLocals DEF Inv
    <3>2. CASE OpenFile
      BY <3>1, <3>2 DEF OpenFile, UnboundInv
    <3>3. CASE OpenFails \/ ReadFails \/ SendRaisesInTry
      BY <3>1, <3>3 DEF OpenFails, ReadFails, SendRaisesInTry, ToExcept, UnboundInv
    <3>4. CASE SendError
      BY <1>1, <2>1, <3>1, <3>4 DEF SendError, SrvAt, UnboundInv, BaseInv, FailInv
    <3>5. CASE SendChunkHeader \/ SendChunkData \/ ChunksDone \/ SendLast
      <4>1. srv.pc \in {"chunk", "data", "last"} /\ srv'.bound = srv.bound /\ srv'.pc # "except"
        BY <3>1, <3>5 DEF SendChunkHeader, SendChunkData, ChunksDone, SendLast, SrvAt
      <4> QED BY <1>1, <2>1, <4>1 DEF UnboundInv
    <3> QED BY <1>5, <3>2, <3>3, <3>4, <3>5 DEF ServingStep
  <2>3. SoundInv(c)'
    <3> SUFFICES ASSUME call[c].pc \in Active, Sound(Bv(c))
                 PROVE  failed'[c] = 0 /\ link'[c] = "open"
      BY <2>1 DEF SoundInv, Bv
    <3>1. failed[c] = 0 /\ link[c] \in {"open", "sfin"}
      BY <1>1 DEF SoundInv
    <3>2. link[c] = "open"
      BY <1>1, <2>1, <3>1 DEF BaseInv, LinkInv, CmdRead
    <3>3. srv'.pc # "except"
      BY <1>5, <3>2, NoFailure
    <3> QED BY <2>1, <3>1, <3>2, <3>3
  <2> QED BY <2>2, <2>3
<1>6. CASE Report
  <2>1. UNCHANGED <<call, link, failed>> /\ srv'.pc = "req"
    BY <1>6 DEF Report
  <2> QED BY <1>1, <2>1 DEF UnboundInv, SoundInv, Bv, Asked
<1> QED BY <1>2, <1>3, <1>4, <1>5, <1>6 DEF ServerStep, ServingStep

LEMMA SoundStep ==
  ASSUME Inv, Base, OffsetInv, Soundness, [Next]_vars, restarts' = restarts
  PROVE  Soundness'
<1> SUFFICES ASSUME NEW d \in Calls PROVE UnboundInv(d)' /\ SoundInv(d)'
  BY DEF Soundness
<1>1. UnboundInv(d) /\ SoundInv(d)
  BY DEF Soundness
<1>2. ASSUME NEW c \in Calls, (\E j \in Jobs : Connect(c, j)) \/ ClientStep(c) \/ Die(c)
      PROVE  UnboundInv(d)' /\ SoundInv(d)'
  <2>1. CASE d # c
    BY <1>1, <1>2, <2>1, ClientElsewhere, SoundFrame
  <2>2. CASE d = c
    BY <1>2, <2>2, ClientSound
  <2> QED BY <2>1, <2>2
<1>3. CASE ServerStep
  <2>1. CASE srv.c = d
    BY <1>3, <2>1, ServerSound
  <2>2. CASE srv.c # d /\ srv'.c # d
    BY <1>1, <1>3, <2>2, ServerElsewhere, SoundFrame
  <2>3. CASE srv.c # d /\ srv'.c = d
    <3>1. Accept
      BY <1>3, <2>3, ServerClient
    <3>2. UNCHANGED <<call, link, failed>> /\ srv'.pc = "cmd"
      BY <3>1 DEF Accept
    <3> QED BY <1>1, <3>2 DEF UnboundInv, SoundInv, Bv, Asked
  <2> QED BY <2>1, <2>2, <2>3
<1>4. ~RestartServer
  BY DEF RestartServer, Inv, TypeOK
<1>5. CASE UNCHANGED vars
  <2>1. Elsewhere(d)
    BY <1>5 DEF vars, Elsewhere
  <2> QED BY <1>1, <2>1, SoundFrame
<1> QED BY <1>2, <1>3, <1>4, <1>5 DEF Next

LEMMA InitSound == Init => Soundness
<1> SUFFICES ASSUME Init, NEW c \in Calls PROVE UnboundInv(c) /\ SoundInv(c)
  BY DEF Soundness
<1>1. call[c].pc = "idle" /\ srv.pc = "accept"
  BY DEF Init, Idle, IdleServer
<1> QED BY <1>1 DEF UnboundInv, SoundInv, Active

----------------------------------------------------------------------------
\* Each step is one of BlockRead or none

LEMMA ShownToCallers ==
  /\ phase = [d \in Calls |-> phase[d]]
  /\ request = [d \in Calls |-> request[d]]
  /\ answer = [d \in Calls |-> answer[d]]
  BY DEF phase, request, answer

\* A step of call c leaves what the others show their callers.
LEMMA OneCallMaps ==
  ASSUME NEW c \in Calls, \A d \in Calls : d # c => call'[d] = call[d] /\ buf'[d] = buf[d],
         NEW p, NEW r, NEW a, phase'[c] = p, request'[c] = r, answer'[c] = a
  PROVE  /\ phase' = [phase EXCEPT ![c] = p]
         /\ request' = [request EXCEPT ![c] = r]
         /\ answer' = [answer EXCEPT ![c] = a]
<1>1. \A d \in Calls : d # c =>
        phase'[d] = phase[d] /\ request'[d] = request[d] /\ answer'[d] = answer[d]
  BY DEF phase, request, answer, Started
<1>2. /\ phase' = [d \in Calls |-> phase'[d]]
      /\ request' = [d \in Calls |-> request'[d]]
      /\ answer' = [d \in Calls |-> answer'[d]]
  BY DEF phase, request, answer
<1>3. phase' = [phase EXCEPT ![c] = p]
  BY <1>1, <1>2, ShownToCallers
<1>4. request' = [request EXCEPT ![c] = r]
  BY <1>1, <1>2, ShownToCallers
<1>5. answer' = [answer EXCEPT ![c] = a]
  BY <1>1, <1>2, ShownToCallers
<1> QED BY <1>3, <1>4, <1>5

\* The buffer of a call that returns is the image of a sound request.
LEMMA ImageOfSound ==
  ASSUME Inv, Base, Buffers, Soundness, NEW c \in Calls, Return(c), Sound(Bv(c))
  PROVE  BR!IsImage(Bv(c), buf[c])
<1>1. /\ call[c].pc = "req" /\ ~(call[c].k <= Len(Bv(c))) /\ call[c].pc # "idle"
  BY DEF Return, MoreExtents, Bv
<1>2. /\ Bv(c) \in Seq(Extent) /\ Len(Bv(c)) \in Nat /\ call[c].k \in Nat
  BY <1>1, CallFields
<1>3. failed[c] = 0
  BY <1>1 DEF Soundness, SoundInv, Active
<1>4. DOMAIN buf[c] = 0..(Starts(Bv(c))[Len(Bv(c))] - 1)
  BY <1>1 DEF Inv, TypeOK, Started, Bv, Total
<1>5. ASSUME NEW k \in 1..Len(Bv(c)), NEW i \in 0..(Bv(c)[k].cnt - 1)
      PROVE  buf[c][Starts(Bv(c))[k - 1] + i] =
               IF Bv(c)[k].off + i < Length[Bv(c)[k].dev]
                 THEN <<Bv(c)[k].dev, Bv(c)[k].off + i>> ELSE Zero
  <2>1. Bv(c)[k].cnt \in Nat /\ Bv(c)[k].cnt <= Chunk
    BY <1>2, Places DEF Sound
  <2>2. i \in FirstChunk(Bv(c)[k])
    BY <2>1, ConstantsAssumption DEF FirstChunk, LesserOf
  <2>3. k < call[c].k /\ k \in Extents(c)
    BY <1>1, <1>2 DEF Extents, Bv
  <2>4. Got(c, k, i) = RightCell(Bv(c)[k], i)
    BY <1>1, <1>3, <2>2, <2>3 DEF Buffers, BufferInv, PlacesInv, Started
  <2> QED BY <2>4 DEF Got, RightCell, Bv
<1> QED BY <1>4, <1>5 DEF BR!IsImage, Starts

\* A read raises only for a request that is not sound.
LEMMA OnlyUnsoundRaise ==
  ASSUME Inv, Base, Streams, Buffers, Soundness, NEW c \in Calls,
         \/ TooManyBlocks(c) \/ BufferTooSmall(c) \/ PeerReset(c)
         \/ (RecvGarbage(c) /\ call'[c].pc = "raised")
  PROVE  ~Sound(Bv(c))
<1> SUFFICES ASSUME Sound(Bv(c)) PROVE FALSE
  OBVIOUS
<1>1. call[c].pc \in Active /\ call[c].pc # "idle"
  BY DEF TooManyBlocks, BufferTooSmall, PeerReset, RecvGarbage, Active
<1>2. failed[c] = 0 /\ link[c] # "srst"
  BY <1>1 DEF Soundness, SoundInv
<1>3. /\ call[c].l \in Nat /\ call[c].off \in Nat /\ Bv(c) \in Seq(Extent)
      /\ Len(Bv(c)) \in Nat /\ call[c].k \in Nat \ {0}
  BY <1>1, CallFields
<1>4. CASE TooManyBlocks(c)
  <2>1. Len(Bv(c)) > MaxByte /\ Len(Bv(c)) <= MaxByte
    BY <1>4 DEF TooManyBlocks, Sound, Bv
  <2> QED BY <1>3, <2>1, ConstantsAssumption
<1>5. CASE PeerReset(c)
  BY <1>2, <1>5 DEF PeerReset
<1>6. CASE RecvGarbage(c)
  BY <1>2, <1>6, InSyncHead DEF RecvGarbage, InSync
<1>7. CASE BufferTooSmall(c)
  <2> DEFINE k == call[c].k
             e == Current(c)
             o == call[c].off
             l == call[c].l
             a == Starts(Bv(c))[k - 1]
             b == Starts(Bv(c))[k]
             z == Total(Bv(c))
             s == a + (o - e.off)
  <2>1. call[c].pc = "data" /\ l > Room(c)
    BY <1>7 DEF BufferTooSmall
  <2>2. k \in 1..Len(Bv(c)) /\ call[c].boff = a /\ e = Bv(c)[k]
    BY <2>1 DEF Inv, CallInv, AtExtent, Base, BaseInv, PlaceInv, Started, Bv, Current
  <2>3. /\ e.cnt \in Nat /\ e.off \in Nat /\ a \in Nat /\ b = a + e.cnt
        /\ b <= z /\ z \in Nat
    BY <1>3, <2>2, Places
  <2>4. e.off <= o /\ o + l <= e.off + e.cnt
    BY <1>2, <2>1 DEF InSync, Buffers, BufferInv, ContentInv, Packet
  <2>5. Room(c) = z - SliceStart(z, s)
    BY <2>2 DEF Room, WriteAt, Bv
  <2>6. o \in Nat /\ l \in Nat
    BY <1>3
  <2> HIDE DEF k, e, o, l, a, b, z
  <2> DEFINE x == e.off
             n == e.cnt
  <2>7. x \in Nat /\ n \in Nat /\ s = a + (o - x)
    BY <2>3
  <2>8. x <= o /\ o + l <= x + n /\ b = a + n
    BY <2>3, <2>4
  <2> HIDE DEF x, n, s
  <2>9. s \in Nat /\ s + l <= z
    BY <2>3, <2>6, <2>7, <2>8
  <2>10. SliceStart(z, s) = s
    BY <2>3, <2>6, <2>9 DEF SliceStart, LesserOf
  <2> QED BY <2>1, <2>3, <2>5, <2>6, <2>9, <2>10
<1> QED BY <1>4, <1>5, <1>6, <1>7

LEMMA InitRead == Init => BR!BRInit
  BY DEF Init, BR!BRInit, phase, request, answer, Started, Idle

LEMMA ReadStep ==
  ASSUME AllInv, Soundness, [Next]_vars, restarts' = restarts
  PROVE  [BR!BRNext]_(BR!brvars)
<1> USE DEF AllInv
<1>1. ASSUME NEW c \in Calls, NEW j \in Jobs, Connect(c, j) PROVE BR!Ask(c)
  <2>1. /\ call[c].pc = "idle" /\ call'[c].pc = "cmd" /\ call'[c].job = j
        /\ \A d \in Calls : d # c => call'[d] = call[d] /\ buf'[d] = buf[d]
    BY <1>1 DEF Connect, Inv, TypeOK
  <2>2. /\ phase[c] = "idle" /\ phase'[c] = "asked" /\ request'[c] = j.blockv
        /\ answer'[c] = <<>> /\ answer[c] = <<>>
    BY <2>1 DEF phase, request, answer, Started
  <2>3. /\ phase' = [phase EXCEPT ![c] = "asked"]
        /\ request' = [request EXCEPT ![c] = j.blockv]
        /\ answer' = [answer EXCEPT ![c] = <<>>]
    BY <2>1, <2>2, OneCallMaps
  <2>4. answer' = answer
    BY <2>2, <2>3 DEF answer
  <2>5. j.blockv \in AllRequests
    BY DEF AllRequests
  <2> QED BY <2>2, <2>3, <2>4, <2>5 DEF BR!Ask
<1>2. ASSUME NEW c \in Calls, Return(c) PROVE BR!Answer(c)
  <2>1. /\ call[c].pc = "req" /\ call'[c].pc = "done" /\ call'[c].job = call[c].job
        /\ buf' = buf
        /\ \A d \in Calls : d # c => call'[d] = call[d] /\ buf'[d] = buf[d]
    BY <1>2, CallFields DEF Return, Inv, TypeOK, CallState
  <2>2. /\ phase[c] = "asked" /\ phase'[c] = "answered"
        /\ request[c] = Bv(c) /\ request'[c] = Bv(c) /\ answer'[c] = buf[c]
    BY <2>1 DEF phase, request, answer, Started, Bv
  <2>3. /\ phase' = [phase EXCEPT ![c] = "answered"]
        /\ request' = [request EXCEPT ![c] = Bv(c)]
        /\ answer' = [answer EXCEPT ![c] = buf[c]]
    BY <2>1, <2>2, OneCallMaps
  <2>4. request' = request
    BY <2>2, <2>3 DEF request
  <2>5. Sound(Bv(c)) => BR!IsImage(Bv(c), buf[c])
    BY <1>2, ImageOfSound
  <2> QED BY <2>2, <2>3, <2>4, <2>5 DEF BR!Answer
<1>3. ASSUME NEW c \in Calls,
             \/ TooManyBlocks(c) \/ BufferTooSmall(c) \/ PeerReset(c)
             \/ (RecvGarbage(c) /\ call'[c].pc = "raised")
      PROVE  BR!Raise(c)
  <2>1. PICK p \in Ended : Closes(c, p) /\ call[c].pc \in Active
    BY <1>3, ClosingSteps
  <2>2. call[c].pc # "idle"
    BY <2>1 DEF Active
  <2>3. /\ call'[c].pc = p /\ call'[c].job = call[c].job
        /\ \A d \in Calls : d # c => call'[d] = call[d] /\ buf'[d] = buf[d]
    BY <2>1, <2>2, CallFields DEF Closes, Inv, TypeOK, CallState
  <2>4. call'[c].pc = "raised"
    <3>1. call[c] \in CallState
      BY <2>2, CallFields
    <3>2. CASE call' = [call EXCEPT ![c].pc = "raised"]
      BY <3>1, <3>2 DEF Inv, TypeOK, CallState
    <3> QED BY <1>3, <3>2 DEF TooManyBlocks, BufferTooSmall, PeerReset
  <2>5. /\ phase[c] = "asked" /\ phase'[c] = "raised"
        /\ request[c] = Bv(c) /\ request'[c] = Bv(c) /\ answer[c] = <<>> /\ answer'[c] = <<>>
    BY <2>1, <2>2, <2>3, <2>4 DEF phase, request, answer, Started, Bv, Active
  <2>6. /\ phase' = [phase EXCEPT ![c] = "raised"]
        /\ request' = [request EXCEPT ![c] = Bv(c)]
        /\ answer' = [answer EXCEPT ![c] = <<>>]
    BY <2>3, <2>5, OneCallMaps
  <2>7. request' = request /\ answer' = answer
    BY <2>5, <2>6 DEF request, answer
  <2>8. ~Sound(Bv(c))
    BY <1>3, OnlyUnsoundRaise
  <2> QED BY <2>5, <2>6, <2>7, <2>8 DEF BR!Raise
<1>4. ASSUME NEW c \in Calls,
             \/ SendCmd(c) \/ SendReq(c) \/ RecvEnd(c) \/ RecvNext(c) \/ RecvData(c)
             \/ (RecvGarbage(c) /\ call'[c].pc # "raised")
             \/ Die(c)
      PROVE  UNCHANGED BR!brvars
  <2>1. /\ call[c].pc \in Active /\ call'[c].pc \in Active \union {"dead"}
        /\ call'[c].job = call[c].job
    <3>1. CASE SendCmd(c) \/ SendReq(c)
      <4>1. call[c].pc \in {"cmd", "req"} /\ call[c].pc # "idle"
        BY <3>1 DEF SendCmd, SendReq
      <4>2. call[c] \in CallState
        BY <4>1, CallFields
      <4>3. call'[c].pc \in {"req", "hdr"} /\ call'[c].job = call[c].job
        BY <3>1, <4>2 DEF SendCmd, SendReq, Inv, TypeOK, CallState
      <4> QED BY <4>1, <4>3 DEF Active
    <3>2. CASE Die(c)
      BY <3>2, CallFields DEF Die, Active, Inv, TypeOK, CallState
    <3>3. CASE \/ RecvEnd(c) \/ RecvNext(c) \/ RecvData(c)
               \/ (RecvGarbage(c) /\ call'[c].pc # "raised")
      <4>1. /\ call[c].pc \in {"hdr", "data"} /\ call'[c].job = call[c].job
            /\ call'[c].pc \in {"hdr", "data"} \/ Advance(c)
        BY <3>3, ReceivingSteps
      <4> QED BY <4>1, AdvanceEffect DEF Active
    <3> QED BY <1>4, <3>1, <3>2, <3>3
  <2>2. \A d \in Calls : d # c => call'[d] = call[d] /\ buf'[d] = buf[d]
    <3>1. ClientStep(c) \/ Die(c)
      BY <1>4 DEF ClientStep
    <3> QED BY <3>1, ClientElsewhere DEF Elsewhere
  <2>3. /\ phase'[c] = phase[c] /\ request'[c] = request[c] /\ answer'[c] = answer[c]
    BY <2>1 DEF phase, request, answer, Started, Active
  <2>4. /\ phase' = [phase EXCEPT ![c] = phase[c]]
        /\ request' = [request EXCEPT ![c] = request[c]]
        /\ answer' = [answer EXCEPT ![c] = answer[c]]
    BY <2>2, <2>3, OneCallMaps
  <2>5. phase' = phase /\ request' = request /\ answer' = answer
    BY <2>4, ShownToCallers
  <2> QED BY <2>5 DEF BR!brvars
<1>5. ASSUME call' = call, buf' = buf PROVE UNCHANGED BR!brvars
  BY <1>5 DEF BR!brvars, phase, request, answer, Started
<1>6. CASE \E c \in Calls : (\E j \in Jobs : Connect(c, j)) \/ ClientStep(c) \/ Die(c)
  <2>1. PICK c \in Calls : (\E j \in Jobs : Connect(c, j)) \/ ClientStep(c) \/ Die(c)
    BY <1>6
  <2>2. BR!Ask(c) \/ BR!Answer(c) \/ BR!Raise(c) => BR!BRNext
    BY DEF BR!BRNext
  <2> QED BY <1>1, <1>2, <1>3, <1>4, <2>1, <2>2 DEF ClientStep
<1>7. CASE ServerStep
  <2>1. call' = call /\ buf' = buf
    BY <1>7 DEF ServerStep, Accept, ReadCmd, ReadReq, RecvAborted, AllServed, OpenFile, OpenFails,
       SendChunkHeader, SendChunkData, ReadFails, ToExcept, ChunksDone, SendError, SendLast, Report,
       ReportUnbound, SendRaisesInTry, SendRaises
  <2> QED BY <1>5, <2>1
<1>8. ~RestartServer
  BY DEF RestartServer, Inv, TypeOK
<1>9. CASE UNCHANGED vars
  BY <1>5, <1>9 DEF vars
<1> QED BY <1>6, <1>7, <1>8, <1>9 DEF Next

\* While the server is not restarted, a read is one step to its caller, whatever
\* else the server does in between and whoever is killed: a request of readv
\* whose extents each fit a chunk, of devices that open and can be read, comes
\* back with their image and never with an exception.
THEOREM ReadIsOneStep == Spec /\ [][restarts' = restarts]_vars => BR!BRSpec
<1>1. Init => Soundness /\ BR!BRInit
  BY InitSound, InitRead
<1>2. AllInv /\ Soundness /\ [Next]_vars /\ [restarts' = restarts]_vars
        => Soundness' /\ [BR!BRNext]_(BR!brvars)
  <2> SUFFICES ASSUME AllInv, Soundness, [Next]_vars, [restarts' = restarts]_vars
               PROVE  Soundness' /\ [BR!BRNext]_(BR!brvars)
    OBVIOUS
  <2>1. restarts' = restarts
    BY DEF vars
  <2>2. Soundness'
    BY <2>1, SoundStep DEF AllInv, Streams
  <2> QED BY <2>1, <2>2, ReadStep
<1> QED BY <1>1, <1>2, AllHolds, PTL DEF Spec, BR!BRSpec
=============================================================================
