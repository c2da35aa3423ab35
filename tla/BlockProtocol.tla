--------------------------- MODULE BlockProtocol ---------------------------
(***************************************************************************)
(* The remote block reader: BlockProxy (block_proxy/proxy.py) on one side, *)
(* the single-threaded block server (block_server/server.py) on the other, *)
(* one TCP connection per read.                                            *)
(*                                                                         *)
(* A "call" is one execution of BlockProxy.read or BlockProxy.readv: it    *)
(* opens its own socket, sends a command byte and a length byte, then for  *)
(* each extent sends a request and reads the packets of the answer, and    *)
(* closes the socket in its finally clause.  Bytes of data are abstracted  *)
(* to cells, a cell being named by the device and the address it was read  *)
(* from; a header travels as one item, so does a cell.                     *)
(*                                                                         *)
(* The network is a pair of FIFO streams per connection.  link[c] says who *)
(* has closed the connection of call c:                                    *)
(*   "none"  not connected yet          "open"  both ends are open         *)
(*   "cfin"  the client closed (FIN)    "crst"  and the server got a RST   *)
(*   "sfin"  the server closed (FIN)    "srst"  and the client got a RST   *)
(*   "down"  both ends are closed                                          *)
(***************************************************************************)
EXTENDS Integers, Sequences

CONSTANTS
  Calls,        \* the executions of BlockProxy.read / readv
  Devs,         \* device paths, as the server's translation table maps them
  Length,       \* Length[d]: the cells of the file behind device d
  Openable,     \* the devices whose file open() succeeds
  BadCells,     \* <<device, address>> pairs whose read raises OSError
  Chunk,        \* CHUNKSIZE, in cells
  MaxByte,      \* the largest number of extents '=BB' can carry (255)
  Jobs,         \* the argument lists calls are made with
  MayDie,       \* the calls whose process may be killed
  MaxRestarts,  \* how often the server may be killed and started again
  Zero,         \* what bytearray(count) holds before anything is received
  NoCall        \* the server serves nobody

Extent == [dev : Devs, off : Nat, cnt : Nat]
Cell   == (Devs \X Nat) \union {Zero}

ASSUME ConstantsAssumption ==
  /\ Length \in [Devs -> Nat]
  /\ Openable \subseteq Devs
  /\ BadCells \subseteq Devs \X Nat
  /\ Chunk \in Nat \ {0}
  /\ MaxByte \in Nat
  /\ Jobs \subseteq [op : {"r", "v"}, blockv : Seq(Extent)]
  /\ \A j \in Jobs : j.op = "r" => Len(j.blockv) = 1
  /\ MayDie \subseteq Calls
  /\ MaxRestarts \in Nat
  /\ Zero \notin Devs \X Nat
  /\ NoCall \notin Calls

\* The columns of a RAID-Z row, the only requests of several extents (zio.py:203),
\* lie at one offset or a sector behind it, and each has a sector at least
\* (_map_alloc): no extent begins behind the end of one before it.
ASSUME RowsAssumption ==
  \A j \in Jobs : \A a, b \in 1..Len(j.blockv) :
    a < b => j.blockv[b].off <= j.blockv[a].off + j.blockv[a].cnt

VARIABLES
  call,      \* call[c]: the client's locals, but for
  buf,       \* buf[c]: the buffer its answer is put together in
  link,      \* link[c]: the state of the connection, see above
  c2s,       \* c2s[c]: what the client sent and the server did not read
  s2c,       \* s2c[c]: what the server sent and the client did not read
  backlog,   \* connections the kernel holds for the server's accept()
  srv,       \* the server's locals
  restarts,  \* how often the server was restarted
  failed     \* history: the extent whose answer was first cut short by 'e'

vars == <<call, buf, link, c2s, s2c, backlog, srv, restarts, failed>>

----------------------------------------------------------------------------
\* Places in the answer buffer

LesserOf(a, b)  == IF a < b THEN a ELSE b
GreaterOf(a, b) == IF a > b THEN a ELSE b

\* Starts(bv)[k]: where the k+1st extent's bytes go, the sum of the sizes
\* before it; Starts(bv)[Len(bv)] is the size of the buffer.
Starts(bv) ==
  LET sum[k \in 0..Len(bv)] == IF k = 0 THEN 0 ELSE sum[k-1] + bv[k].cnt
  IN  sum
Total(bv) == Starts(bv)[Len(bv)]

\* Where view[s:] begins, for the index s that Python is given.
SliceStart(total, s) ==
  IF s < 0 THEN GreaterOf(0, total + s) ELSE LesserOf(s, total)

----------------------------------------------------------------------------
\* Items on the wire

Header(tag, off, len) == [t |-> tag, off |-> off, len |-> len]
Data(cell)            == [t |-> "d", cell |-> cell]
HeaderItem == [t : {"n", "e", "l"}, off : Nat, len : Nat]
DataItem   == [t : {"d"}, cell : Devs \X Nat]
CmdItem    == [t : {"cmd"}, op : {"r", "v"}, n : Nat]
ReqItem    == [t : {"req"}, ext : Extent]

\* f.seek(addr); f.read(l): the cells before the end of the file, if any.
FileRead(dev, addr, l) ==
  LET n == LesserOf(l, GreaterOf(0, Length[dev] - addr))
  IN  [i \in 1..n |-> Data(<<dev, addr + i - 1>>)]
ReadRaises(dev, addr, l) ==
  \E i \in 0..(l - 1) : addr + i < Length[dev] /\ <<dev, addr + i>> \in BadCells

Idle     == [pc |-> "idle"]
IdleServer == [pc |-> "accept", c |-> NoCall]

Init ==
  /\ call = [c \in Calls |-> Idle]
  /\ buf = [c \in Calls |-> <<>>]
  /\ link = [c \in Calls |-> "none"]
  /\ c2s = [c \in Calls |-> <<>>]
  /\ s2c = [c \in Calls |-> <<>>]
  /\ backlog = <<>>
  /\ srv = IdleServer
  /\ restarts = 0
  /\ failed = [c \in Calls |-> 0]

----------------------------------------------------------------------------
\* The client: BlockProxy._read_network, _readv_network, _read_network_buf

\* sock.close(): unread input turns the FIN into a RST.
ClientClose(c) ==
  /\ link' = [link EXCEPT ![c] =
       CASE @ = "open" /\ s2c[c] = <<>> -> "cfin"
         [] @ = "open" /\ s2c[c] # <<>> -> "crst"
         [] OTHER -> "down"]
  /\ s2c' = [s2c EXCEPT ![c] = <<>>]

\* sock.sendall(): a peer that has closed answers with a RST.
ClientSend(c, item) ==
  /\ link[c] \in {"open", "sfin"}
  /\ link' = [link EXCEPT ![c] = IF @ = "open" THEN @ ELSE "srst"]
  /\ c2s' = [c2s EXCEPT ![c] = IF link[c] = "open" THEN Append(@, item) ELSE @]

\* buf = bytearray(count); socket(); connect()
Connect(c, j) ==
  /\ call[c].pc = "idle"
  /\ call' = [call EXCEPT ![c] =
       [pc |-> "cmd", job |-> j, k |-> 1, boff |-> 0, count |-> 0,
        off |-> 0, l |-> 0]]
  /\ buf' = [buf EXCEPT ![c] = [i \in 0..(Total(j.blockv) - 1) |-> Zero]]
  /\ link' = [link EXCEPT ![c] = "open"]
  /\ backlog' = Append(backlog, c)
  /\ UNCHANGED <<c2s, s2c, srv, restarts, failed>>

\* sendall(pack('=BB', op, n)); the count must fit a byte.
SendCmd(c) ==
  /\ call[c].pc = "cmd"
  /\ Len(call[c].job.blockv) <= MaxByte
  /\ call' = [call EXCEPT ![c].pc = "req"]
  /\ ClientSend(c, [t |-> "cmd", op |-> call[c].job.op,
                    n |-> Len(call[c].job.blockv)])
  /\ UNCHANGED <<s2c, backlog, srv, restarts, failed, buf>>

\* struct.error: an exception leaves the call through the finally clause.
TooManyBlocks(c) ==
  /\ call[c].pc = "cmd"
  /\ Len(call[c].job.blockv) > MaxByte
  /\ call' = [call EXCEPT ![c].pc = "raised"]
  /\ ClientClose(c)
  /\ UNCHANGED <<c2s, backlog, srv, restarts, failed, buf>>

\* The extent the call is at.
Current(c) == call[c].job.blockv[call[c].k]
\* Mutant: the loop over blockv stops one short.
MoreExtentsButLast(c) == call[c].k < Len(call[c].job.blockv)
MoreExtents(c) == call[c].k <= Len(call[c].job.blockv)

SendReq(c) ==
  /\ call[c].pc = "req"
  /\ MoreExtents(c)
  /\ call' = [call EXCEPT ![c].pc = "hdr", ![c].count = Current(c).cnt]
  /\ ClientSend(c, [t |-> "req", ext |-> Current(c)])
  /\ UNCHANGED <<s2c, backlog, srv, restarts, failed, buf>>

\* Mutant: `boff += block[2]` is missing.
AdvanceInPlace(c) ==
  call' = [call EXCEPT ![c].pc = "req", ![c].k = @ + 1]

\* break, then boff += block[2] for the next extent
Advance(c) ==
  call' = [call EXCEPT ![c].pc = "req", ![c].k = @ + 1,
                       ![c].boff = @ + Current(c).cnt]

RecvEnd(c) ==
  /\ call[c].pc = "hdr"
  /\ s2c[c] # <<>>
  /\ Head(s2c[c]).t \in {"e", "l"}
  /\ s2c' = [s2c EXCEPT ![c] = Tail(@)]
  /\ Advance(c)
  /\ UNCHANGED <<link, c2s, backlog, srv, restarts, failed, buf>>

RecvNext(c) ==
  /\ call[c].pc = "hdr"
  /\ s2c[c] # <<>>
  /\ LET h == Head(s2c[c]) IN
       /\ h.t = "n"
       /\ s2c' = [s2c EXCEPT ![c] = Tail(@)]
       /\ IF call[c].count <= 0
            THEN Advance(c)
            ELSE call' = [call EXCEPT
                   ![c].pc = IF h.len > 0 THEN "data" ELSE "hdr",
                   ![c].count = @ - h.len, ![c].off = h.off, ![c].l = h.len]
  /\ UNCHANGED <<link, c2s, backlog, srv, restarts, failed, buf>>

\* A stream out of step shows data where a header is due.  Seventeen bytes of
\* it read as 'e', 'l' or an unknown code end the answer, as an empty 'n' they
\* leave the loop running, and as any other 'n' they raise in recv_into or end
\* the answer.  (A random length that fits the buffer is left out.)
RecvGarbage(c) ==
  /\ call[c].pc = "hdr"
  /\ s2c[c] # <<>>
  /\ Head(s2c[c]).t = "d"
  /\ \/ /\ s2c' = [s2c EXCEPT ![c] = Tail(@)]
        /\ Advance(c)
        /\ UNCHANGED link
     \/ /\ s2c' = [s2c EXCEPT ![c] = Tail(@)]
        /\ UNCHANGED <<call, link>>
     \/ /\ call' = [call EXCEPT ![c].pc = "raised"]
        /\ ClientClose(c)
  /\ UNCHANGED <<c2s, backlog, srv, restarts, failed, buf>>

\* Mutant: the packet's offset is not taken relative to the extent's.
WriteAtOffset(c) ==
  SliceStart(Total(call[c].job.blockv), call[c].boff + call[c].off)

\* view[boff+(off-offset):], and what of it is left
WriteAt(c) ==
  SliceStart(Total(call[c].job.blockv),
             call[c].boff + (call[c].off - Current(c).off))
Room(c) == Total(call[c].job.blockv) - WriteAt(c)

\* Mutant: the answer ends with its last cell of data, 'l' stays in the stream.
RecvDataAndStop(c) ==
  /\ call[c].pc = "data"
  /\ call[c].l <= Room(c)
  /\ s2c[c] # <<>>
  /\ s2c' = [s2c EXCEPT ![c] = Tail(@)]
  /\ buf' = [buf EXCEPT ![c][WriteAt(c)] = Head(s2c[c]).cell]
  /\ IF call[c].l = 1 /\ call[c].count <= 0
       THEN Advance(c)
       ELSE call' = [call EXCEPT ![c].off = @ + 1, ![c].l = @ - 1,
                                 ![c].pc = IF call[c].l = 1 THEN "hdr" ELSE "data"]
  /\ UNCHANGED <<link, c2s, backlog, srv, restarts, failed>>

\* recv_into(view[...], l) returns with one cell; larger returns are several
\* of these steps.
RecvData(c) ==
  /\ call[c].pc = "data"
  /\ call[c].l <= Room(c)
  /\ s2c[c] # <<>>
  /\ s2c' = [s2c EXCEPT ![c] = Tail(@)]
  /\ buf' = [buf EXCEPT ![c][WriteAt(c)] = Head(s2c[c]).cell]
  /\ call' = [call EXCEPT ![c].off = @ + 1, ![c].l = @ - 1,
                          ![c].pc = IF call[c].l = 1 THEN "hdr" ELSE "data"]
  /\ UNCHANGED <<link, c2s, backlog, srv, restarts, failed>>

\* ValueError: nbytes is greater than the length of the buffer
BufferTooSmall(c) ==
  /\ call[c].pc = "data"
  /\ call[c].l > Room(c)
  /\ call' = [call EXCEPT ![c].pc = "raised"]
  /\ ClientClose(c)
  /\ UNCHANGED <<c2s, backlog, srv, restarts, failed, buf>>

\* ECONNRESET or EPIPE out of a send or a receive
PeerReset(c) ==
  /\ call[c].pc \in {"cmd", "req", "hdr", "data"}
  /\ call[c].pc = "req" => MoreExtents(c)
  /\ link[c] = "srst"
  /\ call' = [call EXCEPT ![c].pc = "raised"]
  /\ ClientClose(c)
  /\ UNCHANGED <<c2s, backlog, srv, restarts, failed, buf>>

Return(c) ==
  /\ call[c].pc = "req"
  /\ ~MoreExtents(c)
  /\ call' = [call EXCEPT ![c].pc = "done"]
  /\ ClientClose(c)
  /\ UNCHANGED <<c2s, backlog, srv, restarts, failed, buf>>

\* The process of the call is killed; the kernel closes its socket.
Die(c) ==
  /\ c \in MayDie
  /\ call[c].pc \in {"cmd", "req", "hdr", "data"}
  /\ call' = [call EXCEPT ![c].pc = "dead"]
  /\ ClientClose(c)
  /\ UNCHANGED <<c2s, backlog, srv, restarts, failed, buf>>

ClientStep(c) ==
  \/ SendCmd(c) \/ TooManyBlocks(c) \/ SendReq(c)
  \/ RecvEnd(c) \/ RecvNext(c) \/ RecvGarbage(c) \/ RecvData(c)
  \/ BufferTooSmall(c) \/ PeerReset(c) \/ Return(c)

----------------------------------------------------------------------------
\* The server: TCPServer.serve_forever, BlockTCPHandler.handle and below

SrvAt(pc)  == srv.pc = pc
Client     == srv.c
Arrived(t) == c2s[Client] # <<>> /\ Head(c2s[Client]).t = t
Consume    == c2s' = [c2s EXCEPT ![Client] = Tail(@)]

\* request.sendall(): what a closed client is sent is lost, and draws a RST.
ServerSend(items) ==
  /\ s2c' = [s2c EXCEPT ![Client] = IF link[Client] = "open" THEN @ \o items ELSE @]
  /\ link' = [link EXCEPT ![Client] = IF @ = "cfin" THEN "crst" ELSE @]

\* Mutant: the handler object outlives its connection.
HandlerEndsKeepingClient ==
  /\ link' = [link EXCEPT ![Client] = IF @ = "open" THEN "sfin" ELSE "down"]
  /\ c2s' = [c2s EXCEPT ![Client] = <<>>]
  /\ srv' = [pc |-> "accept", c |-> Client]

\* shutdown_request(): the end of handle(), or of an exception in it
HandlerEnds ==
  /\ link' = [link EXCEPT ![Client] =
       CASE @ = "open" /\ c2s[Client] = <<>> -> "sfin"
         [] @ = "open" /\ c2s[Client] # <<>> -> "srst"
         [] OTHER -> "down"]
  /\ c2s' = [c2s EXCEPT ![Client] = <<>>]
  /\ srv' = IdleServer

Accept ==
  /\ SrvAt("accept")
  /\ backlog # <<>>
  /\ backlog' = Tail(backlog)
  /\ srv' = [pc |-> "cmd", c |-> Head(backlog)]
  /\ UNCHANGED <<call, link, c2s, s2c, restarts, failed, buf>>

\* handle: the command, and for 'v' the number of requests
ReadCmd ==
  /\ SrvAt("cmd")
  /\ Arrived("cmd")
  /\ srv' = [pc |-> "req", c |-> Client, k |-> 1,
             n |-> IF Head(c2s[Client]).op = "r" THEN 1 ELSE Head(c2s[Client]).n]
  /\ Consume
  /\ UNCHANGED <<call, link, s2c, backlog, restarts, failed, buf>>

\* offset, count and path of the next request
ReadReq ==
  /\ SrvAt("req")
  /\ srv.k <= srv.n
  /\ Arrived("req")
  /\ srv' = [pc |-> "open", c |-> Client, k |-> srv.k, n |-> srv.n,
             ext |-> Head(c2s[Client]).ext, off |-> Head(c2s[Client]).ext.off,
             i |-> 0, bound |-> FALSE]
  /\ Consume
  /\ UNCHANGED <<call, link, s2c, backlog, restarts, failed, buf>>

\* recv() of a reset connection raises, which ends the handler.  Of a
\* connection the client closed cleanly it returns b'' for ever: read_len
\* takes no step then.
RecvAborted ==
  /\ SrvAt("cmd") \/ (SrvAt("req") /\ srv.k <= srv.n)
  /\ link[Client] = "crst"
  /\ HandlerEnds
  /\ UNCHANGED <<call, s2c, backlog, restarts, failed, buf>>

\* Mutant: the loop over the requests runs once too often.
AllServedAndOne ==
  /\ SrvAt("req")
  /\ srv.k > srv.n + 1
  /\ HandlerEnds
  /\ UNCHANGED <<call, s2c, backlog, restarts, failed, buf>>

AllServed ==
  /\ SrvAt("req")
  /\ srv.k > srv.n
  /\ HandlerEnds
  /\ UNCHANGED <<call, s2c, backlog, restarts, failed, buf>>

\* The except: clause is entered; the client learns of it by 'e'.
ToExcept ==
  /\ srv' = [srv EXCEPT !.pc = "except"]
  /\ failed' = [failed EXCEPT ![Client] = IF @ = 0 THEN srv.k ELSE @]
  /\ UNCHANGED <<call, link, c2s, s2c, backlog, restarts, buf>>

\* open(path, 'rb'); only then is i bound
OpenFile ==
  /\ SrvAt("open")
  /\ srv.ext.dev \in Openable
  /\ srv' = [srv EXCEPT !.pc = "chunk", !.bound = TRUE]
  /\ UNCHANGED <<call, link, c2s, s2c, backlog, restarts, failed, buf>>

OpenFails ==
  /\ SrvAt("open")
  /\ srv.ext.dev \notin Openable
  /\ ToExcept

\* One turn of `while i < count`: the chunk is read at offset+i, and offset
\* itself has moved on with i.
ChunkLen  == LesserOf(srv.ext.cnt - srv.i, Chunk)
\* Mutant: the chunk is looked for at i, not at offset+i.
ChunkAddrFromStart == srv.i
ChunkAddr == srv.off + srv.i
ChunkData == FileRead(srv.ext.dev, ChunkAddr, ChunkLen)

\* Mutant: the header announces what was asked for, not len(data), as the
\* Python 2 server does (server_py2.py:71).
SendChunkHeaderAsked ==
  /\ SrvAt("chunk")
  /\ srv.i < srv.ext.cnt
  /\ ~ReadRaises(srv.ext.dev, ChunkAddr, ChunkLen)
  /\ ServerSend(<<Header("n", srv.off, ChunkLen)>>)
  /\ srv' = [srv EXCEPT !.pc = "data"]
  /\ UNCHANGED <<call, c2s, backlog, restarts, failed, buf>>

SendChunkHeader ==
  /\ SrvAt("chunk")
  /\ srv.i < srv.ext.cnt
  /\ ~ReadRaises(srv.ext.dev, ChunkAddr, ChunkLen)
  /\ ServerSend(<<Header("n", srv.off, Len(ChunkData))>>)
  /\ srv' = [srv EXCEPT !.pc = "data"]
  /\ UNCHANGED <<call, c2s, backlog, restarts, failed, buf>>

SendChunkData ==
  /\ SrvAt("data")
  /\ ServerSend(ChunkData)
  /\ srv' = [srv EXCEPT !.pc = "chunk", !.i = @ + ChunkLen, !.off = @ + ChunkLen]
  /\ UNCHANGED <<call, c2s, backlog, restarts, failed, buf>>

ReadFails ==
  /\ SrvAt("chunk")
  /\ srv.i < srv.ext.cnt
  /\ ReadRaises(srv.ext.dev, ChunkAddr, ChunkLen)
  /\ ToExcept

\* f.close(), out of the try statement
ChunksDone ==
  /\ SrvAt("chunk")
  /\ srv.i >= srv.ext.cnt
  /\ srv' = [srv EXCEPT !.pc = "last"]
  /\ UNCHANGED <<call, link, c2s, s2c, backlog, restarts, failed, buf>>

SendError ==
  /\ SrvAt("except")
  /\ ServerSend(<<Header("e", srv.off, 0)>>)
  /\ srv' = [srv EXCEPT !.pc = "last"]
  /\ UNCHANGED <<call, c2s, backlog, restarts, failed, buf>>

\* Mutant: no 'l' packet.
SendNoLast ==
  /\ SrvAt("last")
  /\ srv' = [srv EXCEPT !.pc = "verbose"]
  /\ UNCHANGED <<call, link, c2s, s2c, backlog, restarts, failed, buf>>

SendLast ==
  /\ SrvAt("last")
  /\ ServerSend(<<Header("l", srv.off, srv.ext.cnt)>>)
  /\ srv' = [srv EXCEPT !.pc = "verbose"]
  /\ UNCHANGED <<call, c2s, backlog, restarts, failed, buf>>

\* `if verbose: print(... format(i))`
Report ==
  /\ SrvAt("verbose")
  /\ srv.bound
  /\ srv' = [pc |-> "req", c |-> Client, k |-> srv.k + 1, n |-> srv.n]
  /\ UNCHANGED <<call, link, c2s, s2c, backlog, restarts, failed, buf>>

\* ... which is an UnboundLocalError when open() had failed.
ReportUnbound ==
  /\ SrvAt("verbose")
  /\ ~srv.bound
  /\ HandlerEnds
  /\ UNCHANGED <<call, s2c, backlog, restarts, failed, buf>>

\* sendall() to a client that is gone: inside the try it leads to the except
\* clause, whose own sendall() then ends the handler.
SendRaisesInTry ==
  /\ SrvAt("chunk") \/ SrvAt("data")
  /\ srv.i < srv.ext.cnt
  /\ link[Client] = "crst"
  /\ ToExcept

SendRaises ==
  /\ SrvAt("except") \/ SrvAt("last")
  /\ link[Client] = "crst"
  /\ HandlerEnds
  /\ UNCHANGED <<call, s2c, backlog, restarts, failed, buf>>

\* The server is killed and started again: every connection it had, in its
\* hands or in the backlog, is closed by the kernel.
RestartServer ==
  /\ restarts < MaxRestarts
  /\ restarts' = restarts + 1
  /\ srv' = IdleServer
  /\ backlog' = <<>>
  /\ link' = [c \in Calls |->
       CASE link[c] = "open" ->
              IF c = Client /\ c2s[c] = <<>> THEN "sfin" ELSE "srst"
         [] link[c] \in {"cfin", "crst"} -> "down"
         [] OTHER -> link[c]]
  /\ c2s' = [c \in Calls |-> <<>>]
  /\ UNCHANGED <<call, s2c, failed, buf>>

ServerStep ==
  \/ Accept \/ ReadCmd \/ ReadReq \/ RecvAborted \/ AllServed
  \/ OpenFile \/ OpenFails \/ SendChunkHeader \/ SendChunkData \/ ReadFails
  \/ ChunksDone \/ SendError \/ SendLast \/ Report \/ ReportUnbound
  \/ SendRaisesInTry \/ SendRaises

Next ==
  \/ \E c \in Calls, j \in Jobs : Connect(c, j)
  \/ \E c \in Calls : ClientStep(c) \/ Die(c)
  \/ ServerStep
  \/ RestartServer

Spec == Init /\ [][Next]_vars

\* A call that can run does; the serving loop of the one server thread too.
\* Nothing forces a caller to start a read, to die, or the server to restart.
Fairness == (\A c \in Calls : WF_vars(ClientStep(c))) /\ WF_vars(ServerStep)
FairSpec == Spec /\ Fairness

----------------------------------------------------------------------------
\* What the protocol must keep

Started(c)  == call[c].pc # "idle"
Extents(c)  == 1..Len(call[c].job.blockv)
CallState ==
  [pc : {"cmd", "req", "hdr", "data", "done", "raised", "dead"}, job : Jobs,
   k : Nat \ {0}, boff : Nat, count : Int, off : Nat, l : Nat]
ServerState ==
  [pc : {"accept"}, c : {NoCall}]
    \union [pc : {"cmd"}, c : Calls]
    \union [pc : {"req"}, c : Calls, k : Nat \ {0}, n : Nat]
    \union [pc : {"open", "chunk", "data", "except", "last", "verbose"},
            c : Calls, k : Nat \ {0}, n : Nat, ext : Extent, off : Nat,
            i : Nat, bound : BOOLEAN]

\* Every variable has the shape the code gives it; a started call's buffer has
\* the size of its own request.
TypeOK ==
  /\ call \in [Calls -> {Idle} \union CallState]
  /\ DOMAIN buf = Calls
  /\ \A c \in Calls : Started(c) =>
       buf[c] \in [0..(Total(call[c].job.blockv) - 1) -> Cell]
  /\ link \in [Calls -> {"none", "open", "cfin", "crst", "sfin", "srst", "down"}]
  /\ c2s \in [Calls -> Seq(CmdItem \union ReqItem)]
  /\ s2c \in [Calls -> Seq(HeaderItem \union DataItem)]
  /\ backlog \in Seq(Calls)
  /\ srv \in ServerState
  /\ restarts \in 0..MaxRestarts
  /\ failed \in [Calls -> Nat]

\* The client never takes a header for data: the bytes recv_into() is given are
\* those the server sent for the header the client has just read, also when
\* the answer is out of step, and though the data follows its header in a
\* second sendall() that a restart may cut off.
DataIsData ==
  \A c \in Calls :
    call[c].pc = "data" =>
      /\ call[c].l > 0
      /\ \A q \in 1..Len(s2c[c]) : q <= call[c].l => s2c[c][q].t = "d"

\* The cell of the file that belongs at place i of extent e, zero past the end.
RightCell(e, i) == IF e.off + i < Length[e.dev] THEN <<e.dev, e.off + i>> ELSE Zero
\* The places of extent e that its first chunk fills.
FirstChunk(e) == 0..(LesserOf(e.cnt, Chunk) - 1)
\* What call c holds at place i of its extent k.
Got(c, k, i) == buf[c][Starts(call[c].job.blockv)[k - 1] + i]

\* An extent the client is done with, before the first 'e' of the call, holds
\* the device's data and zeros past the end of the file, whatever has happened
\* to later extents, other calls or the connection since (_readv_network fills
\* one buffer from one stream, without any framing between the answers).
PrefixExact ==
  \A c \in Calls : Started(c) =>
    \A k \in Extents(c) :
      (k < call[c].k /\ (failed[c] = 0 \/ k < failed[c])) =>
        LET e == call[c].job.blockv[k]
        IN  \A i \in FirstChunk(e) : Got(c, k, i) = RightCell(e, i)

\* Up to and with the extent whose answer 'e' cut short, the buffer holds zero
\* or the right cell, in every state: so a BlockProxy.read, which has one
\* extent, is never given another block's data.
HonestToFirstError ==
  \A c \in Calls : Started(c) =>
    \A k \in Extents(c) :
      (failed[c] = 0 \/ k <= failed[c]) =>
        LET e == call[c].job.blockv[k]
        IN  \A i \in FirstChunk(e) : Got(c, k, i) \in {Zero, RightCell(e, i)}

\* Until an answer is cut short by 'e', the client asks for the next extent
\* with nothing left over from the one before: no answer in the stream, no
\* request unread, and the server's loop over the requests one step behind.
InStep ==
  \A c \in Calls :
    (call[c].pc = "req" /\ call[c].k > 1 /\ failed[c] = 0 /\ link[c] = "open") =>
      /\ s2c[c] = <<>> /\ c2s[c] = <<>>
      /\ srv.c = c
      /\ \/ srv.pc = "verbose" /\ srv.k + 1 = call[c].k
         \/ srv.pc = "req" /\ srv.k = call[c].k

\* read_len() spins for ever: it waits for a byte of a client that has closed.
ServerSpins ==
  /\ SrvAt("cmd") \/ (SrvAt("req") /\ srv.k <= srv.n)
  /\ link[Client] = "cfin"
  /\ c2s[Client] = <<>>

\* A read that returns, or raises for what the server or the stream did, never
\* leaves the server spinning on its connection: only a client that was killed
\* or that asked for more extents than a byte counts does.
OnlyLostClientsSpinTheServer ==
  ServerSpins => \/ call[Client].pc = "dead"
                 \/ Len(call[Client].job.blockv) > MaxByte

\* Every read that got its connection comes back to its caller, unless its own
\* process is killed, though the answers to it and to others be cut short.
EveryReadEnds ==
  \A c \in Calls : call[c].pc = "cmd" ~> call[c].pc \in {"done", "raised", "dead"}

\* The one thread of the server gets away from every connection it accepts,
\* also from one whose client ended its read in the middle of an answer.
ServerIsFreed == \A c \in Calls : srv.c = c ~> srv.c # c

----------------------------------------------------------------------------
\* What the repository says of the protocol and the code does not do

Complete(c) == call[c].pc = "done"

\* server.py:35 "Provides remote clients with access to the local disks": what
\* a read returns without an error is what the disk holds there.
ReadReturnsTheDisk ==
  \A c \in Calls : (Complete(c) /\ failed[c] = 0) =>
    \A k \in Extents(c) :
      LET e == call[c].job.blockv[k]
      IN  \A i \in 0..(e.cnt - 1) : Got(c, k, i) = RightCell(e, i)

----------------------------------------------------------------------------
\* The abstract read: asked once, answered at once

phase == [c \in Calls |->
  CASE call[c].pc = "idle" -> "idle"
    [] call[c].pc = "done" -> "answered"
    [] call[c].pc = "raised" -> "raised"
    [] OTHER -> "asked"]
request == [c \in Calls |-> IF Started(c) THEN call[c].job.blockv ELSE <<>>]
answer == [c \in Calls |-> IF call[c].pc = "done" THEN buf[c] ELSE <<>>]

\* One chunk holds each extent, every file opens and every sector is readable.
Sound(bv) ==
  /\ Len(bv) <= MaxByte
  /\ \A k \in 1..Len(bv) :
       /\ bv[k].cnt <= Chunk
       /\ bv[k].dev \in Openable
       /\ ~ReadRaises(bv[k].dev, bv[k].off, bv[k].cnt)
AllRequests == {j.blockv : j \in Jobs}

BR == INSTANCE BlockRead WITH
        phase <- phase, answer <- answer, request <- request,
        Requests <- AllRequests, SoundRequests <- {bv \in AllRequests : Sound(bv)}

\* The two programs implement the one-step read while nobody is killed: a read
\* of sound extents returns their image though another read meets bad sectors,
\* a missing device or an exception, and every read comes back.
ImplementsBlockRead == BR!FairSpec
=============================================================================
