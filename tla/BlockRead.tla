----------------------------- MODULE BlockRead -----------------------------
(***************************************************************************)
(* What a read of blocks promises its caller (BlockProxy.read and readv,   *)
(* block_proxy/proxy.py, as GenericDevice._read_physical uses them): the   *)
(* extents' cells, one extent after the other, each cell the one the       *)
(* device's file holds at its address, and zero past the end of the file.  *)
(* The read is one step: nothing of connections, packets or chunks is left.*)
(***************************************************************************)
EXTENDS Integers, Sequences

CONSTANTS Calls, Length, Zero,
          Requests,      \* the extent lists that are asked for
          SoundRequests  \* those of them no bad sector or missing file touches

VARIABLES phase, request, answer
brvars == <<phase, request, answer>>

\* The answer to bv, as a relation: buf is the extents' cells in order.
IsImage(bv, buf) ==
  LET at[k \in 0..Len(bv)] == IF k = 0 THEN 0 ELSE at[k-1] + bv[k].cnt IN
  /\ DOMAIN buf = 0..(at[Len(bv)] - 1)
  /\ \A k \in 1..Len(bv) : \A i \in 0..(bv[k].cnt - 1) :
       buf[at[k-1] + i] = IF bv[k].off + i < Length[bv[k].dev]
                            THEN <<bv[k].dev, bv[k].off + i>> ELSE Zero

BRInit ==
  /\ phase = [c \in Calls |-> "idle"]
  /\ request = [c \in Calls |-> <<>>]
  /\ answer = [c \in Calls |-> <<>>]

Ask(c) ==
  /\ phase[c] = "idle"
  /\ phase' = [phase EXCEPT ![c] = "asked"]
  /\ \E bv \in Requests : request' = [request EXCEPT ![c] = bv]
  /\ UNCHANGED answer

\* The answer to a sound request is its image, whatever becomes of others.
Answer(c) ==
  /\ phase[c] = "asked"
  /\ phase' = [phase EXCEPT ![c] = "answered"]
  /\ request[c] \in SoundRequests => IsImage(request[c], answer'[c])
  /\ answer' = [answer EXCEPT ![c] = answer'[c]]
  /\ UNCHANGED request

\* Only a request that is not sound may end in an exception.
Raise(c) ==
  /\ phase[c] = "asked"
  /\ request[c] \notin SoundRequests
  /\ phase' = [phase EXCEPT ![c] = "raised"]
  /\ UNCHANGED <<request, answer>>

BRNext == \E c \in Calls : Ask(c) \/ Answer(c) \/ Raise(c)
BRSpec == BRInit /\ [][BRNext]_brvars

\* Whoever asks gets an answer or an exception.
FairSpec == BRSpec /\ \A c \in Calls : phase[c] = "asked" ~> phase[c] # "asked"
=============================================================================
