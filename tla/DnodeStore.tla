----------------------------- MODULE DnodeStore -----------------------------
(***************************************************************************)
(* What an object set promises the code above it: the dnodes of a block    *)
(* are answered from one reading of that block, so asking again, or asking *)
(* for a neighbour, never gives an answer of another reading.  An answer   *)
(* may be a failure; a failed reading is remembered like any other.        *)
(***************************************************************************)
EXTENDS Integers

CONSTANTS Ids,       \* the dnode numbers asked for
          PerBlock,  \* dnodes in a block
          Readings,  \* what a reading of a block can give, None included
          None, Unread, Raised

VARIABLES known,  \* known[b]: the reading block b is answered from
          reply   \* the last answer

Block(id) == id \div PerBlock

Init ==
  /\ known = [b \in {Block(id) : id \in Ids} |-> Unread]
  /\ reply = [id |-> 0, val |-> None, slot |-> 0]

Learn(b, v) == known[b] = Unread /\ known' = [known EXCEPT ![b] = v]

\* The answer is the reading the block has, or gets now.
Serve(id) ==
  /\ \/ \E v \in Readings : Learn(Block(id), v)
     \/ known[Block(id)] # Unread /\ UNCHANGED known
  /\ reply' = [id |-> id, val |-> known'[Block(id)], slot |-> id % PerBlock]

\* An exception; the block may have been read before it.
Fail(id) ==
  /\ UNCHANGED known \/ \E v \in Readings : Learn(Block(id), v)
  /\ reply' = [id |-> id, val |-> Raised, slot |-> id % PerBlock]

\* A broken set has read nothing and answers None.
Refuse(id) ==
  /\ \A b \in DOMAIN known : known[b] = Unread
  /\ UNCHANGED known
  /\ reply' = [id |-> id, val |-> None, slot |-> id % PerBlock]

Next == \E id \in Ids : Serve(id) \/ Fail(id) \/ Refuse(id)

Spec == Init /\ [][Next]_<<known, reply>>
=============================================================================
