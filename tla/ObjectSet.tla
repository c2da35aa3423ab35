----------------------------- MODULE ObjectSet ------------------------------
(***************************************************************************)
(* How a dnode is found in a damaged pool: ObjectSet (zfs/objectset.py)    *)
(* over BlockTree (zfs/blocktree.py), DNode.from_bptr (zfs/dnode.py) and   *)
(* GenericDevice.read_block (zfs/zio.py).                                  *)
(*                                                                         *)
(* A block is named by its path in the tree: <<>> is the block under the   *)
(* root pointer, Append(p, i) the block under pointer i of block p, and    *)
(* OsBlock holds the object set's own dnode.  Reading a block gives its    *)
(* path (the right content), Junk (any other content) or None; a pointer   *)
(* out of Junk leads anywhere.  medium[b][d] is the state of copy d of     *)
(* block b:                                                                *)
(*   "intact"                                                              *)
(*   "garbled"      other bytes, which decompress if they have to          *)
(*   "undecodable"  other bytes, which no decompressor takes               *)
(*   "error"        the read raises                                        *)
(***************************************************************************)
EXTENDS Integers, Sequences

CONSTANTS
  MaxLevels,  \* the most levels an object set has
  Bpl,        \* _blocks_per_level: pointers in an indirect block
  PerBlock,   \* _dnodes_per_block
  Ids,        \* the dnode numbers that are asked for
  Ptr,        \* Ptr[b]: the pointer to block b, see Pointer
  Copies,     \* how many of the three DVAs of a pointer are in use
  Faulty,     \* the blocks whose copies change
  MaxFaults,  \* how many changes there are
  DvaChoices, \* the dvas argument of ObjectSet()
  Junk, None, Unread, Raised

Index   == 0..(Bpl - 1)
Paths   == UNION {[1..n -> Index] : n \in 0..(MaxLevels - 1)}
OsBlock == <<-1>>
Blocks  == Paths \union {OsBlock}
Nodes   == UNION {[1..n -> Index] : n \in 1..(MaxLevels - 2)}
Dva     == 0..2
Media   == {"intact", "garbled", "undecodable", "error"}
\* checked: _cksum == 7 (fletcher4); comp: 2 ("off"), in CompType, or not
Pointer == [kind : {"stored", "embedded", "hole", "gang"}, checked : BOOLEAN,
            comp : {"off", "known", "unknown"}]

BlockOf(id) == id \div PerBlock
BlockIds == {BlockOf(id) : id \in Ids}

ASSUME ConstantsAssumption ==
  /\ MaxLevels \in Nat \ {0} /\ Bpl \in Nat \ {0} /\ PerBlock \in Nat \ {0}
  /\ Ids \subseteq Nat
  /\ Ptr \in [Blocks -> Pointer]
  /\ Copies \in 1..3
  /\ Faulty \subseteq Blocks
  /\ MaxFaults \in Nat
  /\ DvaChoices \subseteq Seq(Dva) \ {<<>>}
  /\ \A b \in Blocks : b \notin {Junk, None, Unread, Raised}
  /\ Junk \notin {None, Unread, Raised} /\ None \notin {Unread, Raised}
  /\ Unread # Raised

VARIABLES
  levels,  \* the levels of the object set on the disk
  medium,  \* the copies of the blocks on the disks
  faults,  \* how often a copy changed
  os,      \* the ObjectSet: "new", "open", "broken", or its constructor raised
  root,    \* BlockTree._root: <<>> or Junk
  trie,    \* BlockTree._cache: trie[p] is ['b'] at the place p
  cache,   \* ObjectSet._block_cache
  walk,    \* the lookup that is under way
  answer   \* what the last lookup returned

vars == <<levels, medium, faults, os, root, trie, cache, walk, answer>>

Idle == [pc |-> "idle"]
EmptyTrie  == [p \in Nodes |-> None]
EmptyCache == [b \in BlockIds |-> Unread]

\* A DVA that is not in use is read all the same, at offset 0.
Init ==
  /\ levels \in 1..MaxLevels
  /\ \E unused \in {"garbled", "undecodable"} :
       medium = [b \in Blocks |-> [d \in Dva |->
                   IF d < Copies THEN "intact" ELSE unused]]
  /\ faults = 0
  /\ os = "new"
  /\ root = None
  /\ trie = EmptyTrie
  /\ cache = EmptyCache
  /\ walk = Idle
  /\ answer = [id |-> 0, val |-> None, slot |-> 0]

----------------------------------------------------------------------------
\* GenericDevice.read_block and the loops over the copies

Got(data, c) == [raised |-> FALSE, data |-> data, c |-> c]
Exception    == [raised |-> TRUE, data |-> None, c |-> FALSE]

Decoded(b, m) ==
  CASE Ptr[b].comp = "unknown" -> None
    [] Ptr[b].comp = "known" /\ m = "undecodable" -> None
    [] m = "intact" -> b
    [] OTHER -> Junk

\* The checksum only counts when it is fletcher4.
ReadBlock(b, d) ==
  CASE Ptr[b].kind = "hole" -> Got(None, FALSE)
    [] Ptr[b].kind = "gang" -> Exception
    [] Ptr[b].kind = "embedded" -> Got(Decoded(b, "intact"), TRUE)
    [] medium[b][d] = "error" -> Exception
    [] OTHER -> Got(Decoded(b, medium[b][d]),
                    Ptr[b].checked => medium[b][d] = "intact")

\* for dva in dvas: read; leave the loop at data (that is verified).  What the
\* last turn gave is what the loop gives; an exception leaves it too.
LoopOver(b, dvas, verify) ==
  LET read(i) == ReadBlock(b, dvas[i])
      leaves == {i \in DOMAIN dvas :
                   \/ read(i).raised
                   \/ read(i).data # None /\ (verify => read(i).c)}
  IN  IF leaves = {}
        THEN read(Len(dvas))
        ELSE read(CHOOSE i \in leaves : \A j \in leaves : i <= j)

AllDvas == <<0, 1, 2>>
\* Whatever a pointer out of junk points to.
Anything == {Exception, Got(None, FALSE), Got(Junk, FALSE)}

\* Mutant: any data will do for a node of the tree.
TreeReadsAnyData(from, p) ==
  IF from = Junk THEN Anything ELSE {LoopOver(p, AllDvas, FALSE)}
\* BlockTree: `if data and c: break`
TreeReads(from, p) ==
  IF from = Junk THEN Anything ELSE {LoopOver(p, AllDvas, TRUE)}
\* Mutant: the break is missing.
BlockReadsToTheLast(from, p) ==
  IF from = Junk THEN Anything ELSE {LoopOver(p, <<2>>, FALSE)}
\* ObjectSet._get_dnode: `if data: break`
BlockReads(from, p) ==
  IF from = Junk THEN Anything ELSE {LoopOver(p, AllDvas, FALSE)}

----------------------------------------------------------------------------
\* Opening: ObjectSet.__init__, DNode.from_bptr, BlockTree.__init__

\* A new object; after a failed one the caller tries other DVAs.
Opening == walk.pc = "idle" /\ os \in {"new", "raised", "broken"}

Opened(status, r) ==
  /\ os' = status
  /\ root' = r
  /\ trie' = EmptyTrie
  /\ cache' = EmptyCache
  /\ UNCHANGED <<levels, medium, faults, walk, answer>>

OsRead(dvas) == LoopOver(OsBlock, dvas, TRUE)

OpenRaises(dvas) == Opening /\ OsRead(dvas).raised /\ Opened("raised", None)

OpenBroken(dvas) ==
  /\ Opening
  /\ ~OsRead(dvas).raised /\ OsRead(dvas).data = None
  /\ Opened("broken", None)

\* What junk parses to makes the constructor raise, or a tree of junk.
OpenJunk(dvas) ==
  /\ Opening
  /\ OsRead(dvas).data = Junk
  /\ Opened("raised", None) \/ Opened("open", Junk)

\* A root without data is len(None) in BlockTree.__init__.
OpenRoot(dvas) ==
  /\ Opening
  /\ OsRead(dvas).data = OsBlock
  /\ IF levels = 1
       THEN Opened("open", <<>>)
       ELSE \E r \in TreeReads(<<>>, <<>>) :
              IF r.raised \/ r.data = None THEN Opened("raised", None)
                                           ELSE Opened("open", r.data)

----------------------------------------------------------------------------
\* Looking up: ObjectSet._get_dnode, BlockTree.__getitem__

Depth == levels - 1

\* blockid after i rounds of _get_level_indices' loop
Quotients(blockid) ==
  LET q[i \in 0..Depth] == IF i = 0 THEN blockid ELSE q[i - 1] \div Bpl IN q

\* Mutant: the lowest index first.
LevelIndicesUnreversed(blockid) ==
  [j \in 1..Depth |-> Quotients(blockid)[j - 1] % Bpl]

\* _get_level_indices: the highest level first
LevelIndices(blockid) ==
  [j \in 1..Depth |-> Quotients(blockid)[Depth - j] % Bpl]

Reply(id, val) ==
  /\ walk' = Idle
  /\ answer' = [id |-> id, val |-> val, slot |-> id % PerBlock]

LookupBroken(id) ==
  /\ walk.pc = "idle" /\ os = "broken"
  /\ Reply(id, None)
  /\ UNCHANGED <<levels, medium, faults, os, root, trie, cache>>

\* Cutting the dnode out of a junk block may raise.
Cut(id, data) == Reply(id, data) \/ (data = Junk /\ Reply(id, Raised))

LookupCached(id) ==
  /\ walk.pc = "idle" /\ os = "open"
  /\ cache[BlockOf(id)] # Unread
  /\ Cut(id, cache[BlockOf(id)])
  /\ UNCHANGED <<levels, medium, faults, os, root, trie, cache>>

Lookup(id) ==
  /\ walk.pc = "idle" /\ os = "open"
  /\ cache[BlockOf(id)] = Unread
  /\ walk' = [pc |-> "walk", id |-> id, at |-> root, path |-> <<>>]
  /\ UNCHANGED <<levels, medium, faults, os, root, trie, cache, answer>>

Next1 == Append(walk.path, LevelIndices(BlockOf(walk.id))[Len(walk.path) + 1])
AtNode == walk.pc = "walk" /\ Len(walk.path) < Depth - 1
AtLeaf == walk.pc = "walk" /\ Len(walk.path) >= Depth - 1

\* A node the trie has.
DescendCached ==
  /\ AtNode
  /\ trie[Next1] # None
  /\ walk' = [walk EXCEPT !.at = trie[Next1], !.path = Next1]
  /\ UNCHANGED <<levels, medium, faults, os, root, trie, cache, answer>>

\* Mutant: all levels of the trie share one table of indices.
DescendFlat ==
  /\ AtNode
  /\ trie[Next1] = None
  /\ \E r \in TreeReads(walk.at, Next1) :
       IF r.raised \/ r.data = None
         THEN /\ Reply(walk.id, IF r.raised THEN Raised ELSE None)
              /\ cache' = [cache EXCEPT ![BlockOf(walk.id)] =
                             IF r.raised THEN @ ELSE None]
              /\ UNCHANGED trie
         ELSE /\ trie' = [p \in Nodes |->
                   IF p[Len(p)] = Next1[Len(Next1)] THEN r.data ELSE trie[p]]
              /\ walk' = [walk EXCEPT !.at = r.data, !.path = Next1]
              /\ UNCHANGED <<cache, answer>>
  /\ UNCHANGED <<levels, medium, faults, os, root>>

\* A node to be read.  One that cannot be read is not remembered in the trie,
\* but makes the object set remember its block as unreadable.
Descend ==
  /\ AtNode
  /\ trie[Next1] = None
  /\ \E r \in TreeReads(walk.at, Next1) :
       IF r.raised \/ r.data = None
         THEN /\ Reply(walk.id, IF r.raised THEN Raised ELSE None)
              /\ cache' = [cache EXCEPT ![BlockOf(walk.id)] =
                             IF r.raised THEN @ ELSE None]
              /\ UNCHANGED trie
         ELSE /\ trie' = [trie EXCEPT ![Next1] = r.data]
              /\ walk' = [walk EXCEPT !.at = r.data, !.path = Next1]
              /\ UNCHANGED <<cache, answer>>
  /\ UNCHANGED <<levels, medium, faults, os, root>>

\* A tree of one level has block 0 only.
NoSuchBlock ==
  /\ AtLeaf
  /\ levels = 1 /\ BlockOf(walk.id) # 0
  /\ cache' = [cache EXCEPT ![BlockOf(walk.id)] = None]
  /\ Reply(walk.id, None)
  /\ UNCHANGED <<levels, medium, faults, os, root, trie>>

Leaf == LevelIndices(BlockOf(walk.id))

\* Mutant: a block that could not be read is not remembered.
ReadLeafForgetting ==
  /\ AtLeaf
  /\ levels = 1 => BlockOf(walk.id) = 0
  /\ \E r \in BlockReads(walk.at, Leaf) :
       IF r.raised
         THEN Reply(walk.id, Raised) /\ UNCHANGED cache
         ELSE /\ cache' = [cache EXCEPT ![BlockOf(walk.id)] =
                             IF r.data = None THEN @ ELSE r.data]
              /\ Cut(walk.id, r.data)
  /\ UNCHANGED <<levels, medium, faults, os, root, trie>>

ReadLeaf ==
  /\ AtLeaf
  /\ levels = 1 => BlockOf(walk.id) = 0
  /\ \E r \in BlockReads(walk.at, Leaf) :
       IF r.raised
         THEN Reply(walk.id, Raised) /\ UNCHANGED cache
         ELSE /\ cache' = [cache EXCEPT ![BlockOf(walk.id)] = r.data]
              /\ Cut(walk.id, r.data)
  /\ UNCHANGED <<levels, medium, faults, os, root, trie>>

\* The block server comes or goes, a disk fails a read or recovers.
Change(b, d, m) ==
  /\ faults < MaxFaults
  /\ medium[b][d] # m
  /\ medium' = [medium EXCEPT ![b][d] = m]
  /\ faults' = faults + 1
  /\ UNCHANGED <<levels, os, root, trie, cache, walk, answer>>

Next ==
  \/ \E dvas \in DvaChoices :
       OpenRaises(dvas) \/ OpenBroken(dvas) \/ OpenJunk(dvas) \/ OpenRoot(dvas)
  \/ \E id \in Ids : LookupBroken(id) \/ LookupCached(id) \/ Lookup(id)
  \/ DescendCached \/ Descend \/ NoSuchBlock \/ ReadLeaf
  \/ \E b \in Faulty, d \in 0..(Copies - 1), m \in Media : Change(b, d, m)

Spec == Init /\ [][Next]_vars

----------------------------------------------------------------------------
\* What the lookups must keep

Contents == Paths \union {Junk, None}

Prefix(p, n) == [i \in 1..n |-> p[i]]

\* A place of the trie holds the node that belongs there or junk, and a right
\* node hangs under right nodes only, whatever was asked for in between, which
\* failures were met and which nodes two lookups share (BlockTree.__getitem__
\* keys its tables by index alone; the level is the table it is in).
TrieIsTheTree ==
  \A p \in Nodes :
    trie[p] # None =>
      /\ trie[p] \in {p, Junk}
      /\ root # None
      /\ \A n \in 1..(Len(p) - 1) : trie[Prefix(p, n)] # None
      /\ trie[p] = p =>
           root = <<>> /\ \A n \in 1..(Len(p) - 1) : trie[Prefix(p, n)] = Prefix(p, n)

\* The place of a path among the blocks of its level.
Number(p) ==
  LET number[n \in 0..Len(p)] ==
        IF n = 0 THEN 0 ELSE number[n - 1] * Bpl + p[n]
  IN  number[Len(p)]

\* How many blocks a tree has room for: Bpl to the power of its depth.
Room == LET room[i \in 0..Depth] == IF i = 0 THEN 1 ELSE room[i - 1] * Bpl
        IN  room[Depth]

\* A dnode that is found is the one that was asked for: its block's place in
\* the tree is the block its number belongs to, for every number the tree has
\* room for (ids past that wrap: there is no check against _maxdnodeid).
IdsDoNotAlias ==
  LET a == answer
  IN  (a.val \in Paths /\ BlockOf(a.id) < Room) =>
        /\ Len(a.val) = Depth
        /\ Number(a.val) * PerBlock + a.slot = a.id

\* Copy d of a block reads right, and no copy before it raises.
Reachable(b) ==
  /\ Ptr[b].kind = "stored" /\ Ptr[b].checked /\ Ptr[b].comp # "unknown"
  /\ \E d \in Dva :
       /\ medium[b][d] = "intact"
       /\ \A e \in 0..(d - 1) : medium[b][e] # "error"

\* A step down the tree comes to the right node when a right node points to a
\* block with any intact copy that verifies, also when other copies hold data
\* that does not: damage to one copy is never enough to lose a subtree.
GoodCopyIsUsed ==
  [][(AtNode /\ walk.at # Junk /\ trie[Next1] = None /\ Reachable(Next1)
        /\ walk' # walk)
     => /\ walk'.pc = "walk" /\ walk'.at = walk'.path
        /\ trie'[walk'.path] = walk'.path]_vars

\* A block is remembered as unreadable only after a step that met no intact
\* copy of the block it read (_block_cache never forgets, so a false loss
\* would hide the dnodes of the block for the rest of the run).
NoFalseLoss ==
  [][(walk.pc = "walk" /\ cache'[BlockOf(walk.id)] = None /\ walk.at # Junk)
     => IF AtNode THEN ~Reachable(Next1)
        ELSE (levels = 1 /\ BlockOf(walk.id) # 0) \/ ~Reachable(Leaf)]_vars

\* Two lookups of dnodes in one block are answered from one reading of it,
\* through failures, recoveries and exceptions in between.
Store == INSTANCE DnodeStore WITH known <- cache, reply <- answer,
                                  Readings <- Contents
ImplementsStore == Store!Spec

\* README.md:7 names "fletcher4 cksum" among what the tool does: a dnode block
\* that has an intact copy, which its checksum tells from the others, is never
\* answered from a copy that fails its checksum.
GoodDnodeCopyIsUsed ==
  [][(AtLeaf /\ walk.at # Junk /\ Reachable(Leaf)
        /\ cache[BlockOf(walk.id)] = Unread)
     => cache'[BlockOf(walk.id)] \in {Unread, None, Leaf}]_vars
=============================================================================
