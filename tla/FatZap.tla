------------------------------- MODULE FatZap -------------------------------
(***************************************************************************)
(* zap_factory (zfs/zap.py): the blocks of a ZAP object are read one by    *)
(* one, those that fail are left out, and what is first then says how the  *)
(* rest is parsed: a micro ZAP is a list, a fat one a header and leaves    *)
(* with a hash table of chains of chunks.                                  *)
(*                                                                         *)
(* A name or a value is a sequence of pieces, one per chunk of its list;   *)
(* the cut of the last piece to the length the entry gives is left out.    *)
(***************************************************************************)
EXTENDS Integers, Sequences, FiniteSets, SequencesExt, FiniteSetsExt, Functions

CONSTANTS
  Fragile,        \* the objects the disk may alter
  Foreign,        \* a block of another object
  NoChunk,        \* 0xffff
  RecursionLimit, \* of the interpreter
  None, Raised, Pending

ASSUME ZapAssumption ==
  NoChunk \in Nat /\ RecursionLimit \in Nat

VARIABLES
  object,   \* [levels, blocks]: what ZFS wrote, see Stored
  fate,     \* of the read of each block, 0 is the indirect one
  disk,     \* what is read from the blocks
  pc,       \* "idle", "factory", "indirect", "blocks", "choose", "leaves", "chain", "done"
  data,     \* the blocks that were kept
  n, slot,  \* the block, the slot of the table the loops are at
  idx,      \* the chunk of the chain,
  depth,    \* and how often _follow_collision_chain has called itself
  entries,  \* the dictionary of the ZAP
  result

zapvars == <<object, fate, disk, pc, data, n, slot, idx, depth, entries, result>>

----------------------------------------------------------------------------
\* What ZFS writes: each entry has an entry chunk, then those of its name and
\* of its value; the last chunk of a list, or the last entry of a chain, has no
\* next. The chunks are numbered from either end.

ArrayChunks(pieces, first) ==
  [k \in 1..Len(pieces) |->
     [type |-> "array", piece |-> pieces[k],
      next |-> IF k = Len(pieces) THEN NoChunk ELSE first + k]]

EntrySize(e) == 1 + Len(e.name) + Len(e.value)

\* The chunks of a chain that begins at chunk first.
ChainChunks(chain, first) ==
  LET from[k \in 1..(Len(chain) + 1)] ==
        IF k = 1 THEN first ELSE from[k-1] + EntrySize(chain[k-1])
      written[k \in 0..Len(chain)] ==
        IF k = 0 THEN <<>>
        ELSE LET e == chain[k]
                 name == from[k] + 1
                 value == name + Len(e.name) IN
             written[k-1] \o <<[type |-> "entry", name |-> name, value |-> value,
                                next |-> IF k = Len(chain) THEN NoChunk ELSE from[k+1]]>>
               \o ArrayChunks(e.name, name) \o ArrayChunks(e.value, value) IN
  written[Len(chain)]

LeafChunks(chains) ==
  LET written[s \in 0..Len(chains)] ==
        IF s = 0 THEN <<>>
        ELSE LET so == written[s-1] IN so \o ChainChunks(chains[s], Len(so)) IN
  written[Len(chains)]

LeafTable(chains) ==
  [s \in DOMAIN chains |->
     IF chains[s] = <<>> THEN NoChunk ELSE Len(LeafChunks(SubSeq(chains, 1, s - 1)))]

\* Chunk k becomes chunk size - 1 - k.
Renumbered(leaf) ==
  LET size == Len(leaf.chunks)
      new(k) == IF k = NoChunk THEN NoChunk ELSE size - 1 - k
      moved(ch) ==
        IF ch.type = "entry"
          THEN [ch EXCEPT !.name = new(@), !.value = new(@), !.next = new(@)]
          ELSE [ch EXCEPT !.next = new(@)] IN
  [leaf EXCEPT !.table = [s \in DOMAIN @ |-> new(@[s])],
               !.chunks = [k \in DOMAIN @ |-> moved(@[size + 1 - k])]]

\* A block of the pointer table has zeros where a chunk names others, and for
\* the type of a chunk the low byte of a block's number, which may be a leaf's.
PointerChunk(type) ==
  CASE type = "entry" -> [type |-> "entry", name |-> 0, value |-> 0, next |-> 0]
    [] type = "array" -> [type |-> "array", piece |-> None, next |-> 0]
    [] OTHER -> [type |-> "free", next |-> NoChunk]

\* A leaf has its chains, and backward; a block of the external pointer table
\* has words, which read as a table of slots, and types, which do as chunks.
Stored(b) ==
  CASE b.kind = "leaf" ->
         LET leaf == [kind |-> "leaf", table |-> LeafTable(b.chains),
                      chunks |-> LeafChunks(b.chains)] IN
         IF b.backward THEN Renumbered(leaf) ELSE leaf
    [] b.kind = "pointers" ->
         [kind |-> "pointers", table |-> b.words,
          chunks |-> [k \in DOMAIN b.types |-> PointerChunk(b.types[k])]]
    [] OTHER -> b

Pieces ==
  UNION {UNION {Range(e.name) \union Range(e.value) :
                e \in UNION {Range(chain) : chain \in Range(b.chains)}} :
         b \in {x \in Range(object.blocks) : x.kind = "leaf"}}

\* What an alteration that no checksum tells may make of a block: a link, the
\* type of a chunk, or a piece of a name or a value is another one.
Altered(b) ==
  CASE b.kind = "leaf" ->
         {[b EXCEPT !.chunks[k].next = x] : k \in DOMAIN b.chunks, x \in 0..Len(b.chunks)}
         \union {[b EXCEPT !.chunks[k] = [type |-> "free", next |-> NoChunk]] :
                   k \in DOMAIN b.chunks}
         \union {[b EXCEPT !.chunks[k].piece = x] :
                   k \in {i \in DOMAIN b.chunks : b.chunks[i].type = "array"}, x \in Pieces}
    [] b.kind = "pointers" -> {[b EXCEPT !.table[1] = x] : x \in {0, NoChunk - 1}}
    [] OTHER -> {[kind |-> "other"]}

Blocks == 1..Len(object.blocks)

\* A block is read, fails its checksum ("bad"), gives no data ("none"), or
\* raises (a gang block). Of the indirect block the verdict is not looked at.
Fates(o, most) ==
  {f \in [{0} \union DOMAIN o.blocks -> {"read", "bad", "none", "raises"}] :
     /\ f[0] # "bad" /\ (o.levels # 2 => f[0] = "read")
     /\ Cardinality({b \in DOMAIN f : f[b] # "read"}) <= most}
Failed == {b \in DOMAIN fate : fate[b] # "read"}

ZapIdle(o) ==
  /\ object = o /\ disk = [b \in Blocks |-> Stored(o.blocks[b])]
  /\ fate = [b \in {0} \union Blocks |-> "read"]
  /\ pc = "idle" /\ data = <<>> /\ n = 1 /\ slot = 1 /\ idx = NoChunk /\ depth = 0
  /\ entries = <<>> /\ result = Pending

\* zap_factory is called for object o, at most so many blocks of which fail.
ZapBegins(o, most) ==
  /\ object' = o /\ disk' = [b \in DOMAIN o.blocks |-> Stored(o.blocks[b])]
  /\ fate' \in Fates(o, most)
  /\ pc' = "factory" /\ data' = <<>> /\ n' = 1 /\ slot' = 1 /\ idx' = NoChunk /\ depth' = 0
  /\ entries' = <<>> /\ result' = Pending

\* The disk: a block with no checksum of its own has other contents.
Alter ==
  /\ pc = "factory" /\ object \in Fragile /\ \A b \in DOMAIN fate : fate[b] # "altered"
  /\ \E b \in Blocks :
       /\ fate[b] = "read"
       /\ fate' = [fate EXCEPT ![b] = "altered"]
       /\ \E a \in Altered(disk[b]) : disk' = [disk EXCEPT ![b] = a]
  /\ UNCHANGED <<object, pc, data, n, slot, idx, depth, entries, result>>

\* The indirect block has other contents: its pointers lead anywhere.
AlterIndirect ==
  /\ pc = "factory" /\ object \in Fragile /\ object.levels = 2 /\ \A b \in DOMAIN fate : fate[b] = "read"
  /\ \E f \in [Blocks -> {"bad", "none", "raises", "foreign"}] :
       /\ fate' = [b \in DOMAIN fate |-> IF b = 0 THEN "altered" ELSE f[b]]
       /\ disk' = [b \in Blocks |-> IF f[b] = "foreign" THEN Stored(Foreign) ELSE disk[b]]
  /\ UNCHANGED <<object, pc, data, n, slot, idx, depth, entries, result>>

----------------------------------------------------------------------------
Ends(r) == pc' = "done" /\ result' = r

unread == <<object, fate, disk>>

\* zap_factory
Factory ==
  /\ pc = "factory"
  /\ \/ object.levels = 1 /\ pc' = "blocks" /\ UNCHANGED result
     \/ object.levels = 2 /\ pc' = "indirect" /\ UNCHANGED result
     \/ object.levels > 2 /\ Ends(Raised)
  /\ UNCHANGED <<unread, data, n, slot, idx, depth, entries>>

\* _indirect_zap_factory
ReadIndirect ==
  /\ pc = "indirect"
  /\ \/ fate[0] = "none" /\ Ends(None)
     \/ fate[0] = "raises" /\ Ends(Raised)
     \/ fate[0] \in {"read", "altered"} /\ pc' = "blocks" /\ UNCHANGED result
  /\ UNCHANGED <<unread, data, n, slot, idx, depth, entries>>

\* c and not (d is None); a block that raises does not come here.
Keeps(b) == fate[b] \in {"read", "altered", "foreign"}

\* _blockptrar_zap_factory
ReadBlock ==
  /\ pc = "blocks" /\ n \in Blocks /\ fate[n] # "raises"
  /\ data' = IF Keeps(n) THEN Append(data, disk[n]) ELSE data
  /\ n' = n + 1
  /\ UNCHANGED <<unread, pc, slot, idx, depth, entries, result>>

ReadBlockRaises ==
  /\ pc = "blocks" /\ n \in Blocks /\ fate[n] = "raises"
  /\ Ends(Raised)
  /\ UNCHANGED <<unread, data, n, slot, idx, depth, entries>>

BlocksRead ==
  /\ pc = "blocks" /\ n \notin Blocks
  /\ pc' = "choose"
  /\ UNCHANGED <<unread, data, n, slot, idx, depth, entries, result>>

\* An entry of a micro ZAP without a name is a free one.
MicroEntries(list) ==
  LET used == {e \in Range(list) : e # None} IN
  [name \in {e.name : e \in used} |-> (CHOOSE e \in used : e.name = name).value]

\* _choose_zap_factory, MicroZap.parse
ChooseNothing ==      \* no data: an empty MicroZap
  /\ pc = "choose" /\ data = <<>>
  /\ Ends(entries)
  /\ UNCHANGED <<unread, data, n, slot, idx, depth, entries>>

ChooseMicro ==
  /\ pc = "choose" /\ data # <<>> /\ data[1].kind = "micro"
  /\ entries' = MicroEntries(data[1].list)
  /\ Ends(entries')
  /\ UNCHANGED <<unread, data, n, slot, idx, depth>>

ChooseFat ==
  /\ pc = "choose" /\ data # <<>> /\ data[1].kind = "header"
  /\ pc' = "leaves" /\ n' = 2 /\ slot' = 1
  /\ UNCHANGED <<unread, data, idx, depth, entries, result>>

ChooseNone ==         \* "Data is not a ZAP object"
  /\ pc = "choose" /\ data # <<>> /\ data[1].kind \notin {"micro", "header"}
  /\ Ends(None)
  /\ UNCHANGED <<unread, data, n, slot, idx, depth, entries>>

\* FatZap._parse_zap_block, a slot of the table per step. The type of the block
\* is not looked at.
Table == data[n].table
ChunkOf(leaf, k) == leaf.chunks[k + 1]
Chunk(k) == ChunkOf(data[n], k)
HasChunk(k) == k < Len(data[n].chunks)

\* Mutant: a slot without a chain is followed.
NeverFree(chunk) == FALSE
Free(chunk) == chunk = NoChunk

NextSlot ==
  /\ pc = "leaves" /\ n <= Len(data)
  /\ \/ /\ slot > Len(Table)
        /\ n' = n + 1 /\ slot' = 1
        /\ UNCHANGED <<pc, idx, depth>>
     \/ /\ slot <= Len(Table) /\ Free(Table[slot])
        /\ slot' = slot + 1
        /\ UNCHANGED <<pc, n, idx, depth>>
     \/ /\ slot <= Len(Table) /\ ~Free(Table[slot])
        /\ pc' = "chain" /\ idx' = Table[slot] /\ depth' = 1 /\ slot' = slot + 1
        /\ UNCHANGED n
  /\ UNCHANGED <<unread, data, entries, result>>

\* _follow_chunk_list: the pieces from chunk k on, and Raised at the end of a
\* list that leaves the leaf, goes on in a chunk of another type or meets
\* itself (which the interpreter's limit ends).
ChunkListOf(leaf, k) ==
  LET size == Len(leaf.chunks)
      list[j \in 0..size, at \in Nat] ==
        IF j = size \/ at >= size THEN <<Raised>>
        ELSE LET ch == ChunkOf(leaf, at) IN
          IF ch.type # "array" THEN <<Raised>>
          ELSE <<ch.piece>> \o (IF ch.next = NoChunk THEN <<>> ELSE list[j + 1, ch.next]) IN
  list[0, k]
ChunkList(k) == ChunkListOf(data[n], k)

ReadsLists(ch) == Raised \notin Range(ChunkList(ch.name)) \union Range(ChunkList(ch.value))

\* _follow_collision_chain
\* Mutant: the chain is left at its first entry.
AfterFirst(ch) == NoChunk
\* next_chunk
AfterEntry(ch) == ch.next

\* Mutant: a loop, which no limit of the interpreter ends.
Looping(d) == d
Deeper(d) == d + 1

ChainEntry ==
  /\ pc = "chain" /\ depth <= RecursionLimit
  /\ HasChunk(idx) /\ Chunk(idx).type = "entry" /\ ReadsLists(Chunk(idx))
  /\ entries' = [x \in DOMAIN entries \union {ChunkList(Chunk(idx).name)} |->
                   IF x = ChunkList(Chunk(idx).name) THEN ChunkList(Chunk(idx).value)
                   ELSE entries[x]]
  /\ idx' = AfterEntry(Chunk(idx))
  /\ depth' = Deeper(depth)
  /\ pc' = IF idx' = NoChunk THEN "leaves" ELSE "chain"
  /\ UNCHANGED <<unread, data, n, slot, result>>

ChainBreaks ==        \* "Expected ZAP leaf entry"
  /\ pc = "chain" /\ depth <= RecursionLimit
  /\ HasChunk(idx) /\ Chunk(idx).type # "entry"
  /\ pc' = "leaves"
  /\ UNCHANGED <<unread, data, n, slot, idx, depth, entries, result>>

ChainRaises ==
  /\ pc = "chain"
  /\ \/ depth > RecursionLimit
     \/ ~HasChunk(idx)
     \/ HasChunk(idx) /\ Chunk(idx).type = "entry" /\ ~ReadsLists(Chunk(idx))
  /\ Ends(Raised)
  /\ UNCHANGED <<unread, data, n, slot, idx, depth, entries>>

FatParsed ==
  /\ pc = "leaves" /\ n > Len(data)
  /\ Ends(entries)
  /\ UNCHANGED <<unread, data, n, slot, idx, depth, entries>>

ZapStep ==
  \/ Factory \/ ReadIndirect \/ ReadBlock \/ ReadBlockRaises \/ BlocksRead
  \/ ChooseNothing \/ ChooseMicro \/ ChooseFat \/ ChooseNone
  \/ NextSlot \/ ChainEntry \/ ChainBreaks \/ ChainRaises \/ FatParsed

----------------------------------------------------------------------------
\* Properties

TrueEntries(b) ==
  CASE b.kind = "leaf"  -> UNION {Range(chain) : chain \in Range(b.chains)}
    [] b.kind = "micro" -> Range(b.list) \ {None}
    [] OTHER -> {}

Answered == pc = "done" /\ result # None /\ result # Raised
Survivors == {b \in Blocks : fate[b] = "read"}
FirstKind == object.blocks[Min(Survivors)].kind
NotAltered == \A b \in DOMAIN fate : fate[b] \notin {"altered", "foreign"}

\* An altered leaf behind b has an entry of this name.
Overwritten(b, name) ==
  \E a \in Blocks : a > b /\ fate[a] = "altered" /\
    \E ch \in Range(disk[a].chunks) : ch.type = "entry" /\ ChunkListOf(disk[a], ch.name) = name

\* A ZAP has the entries of the blocks that could be read and no others: a lost
\* leaf takes its own entries with it, a lost header takes the ZAP, and only an
\* object of which nothing could be read comes back as an empty ZAP. An altered
\* leaf takes no entry of another one away, and gives one another value only
\* when it comes later and has an entry that reads as the same name.
EntriesAreTrue ==
  /\ (pc = "done" /\ result # Raised /\ NotAltered) =>
       CASE fate[0] = "none" -> result = None
         [] fate[0] # "none" /\ Survivors = {} -> result = <<>>
         [] fate[0] # "none" /\ Survivors # {} ->
              IF FirstKind \in {"micro", "header"}
                THEN /\ result # None
                     /\ {[name |-> x, value |-> result[x]] : x \in DOMAIN result} =
                          UNION {TrueEntries(object.blocks[b]) : b \in Survivors}
                ELSE result = None
  /\ (Answered /\ fate[0] # "altered") =>
       \A b \in Survivors : \A e \in TrueEntries(object.blocks[b]) :
         /\ e.name \in DOMAIN result
         /\ result[e.name] = e.value \/ Overwritten(b, e.name)

\* A block of the pointer table leads to nothing that the parser would take for
\* an entry: not beyond the chunks of a leaf, and not to a chunk that begins with
\* the byte of an entry, 252.
SmallPointers(o) ==
  \A b \in Range(o.blocks) : b.kind = "pointers" =>
    \A w \in Range(b.words) :
      w = NoChunk \/ (w < Len(b.types) /\ b.types[w + 1] # "entry")

\* What raises out of zap_factory, and so ends the walk that asked for the
\* directory, is damage, an object of more than two levels, or a pointer table
\* that is taken for a leaf; never a block that is merely unreadable.
RaisesOnDamageOnly ==
  (pc = "done" /\ result = Raised) =>
    \/ \E b \in DOMAIN fate : fate[b] \in {"raises", "altered", "foreign"}
    \/ object.levels > 2
    \/ ~SmallPointers(object)

\* The parser ends, also on a chain or a list of chunks that meets itself.
ZapEnds == (pc = "factory") ~> (pc = "done")
=============================================================================
