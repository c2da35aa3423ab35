# A TLA+ model of the ZFS rescue tool

The program reads files out of a damaged ZFS pool without importing it: it
reads the disks itself, or through a small block server on the machine that has
them, walks uberblock → MOS → dataset → dnodes, and hands out the files through
a FUSE mount or as tar archives. What makes it hard is that everything it reads
may be wrong: a sector that cannot be read, a copy that fails its checksum, a
dnode that is gone, an answer that stops half way. This directory models the
parts of the program that decide what happens then, checks them with TLC and
proves what matters most with TLAPS.

## 1. Inventory

| Part | Source | State it keeps | Operations | Talks to |
|---|---|---|---|---|
| Block proxy, network mode | `block_proxy/proxy.py` 67–143 | per call: buffer, socket, place in the list of extents | `read`, `readv` | the block server, one TCP connection per call |
| Block proxy, files mode | `block_proxy/proxy.py` 47–65, 147–175 | open files, table of devices and 1 TiB parts | the same | local files |
| Block server | `block_server/server.py` | one handler at a time: command, request, chunk loop | accept, serve `r` and `v` | the disks, the proxy |
| Block server, Python 2 | `block_server/server_py2.py` | same | same | same |
| Mirror and RAID-Z devices | `zfs/zio.py` 148–315 | list of children, the bad disk | column map, read, repair | the proxy's `readv` |
| Block reader | `zfs/zio.py` 48–142, `zfs/blockptr.py` | none | read one copy, checksum, decompress, pad | a device |
| Block tree | `zfs/blocktree.py` | root array, trie of indirect blocks | `__getitem__` | the block reader, all three copies |
| Object set | `zfs/objectset.py` | block tree, block cache, broken flag | open, `__getitem__`, prefetch | block tree, block reader |
| Dnodes, bonus data, system attributes | `zfs/dnode.py`, `zfs/sa.py` | parsed fields | parse, `from_bptr` | block reader |
| ZAP | `zfs/zap.py` | dictionary of entries | factory, `keys`, `[]` | block reader |
| File reader | `zfs/fileobj.py` | position, current block | `read` | block tree |
| Dataset | `zfs/dataset.py` 176–530 | object set, root directory, SA tables | analyse, list, extract, archive | all of the above |
| Nodes of the mount | `zfs/dataset.py` 73–174 | listing, temporary file | readdir, extract, read, release | dataset |
| FUSE file system | `zfs/fuse.py` | inode → node map | lookup, readdir, open, read, release | the kernel through llfuse, nodes |
| Labels, uberblocks, nvlists | `zfs/label.py`, `uberblock.py`, `nvpair.py` | parsed label | read, choose the active uberblock | the proxy |
| Main program | `zfs_rescue.py` | uberblocks, datasets | choose, try the copies of the MOS, mount or archive | labels, object sets, datasets |
| LZ4, LZJB, gzip | `zfs/lz4zfs.py`, `lzjb.py`, `gzipzfs.py` | none | decompress | block reader |
| C LZ4 decoder | `de.c` 412–539, `extractor/lz4.cpp` 443–570 | none | decompress | `de.c`'s own `main` |
| C++ extractor | `extractor/` | vdevs, label | second version of column map and label reading | – |

What is hard, and what each part must keep:

* **Proxy and server.** Client and server interleave; the network cuts
  answers, packets arrive in pieces; either side may die; the server has one
  thread. Data must land where its extent belongs, a read must end, the server
  must get away from every connection.
* **Block tree and object set.** Copies fail, one by one, and may come back.
  A good copy must be found, what is remembered must be what the tree holds
  there, a failure must not be invented.
* **FUSE.** Handlers run one at a time, handles do not: opens, lookups and
  releases of one inode interleave. An open handle must keep its file, no
  temporary file may be lost, an exception must not end the mount.
* **RAID-Z.** Arithmetic at the wrap of the columns; repair must restore what
  the bad disk held.
* **Dataset.** One shared temporary file, a recursion over directories that may
  be damaged, a mark for corrupted files that must be right.
* **ZAP and attributes.** A block that cannot be read is left out and what is
  behind it moves up; chains of chunks may have been altered. What is left must
  be right, an entry must not come from the wrong place, parsing must end. The
  attributes of every file hang on four such objects: losing one must cost no
  more than it has to.
* **Codecs.** Streams that end with their buffers, matches that overlap what
  they copy from, lengths that go on in further bytes, damaged bytes.
* **Main program.** Retries over the copies of the MOS, each able to fail in
  several ways.

PROJECT.json lists the hazards one by one, each at its line.

## 2. Modules

| Module | Models | Lines |
|---|---|---|
| `BlockRead` | what a read promises: asked once, answered with the image of its extents or with an exception | the specification of `read`/`readv` |
| `BlockProtocol` | client and server over FIFO connections; implements `BlockRead` | `proxy.py` 67–143, `server.py` 49–129 |
| `BlockProtocolProofs` | theorems about `BlockProtocol`: types and framing; what is in the streams and the buffers, and that a read is the one step of `BlockRead` | |
| `DnodeStore` | what an object set promises: a block is answered from one reading of it | the specification of `ObjectSet.__getitem__` |
| `ObjectSet` | object set, block tree, choice among the copies; implements `DnodeStore` | `objectset.py`, `blocktree.py`, `dnode.py` 396–407, `zio.py` 72–142 |
| `ZfsFuse` | mounted dataset: inode map, nodes, temporary files, paged listings | `fuse.py`, `dataset.py` 73–174, 322–358, 368–412 |
| `Archive` | the recursive walks over a dataset: archive, file list, listing | `dataset.py` 272–316, 360–526, `fileobj.py` as its caller sees it |
| `Rescue` | the main program up to the report on the datasets | `zfs_rescue.py` 94–191, `label.py`, `uberblock.py` |
| `BlockFiles` | the proxy over local files: table, 1 TiB parts, open files | `proxy.py` 47–65, 147–164 |
| `RaidzRead` | a read of a RAID-Z device over `BlockFiles`: column map, parity check, repair, reassembly | `zio.py` 167–315, `proxy.py` 166–170; the layout on disk from `extractor/zio.cpp` 96–245 |
| `Lz4` | the Python LZ4 decoder and, beside it, the C one with its copies of eight bytes | `lz4zfs.py`; `de.c` 412–539 |
| `Lzjb` | LZJB compression and decompression | `lzjb.py` 91–167 |
| `Codecs` | a compressed block from its writer over the disk to the caller of `read_block` | `zio.py` 109–142 |
| `FatZap` | `zap_factory`: the blocks of a ZAP object, micro and fat, to its entries | `zap.py` 85–265 |
| `Analyse` | the analysis of a dataset over four ZAPs, and the bonus of a file unpacked with what they gave | `dataset.py` 219–268, 461–479, `sa.py`, `dnode.py` 203–249 |
| `MC*` | the small instances TLC checks | |
| `DataInduction` | induction for sets of data, and what a recursive function is; used by the proofs | |
| `ObjectSetProofs`, `ZfsFuseProofs`, `RescueProofs`, `ArchiveProofs`, `CodecProofs`, `RaidzReadProofs` | theorems about `ObjectSet`, `ZfsFuse`, `Rescue`, `Archive`, `Codecs` and `RaidzRead` | |

The modules meet at narrow interfaces. `BlockProtocol` gives the pool reader
above it either the image of its extents, zeros for what could not be read, or
an exception; those are the ways a copy fails in `ObjectSet` (`garbled`,
`undecodable`, `error`). `ObjectSet` gives the dataset a dnode, junk, None or
an exception; those are the outcomes of a listing and of an extraction in
`ZfsFuse` (None, an exception, a file of zeros, a short file, no file).
`RaidzRead` extends `BlockFiles` and shares its state; what it returns (the
block, wrong or shifted data, None, an exception) is again what a copy can be
in `ObjectSet`. `Codecs` says when a good copy of a compressed block comes
out as data, None or an exception. `FatZap` has the three ways a directory comes
to the walks of `Archive` and the listings of `ZfsFuse` (None, an exception, an
empty or partial dictionary), and `Analyse` extends it and shares its state, one
ZAP after the other; a file without attributes, or with a link target that is
not there, is an entry that raises or is left out in `Archive`.

### BlockProtocol

A *call* is one execution of `BlockProxy.read` or `readv` with its own socket;
`call[c]` holds its locals (`pc` says which statement it is at), `buf[c]` the
buffer. `srv` holds the locals of the one server thread. `c2s`, `s2c` and `link`
are the TCP connection: two FIFO streams and who has closed, which decides
whether the peer sees an end of file or a reset. Every `sendall`, every header,
every cell of data is a step, so restarts and deaths fall between any two of
them. Data is abstracted to *cells* named by device and address; a header is
one item. Two simplifications: a header read from the middle of data
(`RecvGarbage`) is decided nondeterministically, without the case of a random
length that happens to fit, and the stream is never out of step by part of an
item. `c2s` holds whole requests; the client sends each by one `sendall`.

### ObjectSet

A block is named by its path in the tree. `medium[b][d]` is the state of copy
`d`: intact, garbled, undecodable or raising; `Ptr[b]` says what the pointer
looks like (hole, gang, embedded, with or without a fletcher4 checksum,
compressed or not). `ReadBlock` gives what `read_block` returns, `LoopOver` is
the loop over the DVAs that the three readers share, with the condition each of
them leaves it on. DVAs that are not in use are read all the same, at offset 0,
and give junk or nothing. `trie` is the cache of `BlockTree`, `cache` that of
`ObjectSet`; a lookup goes down one level per step and the copies may change
between steps. What a junk block points to is anything. A new `ObjectSet` may
be tried after one whose constructor failed, with other DVAs.

### ZfsFuse

llfuse is run with one worker, so a handler is one action; what interleaves are
the handles that are open. A node is named by its directory entry; hard links
are two entries with one object number. `temp` is `_cache_file`, `disk` the
temporary files. The outcome of a listing is nondeterministic: the entries,
without those in the blocks of the directory's ZAP that could not be read
(`Readable`; all may be lost), None, or an exception; a partial one is remembered
as a whole one is. So is that of an extraction (all, short, no file). An
exception that is not a FUSEError ends `llfuse.main`: `mount = "down"`. In half
of the behaviours (`exclusive`) the callers open no inode twice at a time and do
not look an open inode up under another name, as a copy of a dataset without
hard links does.

### Archive

`stack` is the call stack of a recursive walk: a frame has the directory, the
place in its sorted keys, the prefix of the path and the blocks of the ZAP that
were not read (`lost`). What is in such a block is missing from the dictionary,
which may come out empty, and the walk goes on without a word (`Enter`). `mode` says which of
`_archive`, `_export_dir` and `traverse_dir` it is; what they share (the
recursion, the reading of a directory) is modelled once, with the differences
in it: only `traverse_dir` catches what `zap_factory` raises, and only it has a
depth; `_export_dir` writes a row for a directory it cannot read. `out` is what was written, `tmp` the one temporary file of an archive, `left` and `missed`
histories of what was given up and of the ZAP blocks that were not read. A file is
extracted block by block (`ExtractBegins`, `ExtractBlock`, `ArchiveFile`):
`extract` is the running `extract_file`, the turn of its loop and the flag
`corrupted`. A walk meets at most `MaxFaults` failures, each where the
code has a way for it: a dnode or a ZAP that is None, an exception, a block
with a wrong checksum or unreadable, an `addfile` that raises (before it wrote:
what a half-written member does to the tar is not modelled). A block that is a
hole is written as zeros and marks the file, as the code has it. Names are
numbers in sorting order.

### Rescue

The script is one thread, so its state is where it is and what it has bound.
`disk` holds what it reads, one of the `Worlds` an instance gives: labels that
parse or do not, the uberblock array, what the three copies of the MOS come to
(`opens`, `garbled`, `lost`, `raises`; `ObjectSet` has how each comes about)
and the objects of the MOS that cannot be read. `datasets` is a function from
ids to a dnode of the MOS, to a dnode of other contents, or to None.

### BlockFiles and RaidzRead

The unit is a sector, so a size that is no multiple of `1 << ashift` is not
modelled (the code drops what is past the last whole sector, `zio.py` 254). The
content of a sector is symbolic: the set of the data sectors of the block that
are xored into it. What the disks hold, `OnDisk`, is stated from the other side
than the code: a block owns the sectors b, b + 1, … of the whole device, sector
p of it belongs to column p mod the number of children, the first column is the
parity, and where bit 20 of the offset is set the columns 0 and 1 change places.
`Column`, `Swap` and `MapAlloc` are the code's arithmetic. A read is one step
per column, since each may fail or leave a file open under a key that a later
read uses; a disk may be lost, the one to repair or another. A device that the
table does not have is opened under its own name; no such file exists here. The
main program builds its device with `bad=[0]` and without repair
(`zfs_rescue.py`); the model has both.

### Lz4, Lzjb and Codecs

The decoders are modelled digit by digit with smaller digits. In `Lz4` a token
has two digits of base `RunMask + 1`, and a byte as many values as a token: 4 and
16 in the run, 16 and 256 in the code. A length of a digit that is full goes on
in further bytes as it does there. In `Lzjb` a byte has `ByteBits` bits and a
match takes `MatchBits` of a word of two bytes: with 2 and 1, matches of three or
four bytes at distances up to seven. What is not scaled is the C decoder's
`COPYLENGTH`, `STEPSIZE` and the tables `dec32table` and `dec64table`, since
whether its copies stay in their buffers depends on them; `reach` has how far
they went. A step is one sequence (LZ4) or one item of a group (LZJB).

The Python loop compares positions that count the four bytes of the size with a
size that does not, so it ends four bytes early; the model counts from behind
the size and has the difference. It runs on past the last literals to a match
offset that is not there; what it finds instead, or that nothing is there, is
modelled.

`Codecs` writes an LZ4 stream from the side of the format (`Sequence`): ZFS packs
those blocks, the repository does not. LZJB blocks are packed by the
repository's own `lzjb_compress`. Between writing and reading the disk may
change one byte, or the size in front of the stream.

### FatZap and Analyse

A leaf is written from the side of the format (`Stored`): chains of entry
chunks, with the chunks of names and values behind them, numbered from either
end. Names and values are sequences of pieces, one per chunk; the cut of the last
one to the entry's length, and the byte order of a value of eight bytes, are left
out. Leaves of 16 KiB are assumed, as the code does. Each block is read, fails
its checksum, gives nothing, or raises; a block with no checksum of its own
(only the objects in `Fragile`, to keep the run small) may have other contents:
a chunk that leads to any other, a free one in a chain, an indirect block that
leads to other objects, a piece of a name or a value is another one. A block of
the pointer table has words, which read as a leaf's hash table, and the low bytes
of block numbers where a leaf has the types of its chunks, 252 being that of an
entry. What follows in `Analyse` from an altered table is not
followed further. `depth` is the recursion of `_follow_collision_chain`;
`RecursionLimit` ends it as the interpreter does.

`Analyse` is the analysis up to the tables of attributes, stage by stage, one
ZAP at a time, with all faults from one budget (`MaxFaults`), then the unpacking
of one file's bonus. The bonus is written from the side of ZFS
(`extractor/include/sys/sa_impl.h` 160–186, 245–249, 266–270) in pairs of bytes,
so that an odd length is one that is not a multiple of four pairs; an attribute
goes by its number, and only those of two, four or eight pairs and the link's
target are kept, as the code keeps them. `Room` stands for what a dnode of 512
bytes has for its bonus; an attribute behind it is in a spill block, which the
code does not read.

## 3. Runs

| Run | Shows | Bounds |
|---|---|---|
| `proto_faults` | framing, exact data up to the first error, lock step, who can wedge the server, with unreadable sectors, missing and short devices, a killed client and a restart | 2 calls, extents of up to 3 cells, chunk 2, one death, one restart |
| `proto_live` | the protocol implements `BlockRead`; every read ends; the server gets away from every connection | 2 calls, no deaths, jobs in which garbage cannot occur |
| `proto_chunks` | *violation*: a read longer than one chunk returns other data than the disk has there | |
| `objset` | trie, block cache, choice of copies; implements `DnodeStore` | trees of 1–4 levels, 2 pointers per block, 2 dnodes per block, 2 changes of copies |
| `objset_copies` | *violation*: a corrupt copy of a dnode block hides an intact one | |
| `fuse` | handles, temporary files, listings, what ends the mount | 4 entries: two names of one file in one directory, whose ZAP has two blocks; 2 handles, 3 opens, pages of one entry |
| `archive` | what is archived, in which order, under which mark; what is given up; depth and recursion | two trees, one cyclic, in the other a directory whose ZAP has two blocks; files of data, of a hole, and of both; 3 failures; 4 frames |
| `rescue` | the uberblock in use, the datasets found, what ends the program, that it ends | two disks, every array of three uberblocks with txg 1–3, every outcome of three copies with one object lost |
| `raidz` | the column map against the layout, repair of a lost disk, what a short or missing part does, open files | two reads of blocks at sectors 0–7 and past the limit, 1–5 sectors, 2–4 children, parts of 4 sectors, every disk lost and repaired |
| `codecs` | what is packed comes back, what a damaged byte may change, the two LZ4 decoders against each other, how far the C one reads and writes | LZ4: no, one or two sequences with literals, distances and matches on both sides of every limit (a full digit, the eight bytes of a copy), 0 to 2 bytes of padding; LZJB: every short block of two values and longer ones that repeat at the largest distance and one beyond; one damaged byte in one block of each |
| `analyse` | which entries a ZAP gives, what raises, what a lost or altered block costs; root directory and attributes of a dataset; that every ZAP ends | six datasets (micro and fat master, layouts in two leaves with a block of the pointer table, one of whose words leads to what looks like an entry, too many levels, a layout of four attributes), two faults, one altered block, seven kinds of file |
| `zpl_links` | *violation*: the target of a link is not what the archive finds in its bonus | the same |

The bounds are the smallest at which every case happens. Two calls are enough
because the server serves one at a time and calls share nothing else; a second
call can wait in the backlog, be served after a failure, or find the server
lost. Three cells and a chunk of two give a full chunk, a partial one and a
read past the end. Four levels are the fewest with two levels of trie, where an
index that is used at the wrong level shows; two changes are enough to lose all
copies of a block, or one and get it back. Three opens allow a file to be
reopened while another is open. Three failures allow a member that fails, a
temporary file it leaves, and damage to the next file; four frames are one more
than the deepest tree without a cycle has. Three uberblocks can tie, stand in
any order, and have one that is not valid between them. Sectors 0–7 with up to five of data give every first column, a
wrap, a block in one row and in several, with and without big columns, on both
sides of a change of the parity's place and of the end of a part; a second read
meets the files the first left open. Two
faults are enough to lose a block of a table and a dnode on the way to it, or
both leaves; a layout number past 255 and attributes of odd length are among
the files. `CHECK_DEADLOCK FALSE` is set where the system
stops: all calls ended, the mount down, a walk, a block or the program at its
end.

A type invariant is checked for `BlockProtocol`. The other modules have none
among the properties of their runs, what those say of the same variables is
stronger; where there are proofs, the types are the first conjunct of the
inductive invariant and are proved with it.

**Fairness.** `FairSpec` of `BlockProtocol` has weak fairness on each call's next
step and on the server's next step: the client is a running process in a
blocking call, the server a `serve_forever` loop, and TCP delivers in order.
Nothing forces a call to be made, a client to die or a server to restart. A
call whose server dies in the middle of an answer spins (`recv` returns `b''`
for ever, `proxy.py` 119–121), so `proto_live` has no restart. `Rescue` has weak
fairness on its next step, a script that runs until it ends; so has `Analyse`
on the program's steps, not on the disk's.

## 4. What is proved

The theorems hold for every value of the constants that satisfies the assumptions
of the model's module (below): any tree, any number of calls,
handles, levels, entries, failures. Each comes from one inductive invariant,
`Inv` (`AllInv` for what is in the streams of `BlockProtocol`), and three facts:
the initial states have it, every step keeps it (with a lemma for each action that
does something), and it implies the property. The properties are those the runs
check, under the same names.

### BlockProtocol

* `TypeCorrect`: `[]TypeOK`.
* `FramingHolds`: `[]DataIsData`: the client never takes a header for data.

`Inv` has the types; the server's place in a chunk (`InChunk`: between
`SendChunkHeader` and `SendChunkData` the server owes exactly the cells its last
header announced); and for each call (`CallInv`) that the number of cells that
follow the header the client is at are in the stream, or in the server's hands,
and nothing else comes before them. `DataIsData` is not inductive by itself
because it says nothing of what the server still has to send: header and data
are two sends, and between them a restart, a close or a reset may fall.

* `AnswersKeepStep` (`InStep`), `ServerSpinsForLostClientsOnly`
  (`OnlyLostClientsSpinTheServer`), `PrefixHolds` (`PrefixExact`), `HonestHolds`
  (`HonestToFirstError`).
* `ReadIsOneStep`: `Spec /\ [][restarts' = restarts]_vars => BlockRead!BRSpec`, the
  safety part of `ImplementsBlockRead`, step by step. A restart is excluded because it makes
  a sound read raise, which `BlockRead` does not allow; the run excludes it by
  `MaxRestarts = 0`. Calls may be killed.

What a buffer holds follows from what is in a stream, and that from what was
asked and where the server is in it. So the invariant has three layers beside
`Inv`, each shown to be kept with the help of those before it:

* `Base`, the connections and the requests: which ends of a connection are open at
  which steps of its call (`LinkInv`), the call's place in its own list
  (`PlaceInv`), what of its command and requests is unread (`RequestInv`), how a
  client closes (`ClosedInv`, from which `OnlyLostClientsSpinTheServer` follows)
  and that the server is past the extent it failed at (`FailInv`).
* `Streams`, the answers: up to the first `'e'` the stream holds the answer to the
  extent the client is at, with packets one behind the other that begin before the end
  of the extent, or nothing and the server has not come to the extent (`SyncInv`,
  `AskInv`); after it every packet begins where an extent *behind* the failed
  one begins, or further (`LateInv`). `OffsetInv` has how `server.py`'s `offset` and `i`
  move together.
* `Buffers`: the cells under way are those of the extent (`ContentInv`), a cell of
  the first chunk that is not in the buffer is still to come once the server
  has sent its header (`FirstInv`), and the two properties themselves (`PlacesInv`).

None of the properties is inductive by itself. `PrefixExact` says what was received and
nothing of what will be; and when an answer is cut short the client goes on to read
the rest of the stream as answers to other extents, where only `LateInv` says that
none of that can reach the extents before the error. `ReadIsOneStep` needs one part
more (`Soundness`): on a request no fault touches the server does not fail, and it
closes the connection only when everything was asked.

### ObjectSet

* `TrieMirrorsTree` (`TrieIsTheTree`), `DnodesDoNotAlias` (`IdsDoNotAlias`),
  `GoodCopiesAreUsed` and `NoBlockIsLostFalsely` (the action properties
  `GoodCopyIsUsed` and `NoFalseLoss`).
* `ObjectSetImplementsStore`: `Spec => DnodeStore!Spec` under the refinement
  mapping of the model, step by step: an initial state maps to one, a step to a
  step or a stutter.

A lookup goes down one level per step while the copies change, so `Inv` says
where it is (`WalkInv`): at the node its indices lead to, or in junk once one
block was junk, with the trie filled along the way to there; `CacheInv` then has
that what is remembered of a block is what its own indices lead to. That is where
`IdsDoNotAlias` needs arithmetic: `blocktree.py` 73–77 takes the indices from the
number by division, and the lemmas `QuotientsDef` and `NumberOfIndices` show that they
are its digits, so two numbers in the room of the tree have different ones. The action
properties need the loop over the copies in closed form: which copy it leaves on
is found by induction over them.

### ZfsFuse

* `ReadsAreOwn` (`ReadIsOwnData`), `OpenHandlesRead` (`OpenHandleReads`),
  `TempFilesAreTheHandles` (`NoTempFileLost`), `MountEnds`
  (`MountEndsOnDamageOnly`), `ListingsAreGivenInFull` (`ListingIsGivenInFull`).

From an open handle to its data it is four lookups, handle → inode → node →
temporary name → file, and each handler changes one of the maps under the others;
so `Inv` has one part for each map: an inode leads to one of its own names, and an
open one does lead to a node (`MapInv`); a temporary name belongs to one node, was
drawn once, and what is stored under it is of that node's object (`TempInv`);
while no inode is open twice, files and handles that made one are the same
(`HandleInv`); what a `readdir` has given has every inode of the remembered listing up to the one
it has come to, though not every name of it (`DirInv`). The last one needs that a page, which the model takes with a
function that is recursive over the entries left, is the least of them: an
induction over finite sets.

### Rescue

* `UberblockIsRight` (`SelectedIsRight`), `OnlyDamageEndsIt`
  (`EndsOnDamageOnly`), `DatasetsAreKnown` (`AllDatasetsFound`).

The search for the active uberblock is a loop over the array with ties and
invalid ones; what it finds is shown by induction over the array's length. What
the loop over the copies of the MOS leaves behind depends on their order: a good
copy may come before a garbled one that overwrites what it found. So `Inv` says
what is known of the copies *before* the one the program is at (`DamageInv`,
`ScanInv`), and of the objects before the one the scan is at.

### Archive

* `MembersAreTheirObjects` (`MemberIsItsObject`), `MarksAreTrue`
  (`MarkedIffZeroed`), `WalksAreInOrder` (`InWalkOrder`), `WrittenPathsAreTrue`
  (`PathsAreTrue`), `WalksLoseNothingElse` (`NothingElseIsLost`).

A walk is a stack of frames, each with the keys it has not come to. `StackInv` has
that every frame is a directory of the tree one level below the one before it and
has just gone past the key that leads there. What is to come is then everything
below a key that is left in some frame, and `OrderInv` and `LossInv` are about that
set: all that was written comes before all that is to come, and what is
neither written, nor given up by name, nor behind a ZAP block that was not read, nor
none of this walk's business is to come. The step that matters is the reading of a
directory: what is below it is then below a name in its dictionary, or behind a
block that was missed just now (`RemainsOpened`). `FileInv` is about the file being
extracted: the temporary file holds one block for each turn of the loop, and the
flag is set by one of them that is zeros, or by the whole file being a hole; without
it `MarkedIffZeroed` says nothing of the file that will be the next member.
`NothingElseIsLost` alone speaks of the end of the walk and says
nothing about a state on the way; `InWalkOrder` alone says nothing of what the next
member will be. The order of the keys is `sorted()`, here any sorted listing of the names that
are in the dictionary: that there is one is proved (`KeysSorted`) by induction over
the set of names.

### Codecs

* `DecoderStaysInside` (`NothingOutside`): for every stream of bytes, every size in
  front of it and every room for the output.
* `PythonDecodesAsC` (`DecodersAgree`): for the same streams, sizes and rooms, and every base of
  the digits, so for the 16 of the code.

The C decoder copies by packets of eight bytes, so it writes up to eight bytes
more than a run of literals has, and a match begins with `STEPSIZE` bytes however
short it is. It stays inside because literals within eight bytes of either end
are taken for the last ones (`NearAnEnd`) and must then end with the input, and
because the packets of a match stop eight bytes before the end (`PacketsEnd`);
`Copied` has that arithmetic, for runs of any length. `NothingOutside` alone is not
inductive: at the loop `Inv` needs that the size in front of the stream is no more
than the buffer has (`PlaceInv`), and before the call, where the disk may still
change that size, that nothing has been touched (`ReachInv`).

For `DecodersAgree` two decoders have to be compared of which one has ended before
the other begins. The invariant `Agreement` holds on to the way C went: a set of
places (a position in the stream, and what was written up to it), each but the last
leading to the next by a sequence decoded byte by byte (`Trail`). The Python decoder
is always at one of these places, or it is through (`PyOn`).

* That C goes such a way (`LoopInv`): a match copied byte by byte repeats the last
  `offset` bytes, and so does a copy by packets whose source is a multiple of the
  offset behind and a packet's length at least (`PacketsAlong`). `dec32table` and
  `dec64table` make one of each offset below eight (`HeadAlong`, shown offset by
  offset). What a packet writes too much is written over before it is read.
* That Python follows it (`PyOnTheWay`, `PyAtTheEnd`): the end of the stream that it has
  four bytes early cuts no run short, since the last literals are five bytes at
  least, and the two zeros of the padding, which it takes for the offset of a last match,
  make that match write nothing. Both are in `EndsAsLz4`, what the property asks of the stream.

At offset 0 C repeats what is in its buffer (`reach.zero`) and Python writes
nothing: the property leaves such streams out.

### RaidzRead

* `HandlesHoldTheParts` (`HandlesAreTheParts`), `ColumnsAreAllocated`
  (`ColumnsAreTheAllocation`), `BlocksAreRestored` (`ReadRestoresData`) and
  `ReadsAreRightToTheCut` (`RightUpToTheCut`): for a device of any number of
  children, blocks at any place and of any size, tables and parts of any length,
  any lost disk and any disk to repair.

The first part is arithmetic. With q and rest from dividing a block's sectors among the
data columns, `Shape` has the numbers of the code in those two, `Sizes` that column
c is as long as there are sectors c, c + n, c + 2n, … of the block, and
`Fronts` that `Before(r, c)` sectors are in the columns before column c. The
model's columns come from a recursive function and its sums from folds, so
`KeptColumns`, `SumInterval` and `LoopIs` say what these compute, by induction.
Of the layout on disk, `OneQuotient` gives that a sector of the whole device is in one
column only, with or without the swap (`Places`, `AllSectors`), `OnDiskIs` that what
a column's sectors hold is what the layout puts there, and `HoldsIs` the same
through the table and the files it names.

The second part is the invariant, in four conjuncts. `Reading`: the columns are those of
the request, in closed form (`TheColumns`). `Opened`: what is open under a key is
the file of that device and part; with the code's choice of key that makes `HandlesAreTheParts`.
`Fed`: up to the first column that is cut, what was read is exactly the cells of
the columns read so far, each behind those before it; of what comes behind a cut
it says nothing, and nothing is true there. `Answers`: what the last answer
promises, in terms of the request and the disks alone, so that later reads do not
disturb it. The step that matters is `ReadEnds` (`EndsRight`): `PieceIs` has that the piece of
every column that is not cut is that column's content, `BadIs` which column is repaired,
`Repairs` that the parity with the other columns xored into it is the lost column
(after turn q of the loop a sector of it holds the data sectors of the columns that are not
yet xored, and column b; `LeftTurn`), and `FlatCounts` that the columns one behind
the other are the sectors in their order. That a read raises on damage only
needs that the parity is the longest column (`RaisesOnCut`) and that a column that is
whole finds its file (`WholeOpens`). `ReadRestoresData` alone is not inductive: it
speaks of a read that has ended and says nothing of the data that is being collected.

### Assumptions

The assumptions are on constants, named, and evaluated by TLC on every run. Apart
from types they are: directories, disks and sets of entries are finite (they are
read from finite blocks); `Entries[d][n].obj` is an object the model knows; every entry is in a block of its directory's ZAP (`Leaf`), of
which there are finitely many; objects
of a MOS are numbered from 0 without a gap (an object set is indexed so); every
dataset a child directory names exists in the instance; what a directory names has
an object number greater than 0 (0 is no object of ZFS); chunks, pages and blocks hold at
least one item; markers like `None` and `Junk` differ from the values they stand
beside; what ZFS packs with LZ4 is made of bytes, a match of it lies in what was
written before (`PlansAssumption`), and a damaged byte is a byte; no child is in a
RAID-Z device twice, and no two parts of the table are in one file
(`RaidzAssumption`, `TablesAssumption`: the disk images are distinct files). None restricts what fails or in which order.

`RowsAssumption` of `BlockProtocol` is about the requests: no extent of a list begins behind
the end of one before it. The one caller that asks for several extents,
`RaidzDevice._read_physical` (`zio.py` 203), asks for the columns of one row, which
`_map_alloc` puts at one offset or a sector behind it, each of a sector at
least. Without it `PrefixExact` and `HonestToFirstError` are false: after an `'e'` the client is
one extent ahead of the server and takes data for extent `j` as data for `k > j`, at
`off_j - off_k` from the start of `k`; far enough to the left that lands in an
extent before the error.

### Induction

The provers cannot instantiate a lemma with an operator as a parameter, which is
how the library states induction. `DataInduction` states it over sets instead: a
predicate is the *set* of what satisfies it (`NatSetInduction`, `UpToInduction`),
and all of it follows from one library fact, that finite sets are well founded by
strict inclusion. The same way it shows what a recursive function on `0..N` is
(`RecursionUpTo`), since TLA+ defines one only by CHOOSE. So what a recursive
*function* of a model computes can be proved; RECURSIVE operators stay out of the
modules with theorems.

### Model-checked only

* Liveness under fairness, which the provers do not reach: `EveryReadEnds` and
  `ServerIsFreed` of `BlockProtocol`, `ProgramEnds` of `Rescue`, `ZapEnds` of `Analyse`.
* So does the fairness of `BlockRead!FairSpec`, the other half of `ImplementsBlockRead`.
* `BlockIsRestored` of `Codecs`: it relates the decoders to what a writer made of a whole
  block, sequence by sequence (LZ4) and item by item (LZJB).
* `FatZap` and `Analyse`: all of their invariants. Each compares a whole object, as it was
  written, with what comes out of it, chunk by chunk and by way of three recursive
  functions (`from`, `written`, `list`) that would each have to be taken in closed form first.

## 5. What the code does otherwise

* `server.py` 100/104–105: `offset` and `i` both advance, so every chunk of a
  read but the first comes from the wrong place (run `proto_chunks`).
* `objectset.py` 99: the first copy with data is used, verified or not (run
  `objset_copies`).
* `dnode.py` 247: the inline content of a bonus with system attributes is what
  is behind the last attribute, so `_archive` writes a link of up to four bytes
  with zeros for a target and leaves a longer one out (run `zpl_links`). The
  mount reads `zp_symlink`, which is right.

What the passing properties have to except, each of them a place where the code
falls short of what one would state first:

* `proxy.py` 133: the client leaves an answer at `'e'`, the server still sends
  `'l'`: the columns after it shift. `HonestToFirstError` says that the data is
  right up to there.
* `server.py` 53: `read_len` spins on a closed connection: a client
  killed between its command and its request takes the server from all others;
  `OnlyLostClientsSpinTheServer` says that nothing else does.
* `dataset.py` 173, `fuse.py` 100: a file is tied to its inode, not to its
  handle, so a second handle, or a lookup of another name, takes it away from an
  open one. `OpenHandleReads` and `NoTempFileLost` hold for callers that are
  `exclusive`.
* `zfs_rescue.py` 144: an object set without a dnode has no length, and what
  that raises is not caught: a garbled or lost copy of the MOS may end the
  program though another one opens (`EndsOnDamageOnly` lists it with the
  damage).
* `lz4zfs.py` 36: a stream that ends with its buffer, or one byte before, is
  given up, for want of a match offset behind its last literals.
  `BlockIsRestored` asks for two bytes of padding.
* `lz4zfs.py` 11–16: the size in front of a stream is never compared with the
  buffer, and the loop ends four bytes early: a size that is up to four bytes too
  large fails the C decoder, while the Python one may return a block.
  `DecodersAgree` says that it gives up from five bytes on.
* `lzjb.py` 118: `lzjb_compress` raises IndexError on a match of full length
  that ends with the block (`RaisesAtTheEndOnly`, part of `BlockIsRestored`).
  The program itself does not compress.
* `sa.py` 62: the ZAP turns a value of eight bytes into a number, and a layout of
  exactly four attributes is one: `len` raises and the whole dataset is without
  attributes (`Supported`, in `AnalysisLosesToDamageOnly`).
* `dnode.py` 203–220: of a layout's number only eight bits are used, the others
  go into the header's size; an attribute behind one of variable length that
  fills no whole word is read from the wrong place (`AttributesAreTrue` is
  stated for the others).
* `dataset.py` 237, `zap.py` 68: a master node of which no block can be read is
  an empty micro ZAP, and printing it formats None as a number: the TypeError
  leaves `analyse`.
* `zap.py` 239–245: a block of a ZAP that cannot be read is left out and nothing
  is said of it, so a directory's entries in it are missing from the archive, the
  file list, the listing and the mount, and a walk ends as if the tree were whole.
  `NothingElseIsLost`, `ListingIsGivenInFull` and `EntriesAreTrue` say that nothing
  else is lost with it.
* `fuse.py` 117: a page of a `readdir` goes on behind the last inode given, so of two
  names of one inode the second is lost if the page ends between them
  (`ListingIsGivenInFull` asks for every inode, not every name).
* `zap.py` 168: no block is asked for its type, so one of an external pointer
  table is walked as a leaf, which may raise, over a word of the table or over a
  block number whose low byte is that of an entry; an object of more than two levels
  does (`RaisesOnDamageOnly`). The checksum of an indirect block is not looked
  at, a ZAP of which only the first block is lost answers None, and in one whose
  contents no checksum vouches for, a changed name in a later leaf replaces the entry of
  an earlier one (`EntriesAreTrue`).

Also met while modelling, and held by no property: ids past the capacity of a
tree wrap to other blocks (`blocktree.py` 73; `IdsDoNotAlias` is stated for the
ids a tree has room for); when no copy verifies, the last one read is used, or
lost though an earlier one gave data (`blocktree.py` 63–66); an exception from
one copy keeps the others from being tried; a dnode block that failed once is
never read again (`objectset.py` 101). `extract_file` ignores the checksum of a
block and reads its first copy only, so a file with wrong data is archived
without the mark, while an intact file with a hole gets it (`dataset.py` 394,
398; `MarkedIffZeroed` states what the mark does mean). A ZAP that raises ends
the whole archive or file list (`dataset.py` 428, 507), and so does a file whose
block tree has no readable root. Label 1 is read only to print its txg, yet
ends the program when it does not parse (`zfs_rescue.py` 114–117); a garbled
copy of the MOS that comes last replaces the datasets of a good one (148). In
files mode one list in the table makes every device one with parts: a plain path
is then indexed as a string (`proxy.py` 158–159). A read that crosses the end of
a part comes back short, and the columns after it shift (`RightUpToTheCut`
states how far the data is still right). A RAID-Z read past 8 TiB answers None
(`zio.py` 182), which `read_block` then slices or measures: an exception
unless a decompressor's `except` takes it first. A dataset without a root
directory is analysed to the end; the walks then ask for the dnode None and
raise. A leaf of another size than 16 KiB is misparsed (`zap.py` 182).

## 6. Not modelled, and the plan

Not modelled because there is nothing for a model to decide: block pointer,
dnode and nvlist unpacking and the old fixed bonus layouts (pure reads at fixed
places), printing, the gzip wrapper, the translation table of the server (read
once before it serves), LZ4 wrappers and searches that nothing calls, the
argument handling and stubs of the extractor. The arithmetic of fletcher4 is
taken as a perfect comparison. Spill blocks are not modelled because the code
does not read them.

`src/extractor/include*` and the Python LZ4 binding are vendored: most of the C
and C++ lines of the repository are headers of ZFS and SPL that nothing here
translates, and no model of this program would. The program is some 5300 lines,
mostly of Python; the definitions translate somewhat more than a third of them,
and most of the rest prints, unpacks fixed layouts or is not called.

Theorems to prove next:

1. `RaisesOnDamageOnly` of `FatZap`: every chain that was not altered ends within its
   leaf, by induction over its chunks.
2. `EntriesAreTrue` of `FatZap`, from the first: what is written in a leaf is read from it, entry by
   entry.
3. The LZJB half of `BlockIsRestored`: what `lzjb_compress` has written, item by item, is what
   `lzjb_decompress` reads.
