------------------------------ MODULE ZfsFuse -------------------------------
(***************************************************************************)
(* The recovered dataset as a file system: zfsfuse (zfs/fuse.py) over      *)
(* zfsnode and Dataset.readdir / extract_file (zfs/dataset.py).            *)
(*                                                                         *)
(* llfuse runs one handler at a time (workers=1), so a handler is one      *)
(* action; what interleaves are the handles that are open at a time.  A    *)
(* zfsnode belongs to one directory entry, so the entry names it.  A call  *)
(* gives up an inode, not a handle: read and release find their node       *)
(* through _inode_map.  An exception that is not a FUSEError ends main().  *)
(***************************************************************************)
EXTENDS Integers, FiniteSets

CONSTANTS
  Entries,     \* directory entries, and with them their zfsnodes
  Root,        \* the node of the root directory
  Parent,      \* Parent[e]: the directory e is listed in
  Dnode,       \* Dnode[e]: the object number in the entry's ZAP value
  Name,        \* Name[e]: the place of its name in the order of names
  Kind,        \* Kind[e]: "d" or "f"
  Leaf,        \* Leaf[e]: the block of its directory's ZAP that the entry is in
  RootInode,   \* llfuse.ROOT_INODE
  Handles,     \* the file handles of the kernel
  MaxOpens,    \* how many files are opened in all
  PageSize,    \* how many entries the kernel takes from one readdir
  None, Raises

Nodes    == Entries \union {Root}
Inode(n) == IF n = Root THEN RootInode ELSE RootInode + Dnode[n]
Inodes   == {Inode(n) : n \in Nodes}
Dirs     == {n \in Nodes : n = Root \/ Kind[n] = "d"}
Files    == {e \in Entries : Kind[e] = "f"}
Children(d) == {e \in Entries : Parent[e] = d}

How == {"all",    \* every block was written, as zeros if it could not be read
        "short"}  \* an exception, or an empty first pointer, cut it off

OpenFiles == [inode : Inodes, made : BOOLEAN]
TempFiles == [dnode : Nat, how : How]

ASSUME ConstantsAssumption ==
  /\ IsFiniteSet(Entries)
  /\ Root \notin Entries
  /\ Parent \in [Entries -> Nodes] /\ \A e \in Entries : Parent[e] \in Dirs
  /\ Dnode \in [Entries -> Nat \ {0}]
  /\ Name \in [Entries -> Nat]
  /\ Kind \in [Entries -> {"d", "f"}]
  /\ DOMAIN Leaf = Entries
  /\ RootInode \in Nat /\ MaxOpens \in Nat /\ PageSize \in Nat \ {0}
  /\ None \notin Nodes \union Nat \union OpenFiles \union TempFiles
  /\ \A l \in SUBSET Entries : l # None /\ l # Raises

VARIABLES
  exclusive,  \* the callers open no inode twice at a time, see below
  mount,      \* llfuse.main(): "up" or "down"
  damage,     \* history: a directory or a file was met that gave an exception
  map,        \* _inode_map
  listing,    \* listing[d]: d._directory, the entries or None
  temp,       \* temp[e]: e._cache_file, a number or None
  disk,       \* the temporary files: of TempFiles, or None
  opens,      \* how many temporary names were drawn
  problems,   \* problemfiles.txt: the object numbers in it
  handle,     \* handle[h]: the kernel's, of OpenFiles, or None
  got,        \* what the last read returned
  dir         \* the readdir of the kernel that is under way

vars == <<exclusive, mount, damage, map, listing, temp, disk, opens, problems,
          handle, got, dir>>

Temps == 1..MaxOpens

NoDir == [pc |-> "closed"]

Init ==
  /\ exclusive \in BOOLEAN
  /\ mount = "up"
  /\ damage = FALSE
  /\ map = [i \in Inodes |-> IF i = RootInode THEN Root ELSE None]
  /\ listing = [d \in Dirs |-> None]
  /\ temp = [e \in Nodes |-> None]
  /\ disk = [t \in Temps |-> None]
  /\ opens = 0
  /\ problems = {}
  /\ handle = [h \in Handles |-> None]
  /\ got = None
  /\ dir = NoDir

OpenHandles == {h \in Handles : handle[h] # None}
Up == mount = "up"
Crash == mount' = "down"

----------------------------------------------------------------------------
\* zfsnode.readdir: the listing is read once, without the entries in blocks of
\* the ZAP that cannot be read, which may be all; None is not remembered, and
\* an entry without a dnode raises out of Dataset.readdir.

Readable(d) ==
  {{e \in Children(d) : Leaf[e] \notin lost} : lost \in SUBSET {Leaf[e] : e \in Children(d)}}
ListingOutcomes(d) ==
  IF listing[d] # None THEN {listing[d]} ELSE Readable(d) \union {None, Raises}

Listed(d, l) ==
  /\ listing' = [listing EXCEPT ![d] = IF l = Raises THEN None ELSE l]
  /\ damage' = (damage \/ l \in {None, Raises})

\* Mutant: the listing is not remembered, every lookup makes new nodes.
LookupRelisting(d, e) ==
  /\ Up
  /\ map[Inode(d)] = d
  /\ exclusive => \A h \in OpenHandles :
                    handle[h].inode = Inode(e) => map[Inode(e)] = e
  /\ e \in Children(d)
  /\ map' = [map EXCEPT ![Inode(e)] = e]
  /\ temp' = [temp EXCEPT ![e] = None]
  /\ UNCHANGED <<mount, listing, damage, exclusive, disk, opens, problems, handle, got, dir>>

\* lookup(parent_inode, name): ENOENT when the listing is None or has no such
\* name; the node that is found becomes the inode's.
Lookup(d, e) ==
  /\ Up
  /\ map[Inode(d)] = d
  /\ exclusive => \A h \in OpenHandles :
                    handle[h].inode = Inode(e) => map[Inode(e)] = e
  /\ \E l \in ListingOutcomes(d) :
       /\ Listed(d, l)
       /\ IF l = Raises THEN Crash ELSE UNCHANGED mount
       /\ map' = IF l \in {None, Raises} \/ e \notin l THEN map
                 ELSE [map EXCEPT ![Inode(e)] = e]
  /\ UNCHANGED <<exclusive, temp, disk, opens, problems, handle, got, dir>>

----------------------------------------------------------------------------
\* opendir, readdir: the kernel asks again from the last inode it was given

Before(e, f) ==
  Inode(e) < Inode(f) \/ (Inode(e) = Inode(f) /\ Name[e] < Name[f])
\* Mutant: off is taken for the number of entries given before.
RestAfterCount(l, off) == {e \in l : Cardinality({f \in l : Before(f, e)}) >= off}
\* `if ino <= off: continue`
Rest(l, off) == {e \in l : Inode(e) > off}
\* The first entries of sorted(entries).
Page(s) == {e \in s : Cardinality({f \in s : Before(f, e)}) < PageSize}

Opendir(d) ==
  /\ Up /\ dir = NoDir
  /\ map[Inode(d)] = d
  /\ dir' = [pc |-> "open", d |-> d, off |-> 0, seen |-> {}]
  /\ UNCHANGED <<exclusive, mount, damage, map, listing, temp, disk, opens,
                 problems, handle, got>>

\* A listing that is None is not iterable.
Readdir ==
  /\ Up /\ dir.pc = "open"
  /\ \E l \in ListingOutcomes(dir.d) :
       /\ Listed(dir.d, l)
       /\ IF l \in {None, Raises}
            THEN Crash /\ dir' = NoDir
            ELSE LET page == Page(Rest(l, dir.off)) IN
              /\ UNCHANGED mount
              /\ dir' = IF page = {}
                   THEN [dir EXCEPT !.pc = "end"]
                   ELSE [dir EXCEPT
                     !.off = CHOOSE i \in Inodes :
                               /\ \E e \in page : Inode(e) = i
                               /\ \A e \in page : Inode(e) <= i,
                     !.seen = @ \union page]
  /\ UNCHANGED <<exclusive, map, temp, disk, opens, problems, handle, got>>

Releasedir ==
  /\ Up /\ dir.pc = "end"
  /\ dir' = NoDir
  /\ UNCHANGED <<exclusive, mount, damage, map, listing, temp, disk, opens,
                 problems, handle, got>>

----------------------------------------------------------------------------
\* open, read, release

NodeOf(i) == map[i]

\* Mutant: the object extracted is the inode's number.
ExtractedInode(n) == Inode(n)
Extracted(n) == Dnode[n]

\* zfsnode.extract_file over Dataset.extract_file; "nofile": the dnode's read
\* raises before the file is made.
Extract(n, t, how) ==
  /\ disk' = [disk EXCEPT ![t] =
       IF how = "nofile" THEN None ELSE [dnode |-> Extracted(n), how |-> how]]
  /\ problems' = IF how = "all" THEN problems ELSE problems \union {Dnode[n]}
  /\ damage' = (damage \/ how = "nofile")

MayOpen(h, i) ==
  /\ Up
  /\ handle[h] = None
  /\ opens < MaxOpens
  /\ map[i] \in Files
  /\ exclusive => \A g \in OpenHandles : handle[g].inode # i

Opened(h, i, made) ==
  /\ handle' = [handle EXCEPT ![h] = [inode |-> i, made |-> made]]
  /\ UNCHANGED <<exclusive, mount, map, listing, got, dir>>

\* Mutant: a node that was extracted once is not extracted again.
OpenOnce(h, i) ==
  /\ MayOpen(h, i)
  /\ IF temp[NodeOf(i)] # None
       THEN Opened(h, i, TRUE) /\ UNCHANGED <<opens, temp, disk, problems, damage>>
       ELSE \E how \in How \union {"nofile"} :
              /\ opens' = opens + 1
              /\ temp' = [temp EXCEPT ![NodeOf(i)] = opens']
              /\ Extract(NodeOf(i), opens', how)
              /\ Opened(h, i, how # "nofile")

\* Every open draws a new temporary name and extracts the file again.
Open(h, i) ==
  /\ MayOpen(h, i)
  /\ \E how \in How \union {"nofile"} :
       /\ opens' = opens + 1
       /\ temp' = [temp EXCEPT ![NodeOf(i)] = opens']
       /\ Extract(NodeOf(i), opens', how)
       /\ Opened(h, i, how # "nofile")

\* The file a read of the handle gets at; None is a TypeError of open(), or a
\* FileNotFoundError.
FileOf(i) == IF temp[NodeOf(i)] = None THEN None ELSE disk[temp[NodeOf(i)]]

Read(h) ==
  /\ Up /\ handle[h] # None
  /\ LET i == handle[h].inode IN
       IF FileOf(i) = None
         THEN Crash /\ UNCHANGED got
         ELSE /\ got' = [inode |-> i, dnode |-> FileOf(i).dnode, how |-> FileOf(i).how]
              /\ UNCHANGED mount
  /\ UNCHANGED <<exclusive, damage, map, listing, temp, disk, opens, problems,
                 handle, dir>>

\* Mutant: the temporary file is not removed.
ReleaseKeeping(h) ==
  /\ Up /\ handle[h] # None
  /\ handle' = [handle EXCEPT ![h] = None]
  /\ UNCHANGED <<exclusive, mount, disk, damage, map, listing, temp, opens,
                 problems, got, dir>>

\* os.unlink(_cache_file), which keeps its name
Release(h) ==
  /\ Up /\ handle[h] # None
  /\ handle' = [handle EXCEPT ![h] = None]
  /\ LET t == temp[NodeOf(handle[h].inode)] IN
       IF t = None THEN UNCHANGED <<disk, mount>>
       ELSE IF disk[t] = None THEN Crash /\ UNCHANGED disk
       ELSE disk' = [disk EXCEPT ![t] = None] /\ UNCHANGED mount
  /\ UNCHANGED <<exclusive, damage, map, listing, temp, opens, problems, got, dir>>

Next ==
  \/ \E d \in Dirs : Opendir(d) \/ \E e \in Entries : Lookup(d, e)
  \/ Readdir \/ Releasedir
  \/ \E h \in Handles :
       Read(h) \/ Release(h) \/ \E i \in Inodes : Open(h, i)

Spec == Init /\ [][Next]_vars

----------------------------------------------------------------------------
\* What the mounted dataset must keep

\* Whatever is open, released, looked up and replaced in between, a read never
\* returns another object's data: temporary names are drawn afresh and the
\* nodes of an inode are all names of one object. One that returns less than the
\* file because its extraction was cut short is of a file that problemfiles.txt
\* names: open() hides the exception, so the list is all there is to tell.
ReadIsOwnData ==
  got # None =>
    /\ got.inode = RootInode + got.dnode
    /\ got.how = "short" => got.dnode \in problems

\* While no inode is open twice, and none that is open is looked up under
\* another name, every handle whose extraction made a file reads that file
\* until it is released (fh is the inode, so nothing but the map and
\* _cache_file ties a handle to its file).
OpenHandleReads ==
  exclusive /\ Up =>
    \A h \in OpenHandles : handle[h].made => FileOf(handle[h].inode) # None

\* Then the temporary files are also exactly those of the open handles: none
\* is left behind, whatever failed, and none is shared by two handles.
NoTempFileLost ==
  exclusive /\ Up =>
    /\ {t \in Temps : disk[t] # None} =
         {temp[NodeOf(handle[h].inode)] : h \in {g \in OpenHandles : handle[g].made}}
    /\ \A g, h \in OpenHandles : g # h =>
         temp[NodeOf(handle[g].inode)] # temp[NodeOf(handle[h].inode)]

\* And the mount ends only for a directory that cannot be listed or a dnode
\* whose read raises, never for the order of the calls.
MountEndsOnDamageOnly == exclusive /\ ~Up => damage

\* A readdir that comes to its end has given what is remembered of the
\* directory, which may be a part of it, and no inode in it is left out, though
\* the directory is asked for in pages, is read again after each that could not
\* be listed, and lookups list it in between. Two names of one inode may be
\* given as one, when a page ends between them (dataset.py 143-146, fuse.py
\* 114-119).
ListingIsGivenInFull ==
  dir.pc = "end" =>
    /\ dir.seen \subseteq listing[dir.d]
    /\ \A e \in listing[dir.d] : \E f \in dir.seen : Inode(f) = Inode(e)
=============================================================================
