--------------------------- MODULE ZfsFuseProofs ----------------------------
(***************************************************************************)
(* Proofs about the mounted dataset (ZfsFuse), for every directory tree,   *)
(* every number of handles, temporary files and entries to a page.         *)
(*                                                                         *)
(* The inductive invariant is Inv.  What ties an open handle to its data   *)
(* is two lookups away from it, handle -> inode -> node -> temporary name  *)
(* -> file, and every operation changes one of these maps under the        *)
(* others; so the invariant says of each map what the next one relies on.  *)
(***************************************************************************)
EXTENDS ZfsFuse, DataInduction

UpTo(l, off) == {e \in l : Inode(e) <= off}
\* Entries of a listing that have every inode of it
Covers(seen, l) == seen \subseteq l /\ \A e \in l : \E f \in seen : Inode(f) = Inode(e)
TempOf(h) == temp[NodeOf(handle[h].inode)]

ListingType == (SUBSET Entries) \union {None}
TypeOK ==
  /\ exclusive \in BOOLEAN
  /\ mount \in {"up", "down"}
  /\ damage \in BOOLEAN
  /\ map \in [Inodes -> Nodes \union {None}]
  /\ listing \in [Dirs -> ListingType]
  /\ temp \in [Nodes -> Temps \union {None}]
  /\ disk \in [Temps -> TempFiles \union {None}]
  /\ opens \in 0 .. MaxOpens
  /\ problems \subseteq Nat
  /\ handle \in [Handles -> OpenFiles \union {None}]
  /\ \/ dir = NoDir
     \/ dir \in [pc : {"open", "end"}, d : Dirs, off : Nat, seen : SUBSET Entries]

\* The node of an inode is one of its names; an open inode keeps a node.
MapInv ==
  /\ \A i \in Inodes : map[i] # None => Inode(map[i]) = i
  /\ \A h \in OpenHandles : map[handle[h].inode] \in Entries

\* Temporary names are drawn once, and hold the object of their node.
TempInv ==
  /\ \A n \in Nodes : temp[n] # None =>
       /\ n \in Entries
       /\ temp[n] <= opens
       /\ disk[temp[n]] # None => disk[temp[n]].dnode = Dnode[n]
  /\ \A m, n \in Nodes : temp[m] # None /\ temp[m] = temp[n] => m = n
  /\ \A t \in Temps :
       /\ t > opens => disk[t] = None
       /\ disk[t] # None /\ disk[t].how = "short" => disk[t].dnode \in problems

\* While no inode is open twice, files on the disk and handles whose open made
\* one are the same.
HandleInv ==
  /\ exclusive /\ Up =>
       /\ \A g, h \in OpenHandles : handle[g].inode = handle[h].inode => g = h
       /\ \A h \in OpenHandles :
            /\ TempOf(h) # None
            /\ handle[h].made <=> disk[TempOf(h)] # None
            /\ ~handle[h].made => damage
       /\ \A t \in Temps : disk[t] # None =>
            \E h \in OpenHandles : handle[h].made /\ TempOf(h) = t
  /\ MountEndsOnDamageOnly

\* What a readdir has given covers the listing up to the inode it has come to;
\* before the directory was listed it has given nothing.
DirInv ==
  dir.pc \in {"open", "end"} =>
    /\ listing[dir.d] = None => dir.pc = "open" /\ dir.seen = {} /\ dir.off = 0
    /\ listing[dir.d] # None => Covers(dir.seen, UpTo(listing[dir.d], dir.off))
    /\ dir.pc = "end" => Covers(dir.seen, listing[dir.d])

Inv == TypeOK /\ MapInv /\ TempInv /\ ReadIsOwnData /\ HandleInv /\ DirInv

-----------------------------------------------------------------------------
USE ConstantsAssumption

LEMMA InodeType ==
  /\ \A e \in Entries : e # Root /\ e \in Nodes /\ Inode(e) = RootInode + Dnode[e]
  /\ \A e \in Entries : Inode(e) \in Nat /\ Inode(e) \in Inodes /\ Inode(e) > RootInode
  /\ Root \in Nodes /\ Inode(Root) = RootInode
  /\ RootInode \in Inodes /\ RootInode \in Nat /\ Inodes \subseteq Nat
  /\ Dirs \subseteq Nodes /\ Files \subseteq Entries
  /\ \A d \in Nodes : Children(d) \subseteq Entries
<1>1. \A e \in Entries : e # Root /\ e \in Nodes /\ Inode(e) = RootInode + Dnode[e]
                         /\ Dnode[e] \in Nat /\ Dnode[e] > 0
  BY DEF Inode, Nodes
<1>2. Root \in Nodes /\ Inode(Root) = RootInode /\ RootInode \in Nat
  BY DEF Inode, Nodes
<1>3. \A n \in Nodes : Inode(n) \in Nat
  BY <1>1, <1>2 DEF Nodes
<1> QED BY <1>1, <1>2, <1>3 DEF Inodes, Dirs, Files, Children

LEMMA ListingTypeIs ==
  /\ \A l : l \in ListingType <=> l = None \/ l \subseteq Entries
  /\ \A l : l \subseteq Entries => l # None /\ l # Raises
<1>1. \A l : l \subseteq Entries => l \in SUBSET Entries
  OBVIOUS
<1>2. \A l \in SUBSET Entries : l # None /\ l # Raises
  BY ConstantsAssumption, Zenon
<1> QED BY <1>1, <1>2, Zenon DEF ListingType

LEMMA InitInv == Init => Inv
<1> SUFFICES ASSUME Init PROVE Inv
  OBVIOUS
<1> USE DEF Init
<1>1. TypeOK
  <2>1. map \in [Inodes -> Nodes \union {None}]
    BY InodeType
  <2>2. listing \in [Dirs -> ListingType]
    BY ListingTypeIs
  <2>3. opens \in 0 .. MaxOpens
    OBVIOUS
  <2> QED BY <2>1, <2>2, <2>3 DEF TypeOK
<1>2. MapInv
  BY InodeType DEF MapInv, OpenHandles
<1>3. TempInv
  BY DEF TempInv
<1>4. ReadIsOwnData
  BY DEF ReadIsOwnData
<1>5. HandleInv
  BY DEF HandleInv, OpenHandles, MountEndsOnDamageOnly, Up
<1>6. DirInv
  BY DEF DirInv, NoDir
<1> QED BY <1>1, <1>2, <1>3, <1>4, <1>5, <1>6 DEF Inv

LEMMA StutterInv ==
  ASSUME Inv, UNCHANGED vars PROVE Inv'
<1> USE DEF vars
<1>1. TypeOK'
  BY DEF Inv, TypeOK
<1>2. MapInv'
  BY DEF Inv, MapInv, OpenHandles
<1>3. TempInv'
  BY DEF Inv, TempInv
<1>4. ReadIsOwnData'
  BY DEF Inv, ReadIsOwnData
<1>5. HandleInv'
  BY DEF Inv, HandleInv, OpenHandles, TempOf, NodeOf, MountEndsOnDamageOnly, Up
<1>6. DirInv'
  BY DEF Inv, DirInv
<1> QED BY <1>1, <1>2, <1>3, <1>4, <1>5, <1>6 DEF Inv

\* Every inode of an entry is above 0.
LEMMA NothingUpTo0 ==
  ASSUME NEW l, l \subseteq Entries PROVE UpTo(l, 0) = {} /\ Covers({}, UpTo(l, 0))
<1>1. \A e \in l : Inode(e) \in Nat /\ Inode(e) > 0
  BY InodeType
<1>2. UpTo(l, 0) = {}
  BY <1>1 DEF UpTo
<1> QED BY <1>2 DEF Covers

\* The listing of a directory is set to what was read and changes no more.
LEMMA ListedStep ==
  ASSUME TypeOK, NEW d \in Dirs, NEW l \in ListingOutcomes(d), Listed(d, l)
  PROVE  /\ listing' \in [Dirs -> ListingType]
         /\ \A x \in Dirs : listing[x] # None => listing'[x] = listing[x]
         /\ \A x \in Dirs : x # d => listing'[x] = listing[x]
         /\ l \notin {None, Raises} => l \subseteq Entries /\ listing'[d] = l /\ l # None
         /\ damage' \in BOOLEAN /\ (damage => damage')
         /\ l \in {None, Raises} => damage'
<1>1. listing \in [Dirs -> ListingType] /\ damage \in BOOLEAN
  BY DEF TypeOK
<1>2. \A s : s \subseteq Entries => s # None /\ s # Raises
  BY ListingTypeIs
<1>3. listing[d] # None => l = listing[d] /\ l \subseteq Entries
  BY <1>1, ListingTypeIs DEF ListingOutcomes
<1>4. l \in {None, Raises} \/ l \subseteq Entries
  <2>1. \A s \in Readable(d) : s \subseteq Entries
    BY DEF Readable, Children
  <2> QED BY <1>3, <2>1 DEF ListingOutcomes
<1>5. l = Raises => listing[d] = None
  BY <1>2, <1>3
<1> DEFINE new == IF l = Raises THEN None ELSE l
<1>6. new \in ListingType /\ (listing[d] # None => new = listing[d])
      /\ (l \notin {None, Raises} => new = l /\ l \subseteq Entries)
  BY <1>2, <1>3, <1>4, <1>5, ListingTypeIs
<1>7. listing' = [listing EXCEPT ![d] = new] /\ damage' = (damage \/ l \in {None, Raises})
  BY DEF Listed
<1> HIDE DEF new
<1>8. /\ listing' \in [Dirs -> ListingType] /\ listing'[d] = new
      /\ \A x \in Dirs : x # d => listing'[x] = listing[x]
  BY <1>1, <1>6, <1>7
<1> QED BY <1>1, <1>2, <1>6, <1>7, <1>8

LEMMA DirKept ==
  ASSUME TypeOK, DirInv, dir' = dir,
         listing' \in [Dirs -> ListingType],
         \A x \in Dirs : listing[x] # None => listing'[x] = listing[x]
  PROVE  DirInv'
<1>1. CASE dir = NoDir
  BY <1>1 DEF DirInv, NoDir
<1>2. CASE dir # NoDir
  <2>1. dir.d \in Dirs /\ dir.pc \in {"open", "end"}
    BY <1>2 DEF TypeOK
  <2>2. CASE listing[dir.d] # None
    <3>1. listing'[dir.d] = listing[dir.d]
      BY <2>1, <2>2
    <3> QED BY <2>1, <3>1 DEF DirInv, UpTo, Covers
  <2>3. CASE listing[dir.d] = None
    <3>1. dir.pc = "open" /\ dir.seen = {} /\ dir.off = 0
      BY <2>1, <2>3 DEF DirInv
    <3>2. listing'[dir.d] # None => Covers({}, UpTo(listing'[dir.d], 0))
      BY <2>1, NothingUpTo0, ListingTypeIs
    <3> QED BY <2>1, <3>1, <3>2 DEF DirInv
  <2> QED BY <2>2, <2>3
<1> QED BY <1>1, <1>2

LEMMA LookupInv ==
  ASSUME Inv, NEW d \in Dirs, NEW e \in Entries, Lookup(d, e)
  PROVE  Inv'
<1> USE DEF Inv
<1>1. PICK l \in ListingOutcomes(d) :
        /\ Listed(d, l)
        /\ IF l = Raises THEN Crash ELSE UNCHANGED mount
        /\ map' = IF l \in {None, Raises} \/ e \notin l THEN map
                  ELSE [map EXCEPT ![Inode(e)] = e]
  BY DEF Lookup
<1>2. Up /\ UNCHANGED <<exclusive, temp, disk, opens, problems, handle, got, dir>>
  BY DEF Lookup
<1>3. /\ listing' \in [Dirs -> ListingType]
      /\ \A x \in Dirs : listing[x] # None => listing'[x] = listing[x]
      /\ damage' \in BOOLEAN /\ (damage => damage')
      /\ l \in {None, Raises} => damage'
  BY <1>1, ListedStep
<1>4. \/ map' = map
      \/ map' = [map EXCEPT ![Inode(e)] = e]
  BY <1>1
<1>5. map \in [Inodes -> Nodes \union {None}] /\ map' \in [Inodes -> Nodes \union {None}]
  BY <1>4, InodeType DEF TypeOK
<1>6. mount' \in {"up", "down"} /\ (mount' # mount => damage')
  BY <1>1, <1>3 DEF TypeOK, Crash
<1>7. TypeOK'
  BY <1>2, <1>3, <1>5, <1>6 DEF TypeOK
<1>8. OpenHandles' = OpenHandles /\ \A h \in OpenHandles : handle[h].inode \in Inodes
  BY <1>2 DEF OpenHandles, TypeOK, OpenFiles
<1>9. MapInv'
  <2>1. e # None /\ Inode(e) \in Inodes
    BY InodeType
  <2>2. \A i \in Inodes : map'[i] # None => Inode(map'[i]) = i
    BY <1>4, <1>5, <2>1 DEF MapInv
  <2>3. \A h \in OpenHandles : map'[handle[h].inode] \in Entries
    BY <1>4, <1>5, <1>8 DEF MapInv
  <2> QED BY <1>2, <1>8, <2>2, <2>3 DEF MapInv
<1>10. TempInv'
  BY <1>2 DEF TempInv
<1>11. ReadIsOwnData'
  BY <1>2 DEF ReadIsOwnData
<1>12. HandleInv'
  <2>1. ASSUME exclusive, NEW h \in OpenHandles
        PROVE  map'[handle[h].inode] = map[handle[h].inode]
    <3>1. handle[h].inode = Inode(e) => map[Inode(e)] = e
      BY <2>1 DEF Lookup
    <3> QED BY <1>4, <1>5, <1>8, <3>1
  <2>2. exclusive => \A h \in OpenHandles : TempOf(h)' = TempOf(h)
    BY <1>2, <2>1 DEF TempOf, NodeOf
  <2>3. Up' => Up
    BY <1>2
  <2>4. ASSUME exclusive, Up'
        PROVE  /\ \A g, h \in OpenHandles' : handle'[g].inode = handle'[h].inode => g = h
               /\ \A h \in OpenHandles' :
                    /\ TempOf(h)' # None
                    /\ handle'[h].made <=> disk'[TempOf(h)'] # None
                    /\ ~handle'[h].made => damage'
               /\ \A t \in Temps : disk'[t] # None =>
                    \E h \in OpenHandles' : handle'[h].made /\ TempOf(h)' = t
    BY <1>2, <1>3, <1>8, <2>2, <2>3, <2>4 DEF HandleInv
  <2>5. MountEndsOnDamageOnly'
    BY <1>2, <1>6, <1>3 DEF MountEndsOnDamageOnly, Up, HandleInv, TypeOK
  <2> QED BY <1>2, <2>4, <2>5 DEF HandleInv
<1>13. DirInv'
  BY <1>2, <1>3, DirKept
<1> QED BY <1>7, <1>9, <1>10, <1>11, <1>12, <1>13

\* Steps that touch no file: what the maps hold is unchanged, the mount may end
\* on damage.
LEMMA FilesKept ==
  ASSUME Inv, Up,
         UNCHANGED <<exclusive, map, temp, disk, opens, problems, handle>>,
         damage => damage', mount' # mount => damage'
  PROVE  MapInv' /\ TempInv' /\ HandleInv'
<1> USE DEF Inv
<1>1. MapInv'
  BY DEF MapInv, OpenHandles
<1>2. TempInv'
  BY DEF TempInv
<1>3. OpenHandles' = OpenHandles /\ \A h \in OpenHandles : TempOf(h)' = TempOf(h)
  BY DEF OpenHandles, TempOf, NodeOf
<1>4. MountEndsOnDamageOnly'
  BY DEF MountEndsOnDamageOnly, Up, HandleInv
<1>5. ASSUME exclusive, Up'
      PROVE  /\ \A g, h \in OpenHandles' : handle'[g].inode = handle'[h].inode => g = h
             /\ \A h \in OpenHandles' :
                  /\ TempOf(h)' # None
                  /\ handle'[h].made <=> disk'[TempOf(h)'] # None
                  /\ ~handle'[h].made => damage'
             /\ \A t \in Temps : disk'[t] # None =>
                  \E h \in OpenHandles' : handle'[h].made /\ TempOf(h)' = t
  BY <1>3, <1>5 DEF HandleInv
<1>6. HandleInv'
  BY <1>4, <1>5 DEF HandleInv
<1> QED BY <1>1, <1>2, <1>6

LEMMA OpendirInv ==
  ASSUME Inv, NEW d \in Dirs, Opendir(d) PROVE Inv'
<1> USE DEF Inv
<1>1. Up /\ UNCHANGED <<exclusive, mount, damage, map, listing, temp, disk, opens,
                        problems, handle, got>>
  BY DEF Opendir
<1>2. dir' = [pc |-> "open", d |-> d, off |-> 0, seen |-> {}]
  BY DEF Opendir
<1>3. TypeOK'
  BY <1>1, <1>2 DEF TypeOK
<1>4. MapInv' /\ TempInv' /\ HandleInv'
  BY <1>1, FilesKept
<1>5. ReadIsOwnData'
  BY <1>1 DEF ReadIsOwnData
<1>6. DirInv'
  <2>1. dir'.pc = "open" /\ dir'.seen = {} /\ dir'.off = 0 /\ dir'.d = d
    BY <1>2
  <2>2. listing'[d] # None => listing'[d] \subseteq Entries
    BY <1>1, ListingTypeIs DEF TypeOK
  <2>3. listing'[d] # None => Covers({}, UpTo(listing'[d], 0))
    BY <2>2, NothingUpTo0
  <2> QED BY <2>1, <2>3 DEF DirInv
<1> QED BY <1>3, <1>4, <1>5, <1>6

LEMMA ReleasedirInv ==
  ASSUME Inv, Releasedir PROVE Inv'
<1> USE DEF Inv
<1>1. Up /\ UNCHANGED <<exclusive, mount, damage, map, listing, temp, disk, opens,
                        problems, handle, got>> /\ dir' = NoDir
  BY DEF Releasedir
<1>2. TypeOK'
  BY <1>1 DEF TypeOK
<1>3. MapInv' /\ TempInv' /\ HandleInv'
  BY <1>1, FilesKept
<1>4. ReadIsOwnData'
  BY <1>1 DEF ReadIsOwnData
<1>5. DirInv'
  BY <1>1 DEF DirInv, NoDir
<1> QED BY <1>2, <1>3, <1>4, <1>5

LEMMA ReadInv ==
  ASSUME Inv, NEW h \in Handles, Read(h) PROVE Inv'
<1> USE DEF Inv
<1>1. Up /\ UNCHANGED <<exclusive, damage, map, listing, temp, disk, opens, problems,
                        handle, dir>> /\ h \in OpenHandles
  BY DEF Read, OpenHandles
<1> DEFINE i == handle[h].inode
           n == map[i]
<1>2. i \in Inodes /\ n \in Entries /\ Inode(n) = i /\ n \in Nodes
      /\ handle[h].made \in BOOLEAN
  <2>1. handle[h] \in OpenFiles
    BY <1>1 DEF TypeOK, OpenHandles
  <2>2. n \in Entries
    BY <1>1 DEF MapInv
  <2> QED BY <2>1, <2>2, InodeType DEF OpenFiles, MapInv
<1>3. CASE FileOf(i) = None
  <2>1. mount' = "down" /\ UNCHANGED got
    BY <1>3 DEF Read, Crash
  <2>2. exclusive => damage
    <3>1. exclusive => TempOf(h) # None /\ (~handle[h].made => damage)
                       /\ (handle[h].made <=> disk[TempOf(h)] # None)
      BY <1>1 DEF HandleInv
    <3> QED BY <1>3, <3>1 DEF FileOf, TempOf
  <2>3. TypeOK'
    BY <1>1, <2>1 DEF TypeOK
  <2>4. MapInv' /\ TempInv'
    BY <1>1 DEF MapInv, TempInv, OpenHandles
  <2>5. HandleInv'
    BY <1>1, <2>1, <2>2 DEF HandleInv, MountEndsOnDamageOnly, Up
  <2>6. ReadIsOwnData' /\ DirInv'
    BY <1>1, <2>1, DirKept DEF ReadIsOwnData, TypeOK
  <2> QED BY <2>3, <2>4, <2>5, <2>6
<1>4. CASE FileOf(i) # None
  <2>1. /\ got' = [inode |-> i, dnode |-> FileOf(i).dnode, how |-> FileOf(i).how]
        /\ UNCHANGED mount
    BY <1>4 DEF Read
  <2>2. temp[n] # None /\ FileOf(i) = disk[temp[n]] /\ disk[temp[n]] # None
    BY <1>4 DEF FileOf, NodeOf
  <2>3. temp[n] \in Temps /\ disk[temp[n]].dnode = Dnode[n]
    BY <1>2, <2>2 DEF TempInv, TypeOK
  <2>4. disk[temp[n]].how = "short" => Dnode[n] \in problems
    BY <2>2, <2>3 DEF TempInv
  <2>5. i = RootInode + Dnode[n]
    BY <1>2, InodeType
  <2>6. ReadIsOwnData'
    BY <1>1, <2>1, <2>2, <2>3, <2>4, <2>5 DEF ReadIsOwnData
  <2>7. TypeOK'
    BY <1>1, <2>1 DEF TypeOK
  <2>8. MapInv' /\ TempInv' /\ HandleInv'
    BY <1>1, <2>1, FilesKept
  <2>9. DirInv'
    BY <1>1, DirKept DEF TypeOK
  <2> QED BY <2>6, <2>7, <2>8, <2>9
<1> QED BY <1>3, <1>4

\* What the path from an open handle to its file goes over.
LEMMA OpenHandleTypes ==
  ASSUME TypeOK, MapInv, NEW h \in OpenHandles
  PROVE  /\ h \in Handles /\ handle[h] \in OpenFiles
         /\ handle[h].inode \in Inodes /\ handle[h].made \in BOOLEAN
         /\ NodeOf(handle[h].inode) \in Entries
         /\ NodeOf(handle[h].inode) \in Nodes
         /\ Inode(NodeOf(handle[h].inode)) = handle[h].inode
         /\ TempOf(h) # None => TempOf(h) \in Temps
<1>1. handle[h] \in OpenFiles /\ h \in Handles
  BY DEF TypeOK, OpenHandles
<1>2. handle[h].inode \in Inodes /\ handle[h].made \in BOOLEAN
  BY <1>1 DEF OpenFiles
<1>3. map[handle[h].inode] \in Entries
  BY DEF MapInv
<1>4. map[handle[h].inode] \in Nodes /\ map[handle[h].inode] # None
  BY <1>3, InodeType
<1>5. Inode(map[handle[h].inode]) = handle[h].inode
  BY <1>2, <1>4 DEF MapInv
<1>6. temp[map[handle[h].inode]] \in Temps \union {None}
  BY <1>4 DEF TypeOK
<1> QED BY <1>1, <1>2, <1>3, <1>4, <1>5, <1>6 DEF NodeOf, TempOf

\* Two open handles share no temporary file.
LEMMA TempsApart ==
  ASSUME Inv, exclusive, Up,
         NEW g \in OpenHandles, NEW h \in OpenHandles, g # h
  PROVE  TempOf(g) # TempOf(h)
<1>1. TypeOK /\ MapInv /\ TempInv /\ HandleInv
  BY DEF Inv
<1>2. handle[g].inode # handle[h].inode /\ TempOf(g) # None
  BY <1>1 DEF HandleInv
<1>3. SUFFICES ASSUME TempOf(g) = TempOf(h) PROVE FALSE
  OBVIOUS
<1>4. NodeOf(handle[g].inode) \in Nodes /\ NodeOf(handle[h].inode) \in Nodes
  BY <1>1, OpenHandleTypes
<1>5. NodeOf(handle[g].inode) = NodeOf(handle[h].inode)
  BY <1>1, <1>2, <1>3, <1>4 DEF TempInv, TempOf
<1> QED BY <1>1, <1>2, <1>5, OpenHandleTypes

LEMMA ReleaseInv ==
  ASSUME Inv, NEW h \in Handles, Release(h) PROVE Inv'
<1> USE DEF Inv
<1> DEFINE t == TempOf(h)
<1>1. Up /\ UNCHANGED <<exclusive, damage, map, listing, temp, opens, problems, got, dir>>
      /\ h \in OpenHandles
  BY DEF Release, OpenHandles
<1>2. handle' = [handle EXCEPT ![h] = None]
  BY DEF Release
<1>3. OpenHandles' = OpenHandles \ {h} /\ \A g \in OpenHandles' : handle'[g] = handle[g]
  BY <1>2 DEF OpenHandles, TypeOK
<1>4. \/ t = None /\ UNCHANGED <<disk, mount>>
      \/ t # None /\ disk[t] = None /\ mount' = "down" /\ UNCHANGED disk
      \/ t # None /\ disk[t] # None /\ disk' = [disk EXCEPT ![t] = None] /\ UNCHANGED mount
  BY DEF Release, TempOf, Crash
<1>5. t # None => t \in Temps
  BY <1>1, OpenHandleTypes
<1>6. /\ disk' \in [Temps -> TempFiles \union {None}]
      /\ \A x \in Temps : disk'[x] \in {disk[x], None}
      /\ \A x \in Temps : x # t => disk'[x] = disk[x]
  BY <1>4, <1>5 DEF TypeOK
<1>7. handle' \in [Handles -> OpenFiles \union {None}]
  BY <1>2 DEF TypeOK
<1>8. TypeOK'
  BY <1>1, <1>4, <1>6, <1>7 DEF TypeOK
<1>9. MapInv'
  BY <1>1, <1>3 DEF MapInv
<1>10. TempInv'
  <2>1. ASSUME NEW n \in Nodes, temp[n] # None, disk'[temp[n]] # None
        PROVE  disk'[temp[n]].dnode = Dnode[n]
    BY <1>6, <2>1 DEF TempInv, TypeOK
  <2>2. ASSUME NEW x \in Temps
        PROVE  /\ x > opens => disk'[x] = None
               /\ disk'[x] # None /\ disk'[x].how = "short" => disk'[x].dnode \in problems
    BY <1>6 DEF TempInv
  <2> QED BY <1>1, <2>1, <2>2 DEF TempInv
<1>11. ReadIsOwnData' /\ DirInv'
  BY <1>1, DirKept DEF ReadIsOwnData, TypeOK
<1>12. HandleInv'
  <2>1. ASSUME exclusive
        PROVE  /\ t # None /\ (handle[h].made <=> disk[t] # None)
               /\ mount' = "down" => damage
    BY <1>1, <1>4, <2>1 DEF HandleInv, Up
  <2>2. MountEndsOnDamageOnly'
    BY <1>1, <2>1, <1>8 DEF MountEndsOnDamageOnly, Up, TypeOK
  <2>3. \A g \in OpenHandles' : TempOf(g)' = TempOf(g)
    BY <1>1, <1>3 DEF TempOf, NodeOf
  <2>4. ASSUME exclusive, NEW g \in OpenHandles'
        PROVE  /\ TempOf(g) # None
               /\ disk'[TempOf(g)] = disk[TempOf(g)]
               /\ handle'[g].made <=> disk'[TempOf(g)] # None
               /\ ~handle'[g].made => damage'
    <3>1. g \in OpenHandles /\ g # h /\ TempOf(g) # None
      BY <1>1, <1>3, <2>4 DEF HandleInv
    <3>2. TempOf(g) # t /\ TempOf(g) \in Temps
      BY <1>1, <2>4, <3>1, TempsApart, OpenHandleTypes
    <3>3. disk'[TempOf(g)] = disk[TempOf(g)]
      BY <1>6, <3>2
    <3> QED BY <1>1, <1>3, <2>4, <3>1, <3>3 DEF HandleInv
  <2>5. ASSUME exclusive, Up', NEW x \in Temps, disk'[x] # None
        PROVE  \E g \in OpenHandles' : handle'[g].made /\ TempOf(g)' = x
    <3>1. x # t
      BY <1>4, <1>5, <2>1, <2>5 DEF TypeOK, Up
    <3>2. disk[x] # None
      BY <1>6, <2>5
    <3>3. PICK g \in OpenHandles : handle[g].made /\ TempOf(g) = x
      BY <1>1, <2>5, <3>2 DEF HandleInv
    <3>4. g \in OpenHandles'
      BY <1>3, <3>1, <3>3
    <3> QED BY <1>3, <2>3, <3>3, <3>4
  <2>6. ASSUME exclusive, NEW f \in OpenHandles', NEW g \in OpenHandles',
               handle'[f].inode = handle'[g].inode
        PROVE  f = g
    BY <1>1, <1>3, <2>6 DEF HandleInv
  <2> QED BY <1>1, <2>2, <2>3, <2>4, <2>5, <2>6 DEF HandleInv
<1> QED BY <1>8, <1>9, <1>10, <1>11, <1>12

LEMMA OpenInv ==
  ASSUME Inv, NEW h \in Handles, NEW i \in Inodes, Open(h, i) PROVE Inv'
<1> USE DEF Inv
<1> DEFINE n == NodeOf(i)
           t == opens + 1
<1>1. /\ Up /\ handle[h] = None /\ opens < MaxOpens /\ n \in Files
      /\ exclusive => \A g \in OpenHandles : handle[g].inode # i
      /\ opens' = t
      /\ temp' = [temp EXCEPT ![n] = t]
      /\ UNCHANGED <<exclusive, mount, map, listing, got, dir>>
  BY DEF Open, MayOpen, Opened, NodeOf
<1>2. PICK how \in How \union {"nofile"} :
        /\ disk' = [disk EXCEPT ![t] =
             IF how = "nofile" THEN None ELSE [dnode |-> Dnode[n], how |-> how]]
        /\ problems' = IF how = "all" THEN problems ELSE problems \union {Dnode[n]}
        /\ damage' = (damage \/ how = "nofile")
        /\ handle' = [handle EXCEPT ![h] = [inode |-> i, made |-> how # "nofile"]]
  BY <1>1 DEF Open, Extract, Extracted, Opened
<1>3. /\ n \in Entries /\ n \in Nodes /\ Dnode[n] \in Nat /\ Inode(n) = i
      /\ t \in Temps /\ t \in Nat /\ t # None /\ opens \in Nat
  <2>1. n \in Entries /\ n \in Nodes /\ n # None
    BY <1>1, InodeType
  <2> QED BY <1>1, <2>1 DEF TypeOK, Temps, MapInv, NodeOf
<1> DEFINE file == [dnode |-> Dnode[n], how |-> how]
           new == [inode |-> i, made |-> how # "nofile"]
<1>4. how # "nofile" => file \in TempFiles /\ file # None
  <2>1. how # "nofile" => file \in TempFiles
    BY <1>3 DEF TempFiles
  <2> QED BY <2>1
<1>5. new \in OpenFiles /\ new # None
  <2>1. new \in OpenFiles
    BY DEF OpenFiles
  <2> QED BY <2>1
<1>6. /\ temp' \in [Nodes -> Temps \union {None}]
      /\ temp'[n] = t
      /\ \A m \in Nodes : m # n => temp'[m] = temp[m]
  BY <1>1, <1>3 DEF TypeOK
<1>7. /\ disk' \in [Temps -> TempFiles \union {None}]
      /\ disk'[t] = IF how = "nofile" THEN None ELSE file
      /\ \A x \in Temps : x # t => disk'[x] = disk[x]
  BY <1>2, <1>3, <1>4 DEF TypeOK
<1>8. /\ handle' \in [Handles -> OpenFiles \union {None}]
      /\ handle'[h] = new
      /\ \A g \in Handles : g # h => handle'[g] = handle[g]
  BY <1>2, <1>5 DEF TypeOK
<1>9. OpenHandles' = OpenHandles \union {h} /\ h \notin OpenHandles
      /\ \A g \in OpenHandles : handle'[g] = handle[g]
  BY <1>1, <1>5, <1>8 DEF OpenHandles
<1>10. TypeOK'
  <2>1. problems' \subseteq Nat
    BY <1>2, <1>3 DEF TypeOK
  <2>2. damage' \in BOOLEAN
    BY <1>2 DEF TypeOK
  <2>3. opens' \in 0 .. MaxOpens
    BY <1>1, <1>3 DEF Temps
  <2> QED BY <1>1, <1>6, <1>7, <1>8, <2>1, <2>2, <2>3 DEF TypeOK
<1>11. MapInv'
  BY <1>1, <1>3, <1>8, <1>9 DEF MapInv, NodeOf
<1>12. \A m \in Nodes : temp[m] # None => temp[m] \in Temps /\ temp[m] # t
  BY <1>3 DEF TempInv, TypeOK
<1>13. TempInv'
  <2>1. ASSUME NEW m \in Nodes, temp'[m] # None
        PROVE  /\ m \in Entries /\ temp'[m] <= opens'
               /\ disk'[temp'[m]] # None => disk'[temp'[m]].dnode = Dnode[m]
    <3>1. CASE m = n
      BY <1>1, <1>3, <1>4, <1>6, <1>7, <3>1
    <3>2. CASE m # n
      <4>1. temp'[m] = temp[m] /\ temp[m] # t /\ temp[m] \in Temps
        BY <1>6, <1>12, <2>1, <3>2
      <4>2. temp[m] <= opens /\ m \in Entries /\ temp[m] \in Nat
        BY <2>1, <4>1 DEF TempInv, Temps
      <4> QED BY <1>1, <1>3, <1>7, <2>1, <4>1, <4>2 DEF TempInv
    <3> QED BY <3>1, <3>2
  <2>2. ASSUME NEW l \in Nodes, NEW m \in Nodes, temp'[l] # None, temp'[l] = temp'[m]
        PROVE  l = m
    <3>1. CASE l = n \/ m = n
      BY <1>3, <1>6, <1>12, <2>2, <3>1
    <3>2. CASE l # n /\ m # n
      BY <1>6, <2>2, <3>2 DEF TempInv
    <3> QED BY <3>1, <3>2
  <2>3. ASSUME NEW x \in Temps
        PROVE  /\ x > opens' => disk'[x] = None
               /\ disk'[x] # None /\ disk'[x].how = "short" => disk'[x].dnode \in problems'
    <3>1. CASE x = t
      BY <1>1, <1>2, <1>3, <1>7, <3>1
    <3>2. CASE x # t
      <4>1. disk'[x] = disk[x] /\ problems \subseteq problems'
        BY <1>2, <1>7, <3>2
      <4>2. x > opens' => x > opens
        BY <1>1, <1>3 DEF Temps
      <4> QED BY <4>1, <4>2 DEF TempInv
    <3> QED BY <3>1, <3>2
  <2> QED BY <2>1, <2>2, <2>3 DEF TempInv
<1>14. ReadIsOwnData' /\ DirInv'
  <2>1. problems \subseteq problems'
    BY <1>2
  <2> QED BY <1>1, <2>1, DirKept DEF ReadIsOwnData, TypeOK
<1>15. HandleInv'
  <2>1. MountEndsOnDamageOnly'
    BY <1>1 DEF MountEndsOnDamageOnly, Up
  <2>2. TempOf(h)' = t
    BY <1>1, <1>6, <1>8 DEF TempOf, NodeOf
  <2>3. ASSUME exclusive, NEW g \in OpenHandles
        PROVE  /\ TempOf(g)' = TempOf(g) /\ TempOf(g) # None
               /\ disk'[TempOf(g)] = disk[TempOf(g)]
               /\ handle[g].inode # i
    <3>1. NodeOf(handle[g].inode) # n /\ NodeOf(handle[g].inode) \in Nodes
      BY <1>1, <1>3, <2>3, OpenHandleTypes
    <3>2. TempOf(g)' = TempOf(g)
      BY <1>1, <1>6, <1>9, <3>1 DEF TempOf, NodeOf
    <3>3. TempOf(g) # None
      BY <1>1, <2>3 DEF HandleInv
    <3>4. TempOf(g) \in Temps /\ TempOf(g) # t
      BY <1>12, <3>1, <3>3 DEF TempOf
    <3> QED BY <1>1, <1>7, <2>3, <3>2, <3>3, <3>4
  <2>4. ASSUME exclusive, NEW g \in OpenHandles'
        PROVE  /\ TempOf(g)' # None
               /\ handle'[g].made <=> disk'[TempOf(g)'] # None
               /\ ~handle'[g].made => damage'
    <3>1. CASE g = h
      BY <1>2, <1>3, <1>4, <1>7, <1>8, <2>2, <3>1
    <3>2. CASE g # h
      <4>1. g \in OpenHandles /\ handle'[g] = handle[g]
        BY <1>9, <2>4, <3>2
      <4>2. /\ TempOf(g)' = TempOf(g) /\ TempOf(g) # None
            /\ disk'[TempOf(g)] = disk[TempOf(g)]
        BY <2>3, <2>4, <4>1
      <4>3. /\ handle[g].made <=> disk[TempOf(g)] # None
            /\ ~handle[g].made => damage
        BY <1>1, <2>4, <4>1 DEF HandleInv
      <4> QED BY <1>2, <4>1, <4>2, <4>3
    <3> QED BY <3>1, <3>2
  <2>5. ASSUME exclusive, NEW x \in Temps, disk'[x] # None
        PROVE  \E g \in OpenHandles' : handle'[g].made /\ TempOf(g)' = x
    <3>1. CASE x = t
      <4>1. how # "nofile"
        BY <1>7, <2>5, <3>1
      <4>2. handle'[h].made
        <5>1. new.made = TRUE
          BY <4>1
        <5> QED BY <1>8, <5>1
      <4> QED BY <1>9, <2>2, <3>1, <4>2
    <3>2. CASE x # t
      <4>1. PICK g \in OpenHandles : handle[g].made /\ TempOf(g) = x
        BY <1>1, <1>7, <2>5, <3>2 DEF HandleInv
      <4> QED BY <1>9, <2>3, <2>5, <4>1
    <3> QED BY <3>1, <3>2
  <2>6. ASSUME exclusive, NEW f \in OpenHandles', NEW g \in OpenHandles',
               handle'[f].inode = handle'[g].inode
        PROVE  f = g
    <3>1. handle'[h].inode = i
      BY <1>8
    <3>2. f \in OpenHandles /\ g \in OpenHandles => f = g
      BY <1>1, <1>9, <2>6 DEF HandleInv
    <3>3. f \in OpenHandles => handle'[f].inode # i
      BY <1>9, <2>3, <2>6
    <3>4. g \in OpenHandles => handle'[g].inode # i
      BY <1>9, <2>3, <2>6
    <3> QED BY <1>9, <2>6, <3>1, <3>2, <3>3, <3>4
  <2> QED BY <1>1, <2>1, <2>4, <2>5, <2>6 DEF HandleInv
<1> QED BY <1>10, <1>11, <1>13, <1>14, <1>15

-----------------------------------------------------------------------------
\* The pages of a readdir

LEMMA BeforeOrder ==
  /\ \A e \in Entries : ~Before(e, e)
  /\ \A e, f, g \in Entries : Before(e, f) /\ Before(f, g) => Before(e, g)
<1>1. \A e \in Entries : Inode(e) \in Nat /\ Name[e] \in Nat
  BY InodeType
<1> QED BY <1>1 DEF Before

\* Entries that are left make a page.
LEMMA PageOfSome ==
  ASSUME NEW s \in SUBSET Entries, s # {} PROVE Page(s) # {}
<1> DEFINE Pred(e) == {f \in s : Before(f, e)}
           P == {Pred(e) : e \in s}
<1>1. \A e \in s : IsFiniteSet(Pred(e))
  <2>1. \A e \in s : Pred(e) \in SUBSET Entries
    OBVIOUS
  <2> HIDE DEF Pred
  <2> QED BY <2>1, FS_Subset
<1>2. P # {} /\ \A p \in P : IsFiniteSet(p)
  <2> HIDE DEF Pred
  <2> QED BY <1>1
<1>3. PICK p \in P : \A q \in P : q \subseteq p => q = p
  <2> HIDE DEF P
  <2> QED BY <1>2, FiniteSetsMinimal
<1>4. PICK e \in s : p = Pred(e)
  OBVIOUS
<1>5. ASSUME NEW f \in Pred(e) PROVE FALSE
  <2>1. f \in s /\ Pred(f) \in P
    OBVIOUS
  <2>2. Pred(f) \subseteq Pred(e)
    BY <2>1, BeforeOrder
  <2>3. f \notin Pred(f)
    BY <2>1, BeforeOrder
  <2> QED BY <1>3, <1>4, <2>1, <2>2, <2>3
<1>6. Cardinality(Pred(e)) = 0
  <2>1. Pred(e) = {}
    BY <1>5
  <2> HIDE DEF Pred
  <2> QED BY <2>1, FS_EmptySet
<1> QED BY <1>6 DEF Page

\* An entry before one that a page has is in the page.
LEMMA PageIsFirst ==
  ASSUME NEW s \in SUBSET Entries, NEW e \in s, NEW f \in Page(s), Before(e, f)
  PROVE  e \in Page(s)
<1> DEFINE Pred(g) == {x \in s : Before(x, g)}
<1>1. f \in s /\ Cardinality(Pred(f)) < PageSize
  BY DEF Page
<1>2. Pred(e) \in SUBSET Pred(f)
  BY <1>1, BeforeOrder
<1>3. IsFiniteSet(Pred(f))
  <2>1. Pred(f) \in SUBSET Entries
    OBVIOUS
  <2> HIDE DEF Pred
  <2> QED BY <2>1, FS_Subset
<1>4. Cardinality(Pred(e)) <= Cardinality(Pred(f))
      /\ Cardinality(Pred(e)) \in Nat /\ Cardinality(Pred(f)) \in Nat
  <2> HIDE DEF Pred
  <2> QED BY <1>2, <1>3, FS_Subset, FS_CardinalityType
<1>5. Cardinality(Pred(e)) < PageSize
  BY <1>1, <1>4
<1> QED BY <1>5 DEF Page

\* The inode that readdir goes on from.
LastOf(page) == CHOOSE i \in Inodes : /\ \E e \in page : Inode(e) = i
                                      /\ \A e \in page : Inode(e) <= i

\* After a page that ends at an inode, no inode up to that one is left out.
LEMMA PageStep ==
  ASSUME NEW l, l \subseteq Entries, NEW off \in Nat, NEW seen \in SUBSET Entries,
         Covers(seen, UpTo(l, off)), Page(Rest(l, off)) # {}
  PROVE  LET page == Page(Rest(l, off))
             last == LastOf(page)
         IN  /\ last \in Nat
             /\ Covers(seen \union page, UpTo(l, last))
<1> DEFINE rest == Rest(l, off)
           page == Page(rest)
           Last(i) == /\ \E e \in page : Inode(e) = i
                      /\ \A e \in page : Inode(e) <= i
           last == CHOOSE i \in Inodes : Last(i)
<1>1. /\ rest \in SUBSET Entries /\ page \subseteq rest
      /\ \A e \in rest : e \in l /\ off < Inode(e) /\ Inode(e) \in Nat
                         /\ Inode(e) \in Inodes
  BY InodeType DEF Rest, Page
<1>2. \E i \in Inodes : Last(i)
  <2> DEFINE T == {Inode(e) : e \in page}
  <2>1. T \subseteq Int /\ T # {}
    BY <1>1
  <2>2. IsFiniteSet(page)
    <3>1. page \in SUBSET Entries
      BY <1>1
    <3> HIDE DEF page
    <3> QED BY <3>1, FS_Subset
  <2>3. IsFiniteSet(T)
    <3> HIDE DEF page
    <3>1. [e \in page |-> Inode(e)] \in Surjection(page, T)
      BY DEF Surjection
    <3> QED BY <2>2, <3>1, FS_Surjection
  <2>4. PICK i \in T : \A j \in T : j <= i
    <3> HIDE DEF T
    <3> QED BY <2>1, <2>3, FiniteGreatest
  <2> QED BY <1>1, <2>4
<1>3. last \in Inodes /\ Last(last)
  BY <1>2
<1> HIDE DEF last
<1>4. PICK f \in page : Inode(f) = last
  BY <1>3
<1>5. last \in Nat /\ off < last
  BY <1>1, <1>4
<1>6. ASSUME NEW e \in UpTo(l, last), e \notin UpTo(l, off)
      PROVE  \E g \in page : Inode(g) = Inode(e)
  <2>1. e \in l /\ Inode(e) <= last /\ Inode(e) \in Nat /\ e \in Entries
    BY <1>6, InodeType DEF UpTo
  <2>2. ~(Inode(e) <= off)
    BY <1>6, <2>1 DEF UpTo
  <2>3. e \in rest
    BY <2>1, <2>2 DEF Rest
  <2>4. CASE Inode(e) = last
    BY <1>4, <2>4
  <2>5. CASE Inode(e) < last
    <3>1. Before(e, f)
      BY <1>4, <2>5 DEF Before
    <3>2. e \in page
      <4> HIDE DEF page
      <4> QED BY <1>1, <1>4, <2>3, <3>1, PageIsFirst DEF page
    <3> QED BY <3>2
  <2> QED BY <1>5, <2>1, <2>4, <2>5
<1>7. UpTo(l, off) \subseteq UpTo(l, last)
  <2>1. \A e \in l : Inode(e) \in Nat
    BY InodeType
  <2> QED BY <1>5, <2>1 DEF UpTo
<1>8. page \subseteq UpTo(l, last)
  BY <1>1, <1>3 DEF UpTo
<1> HIDE DEF page
<1>9. Covers(seen \union page, UpTo(l, last))
  <2>1. seen \subseteq UpTo(l, off) /\ \A e \in UpTo(l, off) : \E g \in seen : Inode(g) = Inode(e)
    BY DEF Covers
  <2> QED BY <1>6, <1>7, <1>8, <2>1 DEF Covers
<1> QED BY <1>5, <1>9 DEF page, last, LastOf

LEMMA ReaddirInv ==
  ASSUME Inv, Readdir PROVE Inv'
<1> USE DEF Inv
<1> DEFINE d == dir.d
<1>1. PICK l \in ListingOutcomes(d) :
        /\ Listed(d, l)
        /\ IF l \in {None, Raises}
             THEN Crash /\ dir' = NoDir
             ELSE LET page == Page(Rest(l, dir.off)) IN
               /\ UNCHANGED mount
               /\ dir' = IF page = {}
                    THEN [dir EXCEPT !.pc = "end"]
                    ELSE [dir EXCEPT
                      !.off = CHOOSE i \in Inodes :
                                /\ \E e \in page : Inode(e) = i
                                /\ \A e \in page : Inode(e) <= i,
                      !.seen = @ \union page]
  BY DEF Readdir
<1>2. Up /\ dir.pc = "open"
      /\ UNCHANGED <<exclusive, map, temp, disk, opens, problems, handle, got>>
  BY DEF Readdir
<1>3. dir \in [pc : {"open", "end"}, d : Dirs, off : Nat, seen : SUBSET Entries]
      /\ d \in Dirs /\ dir.off \in Nat
  BY <1>2 DEF TypeOK, NoDir
<1>4. /\ listing' \in [Dirs -> ListingType]
      /\ \A x \in Dirs : listing[x] # None => listing'[x] = listing[x]
      /\ l \notin {None, Raises} => l \subseteq Entries /\ listing'[d] = l /\ l # None
      /\ damage' \in BOOLEAN /\ (damage => damage')
      /\ l \in {None, Raises} => damage'
  BY <1>1, <1>3, ListedStep
<1>5. mount' \in {"up", "down"} /\ (mount' # mount => damage')
  BY <1>1, <1>4 DEF TypeOK, Crash
<1>6. MapInv' /\ TempInv' /\ HandleInv' /\ ReadIsOwnData'
  BY <1>2, <1>4, <1>5, FilesKept DEF ReadIsOwnData
<1>7. ASSUME dir' = NoDir
             \/ dir' \in [pc : {"open", "end"}, d : Dirs, off : Nat, seen : SUBSET Entries]
      PROVE  TypeOK'
  BY <1>2, <1>4, <1>5, <1>7 DEF TypeOK
<1>8. CASE l \in {None, Raises}
  <2>1. dir' = NoDir
    BY <1>1, <1>8
  <2>2. DirInv'
    BY <1>4, <2>1 DEF DirInv, NoDir
  <2> QED BY <1>6, <1>7, <2>1, <2>2
<1>9. CASE l \notin {None, Raises}
  <2> DEFINE page == Page(Rest(l, dir.off))
             last == LastOf(page)
  <2>1. listing'[d] = l /\ l # None /\ l \subseteq Entries
    BY <1>4, <1>9
  <2>2. Covers(dir.seen, UpTo(l, dir.off))
    <3>1. CASE listing[d] = None
      <4>1. dir.seen = {} /\ dir.off = 0
        BY <1>2, <3>1 DEF DirInv
      <4> QED BY <2>1, <4>1, NothingUpTo0
    <3>2. CASE listing[d] # None
      <4>1. listing[d] = l
        BY <1>3, <1>4, <2>1, <3>2
      <4> QED BY <1>2, <2>1, <4>1 DEF DirInv
    <3> QED BY <3>1, <3>2
  <2>4. CASE page = {}
    <3>1. dir' = [dir EXCEPT !.pc = "end"]
      BY <1>1, <1>9, <2>4
    <3>2. dir' \in [pc : {"open", "end"}, d : Dirs, off : Nat, seen : SUBSET Entries]
          /\ dir'.d = d /\ dir'.off = dir.off /\ dir'.seen = dir.seen
      BY <1>3, <3>1
    <3>3. UpTo(l, dir.off) = l
      <4>1. Rest(l, dir.off) \in SUBSET Entries
        BY <2>1 DEF Rest
      <4>2. Rest(l, dir.off) = {}
        BY <2>4, <4>1, PageOfSome
      <4>3. \A e \in l : ~(Inode(e) > dir.off) /\ Inode(e) \in Nat
        BY <1>3, <2>1, <4>2, InodeType DEF Rest
      <4> QED BY <1>3, <4>3 DEF UpTo
    <3>4. /\ listing'[dir'.d] = l /\ l # None
          /\ Covers(dir'.seen, UpTo(l, dir'.off)) /\ Covers(dir'.seen, l)
      BY <2>1, <2>2, <3>2, <3>3
    <3>5. DirInv'
      <4> HIDE DEF d
      <4>1. Covers(dir'.seen, UpTo(listing'[dir'.d], dir'.off)) /\ Covers(dir'.seen, listing'[dir'.d])
        BY <3>4
      <4> QED BY <3>4, <4>1 DEF DirInv, UpTo, Covers
    <3> QED BY <1>6, <1>7, <3>2, <3>5
  <2>5. CASE page # {}
    <3>1. dir' = [dir EXCEPT !.off = last, !.seen = dir.seen \union page]
      BY <1>1, <1>9, <2>5 DEF LastOf
    <3>2. page \subseteq Entries
      BY <2>1 DEF Page, Rest
    <3>3. last \in Nat /\ Covers(dir.seen \union page, UpTo(l, last))
      BY <1>3, <2>1, <2>2, <2>5, PageStep
    <3> HIDE DEF last, page
    <3>4. dir' \in [pc : {"open", "end"}, d : Dirs, off : Nat, seen : SUBSET Entries]
          /\ dir'.d = d /\ dir'.off = last /\ dir'.seen = dir.seen \union page
          /\ dir'.pc = "open"
      BY <1>2, <1>3, <3>1, <3>2, <3>3
    <3>5. Covers(dir'.seen, UpTo(listing'[dir'.d], dir'.off)) /\ listing'[dir'.d] # None
      BY <2>1, <3>3, <3>4
    <3>6. DirInv'
      BY <3>4, <3>5 DEF DirInv, UpTo, Covers
    <3> QED BY <1>6, <1>7, <3>4, <3>6
  <2> QED BY <2>4, <2>5
<1> QED BY <1>8, <1>9

-----------------------------------------------------------------------------
\* The theorems

LEMMA NextInv == Inv /\ [Next]_vars => Inv'
<1> SUFFICES ASSUME Inv, [Next]_vars PROVE Inv'
  OBVIOUS
<1>1. ASSUME NEW d \in Dirs, Opendir(d) PROVE Inv'
  BY <1>1, OpendirInv
<1>2. ASSUME NEW d \in Dirs, NEW e \in Entries, Lookup(d, e) PROVE Inv'
  BY <1>2, LookupInv
<1>3. CASE Readdir
  BY <1>3, ReaddirInv
<1>4. CASE Releasedir
  BY <1>4, ReleasedirInv
<1>5. ASSUME NEW h \in Handles, Read(h) PROVE Inv'
  BY <1>5, ReadInv
<1>6. ASSUME NEW h \in Handles, Release(h) PROVE Inv'
  BY <1>6, ReleaseInv
<1>7. ASSUME NEW h \in Handles, NEW i \in Inodes, Open(h, i) PROVE Inv'
  BY <1>7, OpenInv
<1>8. CASE UNCHANGED vars
  BY <1>8, StutterInv
<1> QED BY <1>1, <1>2, <1>3, <1>4, <1>5, <1>6, <1>7, <1>8 DEF Next

LEMMA Invariant == Spec => []Inv
<1>1. Init => Inv
  BY InitInv
<1>2. Inv /\ [Next]_vars => Inv'
  BY NextInv
<1> QED BY <1>1, <1>2, PTL DEF Spec

\* A read returns the data of its own inode's object, whatever was opened,
\* looked up and released in between, and one of a file cut short is of a file
\* that problemfiles.txt names (fuse.py open, read; dataset.py extract_file).
THEOREM ReadsAreOwn == Spec => []ReadIsOwnData
<1>1. Inv => ReadIsOwnData
  BY DEF Inv
<1> QED BY <1>1, Invariant, PTL

\* With no inode open twice, an open handle's file is there until its release,
\* though only _inode_map and _cache_file lead to it (fuse.py open, release).
THEOREM OpenHandlesRead == Spec => []OpenHandleReads
<1>1. Inv => OpenHandleReads
  <2> SUFFICES ASSUME Inv, exclusive, Up, NEW h \in OpenHandles, handle[h].made
               PROVE  FileOf(handle[h].inode) # None
    BY DEF OpenHandleReads
  <2> QED BY DEF Inv, HandleInv, FileOf, TempOf
<1> QED BY <1>1, Invariant, PTL

\* Then the temporary files on the disk are exactly those of the open handles,
\* and no two handles share one (zfsnode.extract_file, release's os.unlink).
THEOREM TempFilesAreTheHandles == Spec => []NoTempFileLost
<1>1. Inv => NoTempFileLost
  <2> SUFFICES ASSUME Inv, exclusive, Up
               PROVE  /\ {t \in Temps : disk[t] # None} =
                           {TempOf(h) : h \in {g \in OpenHandles : handle[g].made}}
                      /\ \A g, h \in OpenHandles : g # h => TempOf(g) # TempOf(h)
    BY DEF NoTempFileLost, TempOf
  <2>1. \A h \in OpenHandles : /\ TempOf(h) \in Temps
                               /\ handle[h].made <=> disk[TempOf(h)] # None
    BY OpenHandleTypes DEF Inv, HandleInv
  <2>2. \A t \in Temps : disk[t] # None =>
          \E h \in OpenHandles : handle[h].made /\ TempOf(h) = t
    BY DEF Inv, HandleInv
  <2>3. \A g, h \in OpenHandles : g # h => TempOf(g) # TempOf(h)
    BY TempsApart
  <2> QED BY <2>1, <2>2, <2>3
<1> QED BY <1>1, Invariant, PTL

\* Then the mount ends for a damaged directory or dnode only, never for the
\* order of the kernel's calls (llfuse.main ends at an exception).
THEOREM MountEnds == Spec => []MountEndsOnDamageOnly
<1>1. Inv => MountEndsOnDamageOnly
  BY DEF Inv, HandleInv
<1> QED BY <1>1, Invariant, PTL

\* A readdir that comes to its end has given every inode of what could be read
\* of the directory, for any number of entries, any blocks of its ZAP lost and
\* any size of the kernel's buffer (fuse.py readdir's `ino <= off`).
THEOREM ListingsAreGivenInFull == Spec => []ListingIsGivenInFull
<1>1. Inv => ListingIsGivenInFull
  BY DEF Inv, DirInv, ListingIsGivenInFull, Covers
<1> QED BY <1>1, Invariant, PTL
=============================================================================
