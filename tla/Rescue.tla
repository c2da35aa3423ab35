------------------------------- MODULE Rescue -------------------------------
(***************************************************************************)
(* The main program up to the first dataset (zfs_rescue.py 95-191): the    *)
(* labels (zfs/label.py), the choice of an uberblock (zfs/uberblock.py),   *)
(* the meta object set (MOS) from each copy its pointer names, the scan    *)
(* for datasets and the root directory's children.  It is a script: what   *)
(* raises ends it, but for the constructor of the MOS.                     *)
(*                                                                         *)
(* What the disks hold is chosen once.  A copy of the MOS's dnode          *)
(*   "opens"    as what was written,                                       *)
(*   "garbled"  as other bytes: the constructor raises or gives an object  *)
(*              set of other contents,                                     *)
(*   "lost"     gives no data: the object set is _broken,                  *)
(*   "raises"   when it is read (a gang block, no root of the block tree). *)
(***************************************************************************)
EXTENDS Integers, Sequences, Functions

CONSTANTS
  Disks,       \* INITIALDISKS, a sequence; BLK_INITIAL_DISK is its first
  TXG,         \* -1 for the active uberblock
  Objects,     \* the objects of the MOS: 0 .. n - 1
  Datasets,    \* Datasets[n] for type 16: [children, dir], dir is ds_dir_obj
  Dirs,        \* Dirs[n]: [zap, head], dd_child_dir_zapobj and dd_head_dataset_obj
  RootDataset, \* root_dataset of object 1
  Children,    \* the directories its child ZAP names, a sequence; not $MOS ...
  Strays,      \* the objects that are datasets in other contents
  Worlds,      \* what the disks may hold: [bad, array, labeltxg, copies, lost]
  None

OpenKinds == {"opens", "garbled", "lost", "raises"}

ASSUME ConstantsAssumption ==
  /\ Len(Disks) > 0 /\ IsInjective(Disks)
  /\ \A w \in Worlds :
       /\ w.array \in Seq([valid : BOOLEAN, txg : Nat])
       /\ w.labeltxg \in Nat
       /\ w.bad \subseteq Range(Disks) \X (0..1)
       /\ w.copies \in [0..2 -> OpenKinds]
       /\ w.lost \subseteq Objects
  /\ \A o \in Objects : o \in Nat /\ 0..o \subseteq Objects
  /\ Strays \subseteq Objects
  /\ Children \in Seq(DOMAIN Dirs)
  /\ None \notin Nat \union {"mos", "other"}
  /\ TXG \in Nat \union {-1}
  /\ DOMAIN Datasets \subseteq Objects /\ DOMAIN Dirs \subseteq Objects
  /\ RootDataset \in DOMAIN Dirs
  /\ \A o \in DOMAIN Dirs : Dirs[o].head \in DOMAIN Datasets
  /\ \A o \in DOMAIN Datasets : Datasets[o].children = 0 \/ Datasets[o].dir \in DOMAIN Dirs

VARIABLES
  disk,     \* one of Worlds; the program only reads it
  pc,       \* where the program is, "done" or "raised"
  i,        \* the disk, the copy or the child it is at
  n,        \* the object the scan is at
  ub,       \* index of the uberblock in use, or None
  mos,      \* None (unbound), "mos", or the "other" contents
  datasets  \* id -> "mos", "other", or None

vars == <<disk, pc, i, n, ub, mos, datasets>>

Init ==
  /\ disk \in Worlds
  /\ pc = "labels" /\ i = 1 /\ n = 0
  /\ ub = None /\ mos = None
  /\ datasets = <<>>

Goto(where, index) == pc' = where /\ i' = index
\* datasets[id] = d
With(id, d) == [o \in DOMAIN datasets \union {id} |-> IF o = id THEN d ELSE datasets[o]]
Raise == pc' = "raised" /\ UNCHANGED <<i, n, ub, mos, datasets>>

----------------------------------------------------------------------------
\* Labels and uberblocks

Found(id, txg) == [id |-> id, txg |-> txg]
\* Mutant: an uberblock of the label's own txg is passed over.
FindActiveNewer ==
  LET best[k \in 0..Len(disk.array)] ==
        IF k = 0 THEN Found(None, disk.labeltxg)
        ELSE IF disk.array[k].valid /\ disk.array[k].txg > best[k - 1].txg
               THEN Found(k, disk.array[k].txg) ELSE best[k - 1]
  IN best[Len(disk.array)].id
\* Label.find_active_ub, the best of the first k
FindActive ==
  LET best[k \in 0..Len(disk.array)] ==
        IF k = 0 THEN Found(None, disk.labeltxg)
        ELSE IF disk.array[k].valid /\ disk.array[k].txg >= best[k - 1].txg
               THEN Found(k, disk.array[k].txg) ELSE best[k - 1]
  IN best[Len(disk.array)].id

First(found) == IF found = {} THEN 0 ELSE CHOOSE k \in found : \A l \in found : k <= l
\* Mutant: the magic number is not looked at.
FindTxgAny == First({k \in DOMAIN disk.array : disk.array[k].txg = TXG})
\* UBArray.find_block_by_txg, 0 for None
FindTxg == First({k \in DOMAIN disk.array : disk.array[k].valid /\ disk.array[k].txg = TXG})

\* Label 0 and label 1 of one disk after another.  Label 1 is for display only.
ReadLabels ==
  /\ pc = "labels" /\ i <= Len(Disks)
  /\ \A which \in 0..1 : <<Disks[i], which>> \notin disk.bad
  /\ Goto("labels", i + 1)
  /\ UNCHANGED <<n, ub, mos, datasets>>

LabelRaises ==
  /\ pc = "labels" /\ i <= Len(Disks)
  /\ \E which \in 0..1 : <<Disks[i], which>> \in disk.bad
  /\ Raise

\* `if ub: ... else: uberblocks[BLK_INITIAL_DISK].rootbp`
Select ==
  /\ pc = "labels" /\ i > Len(Disks)
  /\ ub' = IF FindTxg > 0 THEN FindTxg ELSE FindActive
  /\ IF ub' = None THEN pc' = "raised" /\ UNCHANGED i ELSE Goto("copy", 0)
  /\ UNCHANGED <<n, mos, datasets>>

----------------------------------------------------------------------------
\* for dva in range(3)

\* The MOS opened: it is scanned from object 0.
Opens ==
  /\ mos' = "mos" /\ UNCHANGED datasets
  /\ pc' = "scan" /\ n' = 0

OpenCopy ==
  /\ pc = "copy" /\ i <= 2
  /\ disk.copies[i] = "opens" /\ Opens
  /\ UNCHANGED <<i, ub>>

OpenGarbled ==
  /\ pc = "copy" /\ i <= 2 /\ disk.copies[i] = "garbled"
  /\ mos' = "other"
  /\ pc' = "scan" /\ n' = 0
  /\ UNCHANGED <<i, ub, datasets>>

\* Mutant: the copy that raised is tried again.
OpenRetried ==
  /\ pc = "copy" /\ i <= 2 /\ disk.copies[i] \in {"raises", "garbled"}
  /\ Goto("copy", i)
  /\ UNCHANGED <<n, ub, mos, datasets>>
\* `except Exception: continue`, with mos as it was
OpenRaises ==
  /\ pc = "copy" /\ i <= 2 /\ disk.copies[i] \in {"raises", "garbled"}
  /\ Goto("copy", i + 1)
  /\ UNCHANGED <<n, ub, mos, datasets>>

\* The object set is _broken and has no _maxdnodeid: len(mos) is outside of
\* the try.
OpenLost ==
  /\ pc = "copy" /\ i <= 2 /\ disk.copies[i] = "lost"
  /\ Raise

Readable(o) == o \notin disk.lost
\* dir_obj and the child ZAP are needed, if only to print them.
ChildZap(o) ==
  \/ Datasets[o].children = 0
  \/ Readable(Datasets[o].dir) /\ Readable(Dirs[Datasets[o].dir].zap)

\* Mutant: a dataset with an unreadable child directory is passed over.
IsDatasetWithChildren(o) == o \in DOMAIN Datasets /\ Readable(o) /\ ChildZap(o)
\* `if d and d.type == 16`
IsDataset(o) == o \in DOMAIN Datasets /\ Readable(o)

ScanObject ==
  /\ pc = "scan" /\ n \in Objects /\ mos = "mos"
  /\ IsDataset(n) => ChildZap(n)
  /\ datasets' = IF IsDataset(n) THEN With(n, "mos") ELSE datasets
  /\ n' = n + 1
  /\ UNCHANGED <<pc, i, ub, mos>>

ScanRaises ==
  /\ pc = "scan" /\ n \in Objects /\ mos = "mos"
  /\ IsDataset(n) /\ ~ ChildZap(n)
  /\ Raise

\* Other contents may have an object as a dataset, or raise.
ScanOther ==
  /\ pc = "scan" /\ n \in Objects /\ mos = "other"
  /\ \/ UNCHANGED datasets
     \/ n \in Strays /\ datasets' = With(n, "other")
  /\ n' = n + 1
  /\ UNCHANGED <<pc, i, ub, mos>>

OtherRaises ==
  /\ pc \in {"scan", "root", "children"} /\ mos = "other"
  /\ Raise

ScanEnds ==
  /\ pc = "scan" /\ n \notin Objects
  /\ Goto("copy", i + 1)
  /\ UNCHANGED <<n, ub, mos, datasets>>

CopiesEnd ==
  /\ pc = "copy" /\ i > 2
  /\ IF mos = None THEN Raise
     ELSE Goto("root", 1) /\ UNCHANGED <<n, ub, mos, datasets>>

----------------------------------------------------------------------------
\* The children of the root dataset, in the MOS that was opened last

RootChain == {1, RootDataset, Dirs[RootDataset].zap}

RootDirectory ==
  /\ pc = "root" /\ mos = "mos"
  /\ IF RootChain \intersect disk.lost = {}
       THEN Goto("children", 1) /\ UNCHANGED <<n, ub, mos, datasets>>
       ELSE Raise

\* datasets[cds] = mos[cds], whatever it is
Child ==
  /\ pc = "children" /\ mos = "mos" /\ i <= Len(Children)
  /\ IF Readable(Children[i])
       THEN LET cds == Dirs[Children[i]].head IN
            /\ datasets' = With(cds, IF Readable(cds) THEN "mos" ELSE None)
            /\ Goto("children", i + 1)
            /\ UNCHANGED <<n, ub, mos>>
       ELSE Raise

OtherChildren ==
  /\ pc = "root" /\ mos = "other"
  /\ \/ UNCHANGED datasets
     \/ \E o \in Strays, v \in {"other", None} : datasets' = With(o, v)
  /\ Goto("children", Len(Children) + 1)
  /\ UNCHANGED <<n, ub, mos>>

\* Every dataset is printed; that of a None raises.
Report ==
  /\ pc = "children" /\ i > Len(Children)
  /\ IF None \in Range(datasets) THEN Raise
     ELSE Goto("done", 1) /\ UNCHANGED <<n, ub, mos, datasets>>

Step ==
  \/ ReadLabels \/ LabelRaises \/ Select
  \/ OpenCopy \/ OpenGarbled \/ OpenRaises \/ OpenLost
  \/ ScanObject \/ ScanRaises \/ ScanOther \/ OtherRaises \/ ScanEnds \/ CopiesEnd
  \/ RootDirectory \/ Child \/ OtherChildren \/ Report

Next == Step /\ UNCHANGED disk

\* The program is one thread, which goes on until it ends.
Spec == Init /\ [][Next]_vars /\ WF_vars(Next)

----------------------------------------------------------------------------
\* Properties

Valid(k) == disk.array[k].valid
Candidates == {k \in DOMAIN disk.array : Valid(k) /\ disk.array[k].txg >= disk.labeltxg}
Requested  == {k \in DOMAIN disk.array : Valid(k) /\ disk.array[k].txg = TXG}

\* The program goes on with a valid uberblock: one of the txg asked for or,
\* when there is none, the newest one, which the label does not postdate; of
\* two the later in the array (label.py 79-92, zfs_rescue.py 125-131).
SelectedIsRight ==
  ub # None =>
    /\ Valid(ub)
    /\ IF Requested # {} THEN ub \in Requested
       ELSE /\ ub \in Candidates
            /\ \A k \in Candidates : \/ disk.array[k].txg < disk.array[ub].txg
                                     \/ disk.array[k].txg = disk.array[ub].txg /\ k <= ub

\* Only damage ends the program: with readable labels, an uberblock that can be
\* used, a MOS copy that opens while the others do or raise, and no object
\* lost, it gets to the end (zfs_rescue.py 97-175).
EndsOnDamageOnly ==
  pc = "raised" =>
    \/ disk.bad # {}
    \/ Candidates = {} /\ Requested = {}
    \/ \E c \in 0..2 : disk.copies[c] \in {"garbled", "lost"}
    \/ \A c \in 0..2 : disk.copies[c] = "raises"
    \/ disk.lost # {}

\* The datasets that get past the report are all known: through whichever copy
\* the MOS opened, before or after others that failed, all of its readable ones
\* are among them; and a last copy that opens replaces what a garbled one before
\* it gave (zfs_rescue.py 138-157, 178-182).
AllDatasetsFound ==
  pc = "done" =>
    /\ None \notin Range(datasets)
    /\ (\E c \in 0..2 : disk.copies[c] = "opens") =>
         \A o \in DOMAIN Datasets : Readable(o) =>
           o \in DOMAIN datasets /\ (disk.copies[2] = "opens" => datasets[o] = "mos")

\* The program ends, well or not, whatever the disks hold.
ProgramEnds == <>(pc \in {"done", "raised"})
=============================================================================
