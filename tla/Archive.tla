------------------------------ MODULE Archive -------------------------------
(***************************************************************************)
(* The three walks over a recovered dataset (zfs/dataset.py): _archive,    *)
(* which writes a tar file, _export_dir, which writes a table, and         *)
(* traverse_dir, which prints one.  Each is a recursion over directories:  *)
(* stack is its call stack, a frame the locals of one call.  The archive   *)
(* puts every file through one temporary file, a block at a time.          *)
(*                                                                         *)
(* A fault is a dnode that is None, a read that raises, a block with a     *)
(* wrong checksum or an unreadable one, or an addfile() that raises before *)
(* it writes.  A block of a directory's ZAP that cannot be read takes the  *)
(* entries in it away, and nothing is said of it: zap_factory() gives the  *)
(* dictionary of the rest, which may be empty.  What else becomes of a     *)
(* damaged ZAP is FatZap's.  Names are numbers, in the order sorted()      *)
(* gives them.                                                             *)
(***************************************************************************)
EXTENDS Integers, Sequences, FiniteSets, SequencesExt

CONSTANTS
  Roots,          \* the directories a walk is started from (DS_OBJECTS)
  Entries,        \* Entries[d][name]: [obj, kind], directory d as ZAP
  Leaf,           \* Leaf[d][name]: the block of the ZAP that the entry is in
  Leaves,         \* the blocks there are
  Blocks,         \* Blocks[f]: the blocks of file f, "data" or "hole"
  SkipObjs,       \* skip_objs
  Modes,          \* the walks that are made
  Depth,          \* the depth traverse_dir is called with
  RecursionLimit, \* the frames Python allows
  MaxFaults,      \* how many reads fail in a walk
  None

ASSUME ConstantsAssumption ==
  /\ Roots \subseteq DOMAIN Entries
  /\ Modes \subseteq {"archive", "export", "traverse"}
  /\ Depth \in Nat /\ RecursionLimit \in Nat \ {0} /\ MaxFaults \in Nat
  /\ IsFiniteSet(Leaves)
  /\ \A d \in DOMAIN Entries : /\ IsFiniteSet(DOMAIN Entries[d])
                               /\ Leaf[d] \in [DOMAIN Entries[d] -> Leaves]
  /\ \A d \in DOMAIN Entries : \A n \in DOMAIN Entries[d] :
       /\ n \in Nat
       /\ Entries[d][n].kind = "d" => Entries[d][n].obj \in DOMAIN Entries
       /\ Entries[d][n].kind = "f" => Entries[d][n].obj \in DOMAIN Blocks
  /\ \A f \in DOMAIN Blocks : Blocks[f] \in Seq({"data", "hole"})

VARIABLES
  mode,    \* which walk it is
  root,    \* dir_node_id, or the root directory
  status,  \* "running", "done", or it "raised"
  stack,   \* the frames, the innermost last
  out,     \* what was written: tar members, rows or lines
  tmp,     \* extract.tmp: what it holds, or None
  extract, \* extract_file as it runs: [n, corrupted], or None
  left,    \* history: what was given up, [path, below], alone or with all below
  missed,  \* history: the blocks of ZAPs that were not read, [path, dir, leaf]
  faults

vars == <<mode, root, status, stack, out, tmp, extract, left, missed, faults>>

\* The names in the dictionary of d when some blocks of its ZAP are not read
Known(d, lost) == {x \in DOMAIN Entries[d] : Leaf[d][x] \notin lost}
Listings(names) == [1..Cardinality(names) -> names]
\* Mutant: the names come in the opposite order.
KeysReversed ==
  [d \in DOMAIN Entries |-> [lost \in SUBSET Leaves |->
     CHOOSE s \in Listings(Known(d, lost)) : \A i, j \in DOMAIN s : i < j => s[i] > s[j]]]
\* keys = sorted(zap.keys())
Keys ==
  [d \in DOMAIN Entries |-> [lost \in SUBSET Leaves |->
     CHOOSE s \in Listings(Known(d, lost)) : \A i, j \in DOMAIN s : i < j => s[i] < s[j]]]

\* One call, before its directory is read (i = 0) or at its i-th key
Frame(d, path) == [dir |-> d, i |-> 0, path |-> path, lost |-> {}]

Init ==
  /\ mode \in Modes
  /\ root \in Roots
  /\ status = "running"
  /\ stack = <<Frame(root, <<>>)>>
  /\ out = <<>> /\ tmp = None /\ extract = None
  /\ left = {} /\ missed = {} /\ faults = 0

Top      == stack[Len(stack)]
Entering == status = "running" /\ Top.i = 0
InLoop   == status = "running" /\ Top.i \in 1..Cardinality(Known(Top.dir, Top.lost))
Name     == Keys[Top.dir][Top.lost][Top.i]
Entry    == Entries[Top.dir][Name]
Path     == Append(Top.path, Name)

Fault(n)  == faults + n <= MaxFaults /\ faults' = faults + n
GiveUp(p, below) == left' = left \union {[path |-> p, below |-> below]}
Write(member) == out' = Append(out, member)
Item(info) == [path |-> Path, obj |-> Entry.obj, kind |-> Entry.kind, info |-> info]

----------------------------------------------------------------------------
\* The recursion

NextKey  == stack' = [stack EXCEPT ![Len(stack)].i = @ + 1]
Continue == NextKey /\ UNCHANGED status

\* Mutant: a directory that cannot be read ends the call it is read for.
ReturnTwice ==
  /\ stack' = IF Len(stack) > 1 /\ Top.i = 0 THEN Front(Front(stack)) ELSE Front(stack)
  /\ status' = IF stack' = <<>> THEN "done" ELSE status
Return ==
  /\ stack' = Front(stack)
  /\ status' = IF Len(stack) = 1 THEN "done" ELSE status

\* An exception goes through every frame: no walk catches it.
Raise == status' = "raised" /\ UNCHANGED <<stack, out, left>>

\* The recursive call on the entry, or a RecursionError
Recurse ==
  IF Len(stack) = RecursionLimit
    THEN status' = "raised" /\ UNCHANGED stack
    ELSE /\ stack' = Append([stack EXCEPT ![Len(stack)].i = @ + 1],
                            Frame(Entry.obj, Path))
         /\ UNCHANGED status

\* The ZAP is read, but for some of its blocks.
Enter ==
  /\ Entering
  /\ \E lost \in SUBSET Range(Leaf[Top.dir]) :
       /\ Fault(Cardinality(lost))
       /\ stack' = [stack EXCEPT ![Len(stack)] = [@ EXCEPT !.i = 1, !.lost = lost]]
       /\ missed' = missed \union {[path |-> Top.path, dir |-> Top.dir, leaf |-> l] : l \in lost}
  /\ UNCHANGED <<status, out, tmp, extract, left>>

\* The directory's dnode is None, or zap_factory() gives None.
EnterNothing(readable) ==
  /\ Entering /\ Fault(1)
  /\ Return /\ GiveUp(Top.path, TRUE)
  /\ out' = IF mode = "export" /\ ~ readable
              THEN Append(out, [path |-> Top.path, obj |-> Top.dir, kind |-> "d",
                                info |-> FALSE])
              ELSE out
  /\ UNCHANGED <<tmp, extract, missed>>

\* zap_factory() raises, which only traverse_dir catches.
EnterRaises ==
  /\ Entering /\ Fault(1)
  /\ IF mode = "traverse" THEN Return /\ GiveUp(Top.path, TRUE) /\ UNCHANGED out ELSE Raise
  /\ UNCHANGED <<tmp, extract, missed>>

Leave ==
  /\ status = "running" /\ Top.i > Cardinality(Known(Top.dir, Top.lost))
  /\ Return
  /\ UNCHANGED <<out, tmp, extract, left, missed, faults>>

----------------------------------------------------------------------------
\* A turn of the loop of _export_dir and traverse_dir

Shown == mode = "traverse" \/ Entry.kind \in {"d", "f", "l"}

\* depth > 0, where every call has one less
GoesDown == Entry.kind = "d" /\ (mode = "traverse" => Depth - (Len(stack) - 1) > 0)

\* An entry whose dnode is None is listed without its size.
List(info) ==
  /\ InLoop /\ mode # "archive"
  /\ Fault(IF info THEN 0 ELSE 1)
  /\ out' = IF Shown THEN Append(out, Item(info)) ELSE out
  /\ IF GoesDown THEN Recurse ELSE Continue
  /\ UNCHANGED <<tmp, extract, left, missed>>

----------------------------------------------------------------------------
\* A turn of the loop of _archive

Archiving == InLoop /\ mode = "archive" /\ extract = None

\* Mutant: skip_objs is looked up in the root directory only.
WantedBelow == Entry.kind \in {"d", "f", "l"} /\ (Len(stack) = 1 => Entry.obj \notin SkipObjs)
Wanted      == Entry.kind \in {"d", "f", "l"} /\ Entry.obj \notin SkipObjs

\* Passed over; with a fault when the dnode is None, when a link's target is
\* too short (of which Analyse!LinkOf says more), or when addfile() raised for
\* a link.
Skip ==
  /\ Archiving
  /\ Fault(IF Wanted THEN 1 ELSE 0)
  /\ Continue /\ GiveUp(Path, TRUE)
  /\ UNCHANGED <<out, tmp, extract, missed>>

\* Mutant: the temporary file is opened for appending.
WrittenAfter(f) == IF tmp = None THEN [obj |-> f, blocks |-> <<>>] ELSE tmp
\* open(target_path, "wb"): nothing is left of an earlier file.
Written(f) == [obj |-> f, blocks |-> <<>>]

\* extract_file opens extract.tmp.  A file that is one hole is not written at all.
ExtractBegins ==
  /\ Archiving /\ Wanted /\ Entry.kind = "f"
  /\ tmp' = Written(Entry.obj)
  /\ extract' = IF Range(Blocks[Entry.obj]) = {"hole"}
                  THEN [n |-> Len(Blocks[Entry.obj]) + 1, corrupted |-> TRUE]
                  ELSE [n |-> 1, corrupted |-> FALSE]
  /\ UNCHANGED <<status, stack, out, left, missed, faults>>

Extracting == InLoop /\ extract # None

\* Mutant: a block that is read clears the mark of the one before it.
CorruptedLast(r) == r = "zero"
Corrupted(r) == extract.corrupted \/ r = "zero"

\* A turn of its loop.  A hole has no data, like an unreadable block, and both
\* are written as zeros; a wrong checksum is not looked at.
ExtractBlock(r) ==
  /\ Extracting /\ extract.n \in DOMAIN Blocks[Entry.obj]
  /\ Blocks[Entry.obj][extract.n] = "hole" => r = "zero"
  /\ Fault(IF Blocks[Entry.obj][extract.n] = "data" /\ r # "good" THEN 1 ELSE 0)
  /\ tmp' = [tmp EXCEPT !.blocks = Append(@, r)]
  /\ extract' = [n |-> extract.n + 1, corrupted |-> Corrupted(r)]
  /\ UNCHANGED <<status, stack, out, left, missed>>

\* `return not corrupted`, and addfile(); the unlink is reached only when
\* addfile() did not raise.
ArchiveFile(added) ==
  /\ Extracting /\ extract.n > Len(Blocks[Entry.obj])
  /\ Fault(IF added THEN 0 ELSE 1)
  /\ extract' = None
  /\ IF added
       THEN /\ tmp' = None
            /\ Write([path |-> Path, obj |-> Entry.obj, kind |-> "f", info |-> TRUE,
                      data |-> tmp, marked |-> extract.corrupted])
            /\ UNCHANGED left
       ELSE GiveUp(Path, FALSE) /\ UNCHANGED <<tmp, out>>
  /\ Continue
  /\ UNCHANGED missed

\* A directory is gone into whether or not its member was added.
ArchiveDir(added) ==
  /\ Archiving /\ Wanted /\ Entry.kind = "d"
  /\ Fault(IF added THEN 0 ELSE 1)
  /\ IF added THEN Write(Item(TRUE)) /\ UNCHANGED left ELSE GiveUp(Path, FALSE) /\ UNCHANGED out
  /\ Recurse
  /\ UNCHANGED <<tmp, extract, missed>>

ArchiveLink ==
  /\ Archiving /\ Wanted /\ Entry.kind = "l"
  /\ Write(Item(TRUE)) /\ Continue
  /\ UNCHANGED <<tmp, extract, left, missed, faults>>

\* A value, a dnode or a bonus that cannot be made sense of; and an extraction
\* that raises, which leaves the temporary file as it got.
EntryRaises ==
  /\ InLoop /\ Fault(1)
  /\ Raise
  /\ UNCHANGED <<tmp, extract, missed>>

Step ==
  \/ Enter \/ Leave \/ EnterRaises
  \/ \E readable \in BOOLEAN : EnterNothing(readable)
  \/ \E info \in BOOLEAN : List(info)
  \/ Skip \/ ArchiveLink \/ EntryRaises
  \/ ExtractBegins \/ \E r \in {"good", "wrong", "zero"} : ExtractBlock(r)
  \/ \E added \in BOOLEAN : ArchiveFile(added) \/ ArchiveDir(added)
Next == Step /\ UNCHANGED <<mode, root>>

Spec == Init /\ [][Next]_vars

----------------------------------------------------------------------------
\* Properties

\* What the directories among some places name
Below(places) ==
  UNION {{[path |-> Append(p.path, x), obj |-> Entries[p.obj][x].obj,
           kind |-> Entries[p.obj][x].kind] : x \in DOMAIN Entries[p.obj]} :
         p \in {q \in places : q.kind = "d"}}
Start(r) == [path |-> <<>>, obj |-> r, kind |-> "d"]
\* Reach(r)[n]: what is on the disk n names below directory r
Reach(r) ==
  LET at[n \in 0..RecursionLimit] == IF n = 0 THEN {Start(r)} ELSE Below(at[n - 1])
  IN at
Places == [r \in Roots |-> UNION {Reach(r)[n] : n \in 1..RecursionLimit}]

\* A member of the archive has the blocks of its own object, never what the
\* temporary file was left with by a file before it (dataset.py 388-410, 488-497).
MemberIsItsObject ==
  mode = "archive" =>
    \A n \in DOMAIN out : out[n].kind = "f" =>
      /\ out[n].data.obj = out[n].obj
      /\ out[n].data.blocks = <<>> \/ Len(out[n].data.blocks) = Len(Blocks[out[n].obj])

\* The mark ._corrupted, which is made of a flag that goes through the turns of
\* the loop, is on exactly the members that have zeros in place of some block or
\* nothing in place of the file (dataset.py 373-378, 384-412, 452-453).
MarkedIffZeroed ==
  mode = "archive" =>
    \A n \in DOMAIN out : out[n].kind = "f" =>
      out[n].marked <=> \/ Len(out[n].data.blocks) # Len(Blocks[out[n].obj])
                        \/ "zero" \in Range(out[n].data.blocks)

\* p comes before q in the walk: above it, or under a smaller name.
Before(p, q) ==
  \E n \in 0..Len(q) - 1 :
    /\ n <= Len(p) /\ SubSeq(p, 1, n) = SubSeq(q, 1, n)
    /\ n = Len(p) \/ p[n + 1] < q[n + 1]

\* The members are written parents first, in the order of their names and
\* once each, whatever failed before; export alone writes a directory it cannot
\* read a second time (dataset.py 504-506, 524-526).
InWalkOrder ==
  \A i, j \in DOMAIN out : i < j =>
    \/ Before(out[i].path, out[j].path)
    \/ mode = "export" /\ j = i + 1 /\ out[i].path = out[j].path /\ ~ out[j].info

\* Every path written leads, on the disk, to the object it was written for, and
\* in an archive it is not, nor is it below, a name of an object of skip_objs
\* (dataset.py 439-441). No path is longer than the interpreter lets the walk
\* go down, though a directory may be its own ancestor.
PathsAreTrue ==
  \A n \in DOMAIN out :
    /\ \E p \in Places[root] \union {Start(root)} :
         p.path = out[n].path /\ p.obj = out[n].obj /\ p.kind = out[n].kind
    /\ mode = "archive" =>
         \A p \in Places[root] : p.obj \in SkipObjs => ~ IsPrefix(p.path, out[n].path)

\* The block of a ZAP that the way to a path goes through was not read.
BehindMissed(path) ==
  \E m \in missed :
    LET k == Len(m.path) + 1 IN
    k <= Len(path) /\ IsPrefix(m.path, path) /\ Leaf[m.dir][path[k]] = m.leaf

\* A walk that comes to its end has written everything in the tree, but what it
\* gave up with a message, one place at a time, and, without one, what is behind
\* an entry in a block of a ZAP that was not read: no failure takes a neighbour
\* with it (dataset.py 277-316, 422-509; zap.py 239-245).
NothingElseIsLost ==
  status = "done" =>
    \A p \in Places[root] :
      (mode = "traverse" => Len(p.path) <= Depth + 1) =>
        \/ \E n \in DOMAIN out : out[n].path = p.path
        \/ \E l \in left : l.path = p.path \/ (l.below /\ IsPrefix(l.path, p.path))
        \/ BehindMissed(p.path)
        \/ mode = "export" /\ p.kind \notin {"d", "f", "l"}
=============================================================================
