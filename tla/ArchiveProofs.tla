--------------------------- MODULE ArchiveProofs ----------------------------
(***************************************************************************)
(* Proofs about the three walks (Archive), for every tree, every limit of  *)
(* the recursion and any number of failures.                               *)
(*                                                                         *)
(* The inductive invariant is Inv.  A walk is a stack of frames, each with *)
(* the keys it has not come to; what is to come is everything below one of *)
(* those keys.  All that was written comes before all that is to come, and *)
(* what is neither written nor given up is to come, or was when a block of *)
(* a ZAP that names it was not read.                                       *)
(***************************************************************************)
EXTENDS Archive, DataInduction, SequenceTheorems

IsSeq(s) == s \in Seq(Range(s))
Size(d, lost) == Cardinality(Known(d, lost))
Depths == 1..Len(stack)

\* Something on the disk, a directory among those that can be listed
Objs == Roots \union UNION {{Entries[d][x].obj : x \in DOMAIN Entries[d]} : d \in DOMAIN Entries}
Kinds == {"d"} \union UNION {{Entries[d][x].kind : x \in DOMAIN Entries[d]} : d \in DOMAIN Entries}
Place == {p \in [path : Seq(Nat), obj : Objs, kind : Kinds] :
            p.kind = "d" => p.obj \in DOMAIN Entries}

\* The place of frame k, and the path of the m-th key of its directory
Here(k) == [path |-> stack[k].path, obj |-> stack[k].dir, kind |-> "d"]
KeyPath(k, m) == Append(stack[k].path, Keys[stack[k].dir][stack[k].lost][m])
ToCome(k) == {m \in 1..Size(stack[k].dir, stack[k].lost) : m >= stack[k].i}

FrameType == [dir : DOMAIN Entries, i : Nat, path : Seq(Nat), lost : SUBSET Leaves]
TypeOK ==
  /\ mode \in Modes /\ root \in Roots
  /\ status \in {"running", "done", "raised"}
  /\ stack \in Seq(FrameType)
  /\ IsSeq(out)
  /\ \A n \in DOMAIN out : out[n].path \in Seq(Nat)

\* Each frame is a directory on the disk, one level below the one before it,
\* which has gone past the key that leads to it.
StackInv ==
  /\ Len(stack) <= RecursionLimit
  /\ status = "running" => stack # <<>>
  /\ status = "done" => stack = <<>>
  /\ \A k \in Depths :
       /\ Len(stack[k].path) = k - 1
       /\ Here(k) \in Reach(root)[k - 1]
       /\ stack[k].i = 0 => stack[k].lost = {}
  /\ \A k \in Depths : \A j \in 1..k - 1 :
       /\ \A x \in 1..j - 1 : stack[k].path[x] = stack[j].path[x]
       /\ stack[j].i - 1 \in 1..Size(stack[j].dir, stack[j].lost)
       /\ stack[k].path[j] = Keys[stack[j].dir][stack[j].lost][stack[j].i - 1]

MemberInv == MemberIsItsObject /\ MarkedIffZeroed

\* While a file is extracted the walk is at its entry, and the temporary file
\* holds as many blocks as there were turns of the loop; its flag is set by one
\* of them that is zeros, or by the whole file being a hole.
FileInv ==
  extract # None /\ status = "running" =>
    /\ InLoop /\ mode = "archive" /\ Wanted /\ Entry.kind = "f"
    /\ tmp = [obj |-> Entry.obj, blocks |-> tmp.blocks]
    /\ extract.corrupted \in BOOLEAN
    /\ \/ /\ tmp.blocks = <<>> /\ extract.corrupted
          /\ Len(Blocks[Entry.obj]) > 0
          /\ extract.n = Len(Blocks[Entry.obj]) + 1
       \/ /\ tmp.blocks \in Seq({"good", "wrong", "zero"})
          /\ extract.n = Len(tmp.blocks) + 1
          /\ extract.n <= Len(Blocks[Entry.obj]) + 1
          /\ extract.corrupted <=> "zero" \in Range(tmp.blocks)

\* No walk of the archive is below a name of an object to skip.
PlaceInv ==
  /\ PathsAreTrue
  /\ mode = "archive" =>
       \A k \in Depths : \A p \in Places[root] :
         p.obj \in SkipObjs => ~ IsPrefix(p.path, stack[k].path)

\* All that is written comes before all that is to come.  When a directory is
\* to be read, export has written it last.
OrderInv ==
  /\ InWalkOrder
  /\ status = "running" =>
       \A n \in DOMAIN out : \A k \in Depths : \A m \in ToCome(k) :
         Before(out[n].path, KeyPath(k, m))
  /\ status = "running" /\ mode = "export" /\ Top.i = 0 =>
       \/ Len(stack) = 1 /\ out = <<>>
       \/ /\ out # <<>>
          /\ out[Len(out)].path = Top.path
          /\ \A n \in 1..Len(out) - 1 : Before(out[n].path, Top.path)

\* What was written, given up, missed, or is none of the walk's business
Settled(p) ==
  \/ mode = "traverse" /\ Len(p.path) > Depth + 1
  \/ \E n \in DOMAIN out : out[n].path = p.path
  \/ \E l \in left : l.path = p.path \/ (l.below /\ IsPrefix(l.path, p.path))
  \/ BehindMissed(p.path)
  \/ mode = "export" /\ p.kind \notin {"d", "f", "l"}

\* Everything else is still to come.
LossInv ==
  status # "raised" =>
    \A p \in Places[root] :
      \/ Settled(p)
      \/ \E k \in Depths : \E m \in ToCome(k) : IsPrefix(KeyPath(k, m), p.path)

Inv == TypeOK /\ StackInv /\ MemberInv /\ FileInv /\ PlaceInv /\ OrderInv /\ LossInv

-----------------------------------------------------------------------------
USE ConstantsAssumption

\* Sequences: prefixes, element by element

LEMMA SameStart ==
  ASSUME NEW p \in Seq(Nat), NEW q \in Seq(Nat), NEW n \in Nat, n <= Len(p), n <= Len(q)
  PROVE  SubSeq(p, 1, n) = SubSeq(q, 1, n) <=> \A x \in 1..n : p[x] = q[x]
<1>1. /\ \A x \in 1..n : p[x] \in Nat /\ q[x] \in Nat
  BY SMTT(30)
<1>2. /\ SubSeq(p, 1, n) \in Seq(Nat) /\ Len(SubSeq(p, 1, n)) = n
      /\ \A x \in 1..n : SubSeq(p, 1, n)[x] = p[x]
  OBVIOUS
<1>3. /\ SubSeq(q, 1, n) \in Seq(Nat) /\ Len(SubSeq(q, 1, n)) = n
      /\ \A x \in 1..n : SubSeq(q, 1, n)[x] = q[x]
  OBVIOUS
<1>4. (\A x \in 1..n : p[x] = q[x]) => SubSeq(p, 1, n) = SubSeq(q, 1, n)
  BY <1>2, <1>3, SeqEqual
<1> QED BY <1>2, <1>3, <1>4

LEMMA PrefixIs ==
  ASSUME NEW p \in Seq(Nat), NEW q \in Seq(Nat)
  PROVE  IsPrefix(p, q) <=> Len(p) <= Len(q) /\ \A x \in 1..Len(p) : p[x] = q[x]
<1>1. Len(p) \in Nat /\ Len(p) <= Len(p)
  BY LenProperties
<1>2. CASE Len(p) <= Len(q)
  <2>1. SubSeq(p, 1, Len(p)) = SubSeq(q, 1, Len(p)) <=> \A x \in 1..Len(p) : p[x] = q[x]
    BY <1>1, <1>2, SameStart
  <2> QED BY <1>2, <2>1 DEF IsPrefix
<1>3. CASE ~(Len(p) <= Len(q))
  BY <1>3 DEF IsPrefix
<1> QED BY <1>2, <1>3

LEMMA Appended ==
  ASSUME NEW p \in Seq(Nat), NEW x \in Nat
  PROVE  /\ Append(p, x) \in Seq(Nat)
         /\ Len(Append(p, x)) = Len(p) + 1
         /\ \A j \in 1..Len(p) : Append(p, x)[j] = p[j]
         /\ Append(p, x)[Len(p) + 1] = x
         /\ Len(p) \in Nat
  OBVIOUS

-----------------------------------------------------------------------------
\* Directories, as sorted and as found on the disk

LEMMA KeysSorted ==
  ASSUME NEW d \in DOMAIN Entries, NEW l \in SUBSET Leaves
  PROVE  /\ Size(d, l) \in Nat
         /\ \A m \in 1..Size(d, l) :
              Keys[d][l][m] \in DOMAIN Entries[d] /\ Keys[d][l][m] \in Nat
         /\ \A m, n \in 1..Size(d, l) : m < n => Keys[d][l][m] < Keys[d][l][n]
         /\ \A x \in DOMAIN Entries[d] :
              Leaf[d][x] \notin l => \E m \in 1..Size(d, l) : Keys[d][l][m] = x
<1> DEFINE T == Known(d, l)
           Sorted(s) == \A i, j \in DOMAIN s : i < j => s[i] < s[j]
           c == CHOOSE s \in [1..Cardinality(T) -> T] : Sorted(s)
<1>1. T \in SUBSET DOMAIN Entries[d] /\ T \in SUBSET Nat /\ IsFiniteSet(T)
  <2>1. T \in SUBSET DOMAIN Entries[d] /\ IsFiniteSet(DOMAIN Entries[d])
    BY DEF Known
  <2> HIDE DEF T
  <2> QED BY <2>1, FS_Subset
<1>2. Cardinality(T) \in Nat
  BY <1>1, FS_CardinalityType
<1>3. Keys[d][l] = c
  BY DEF Keys, Listings
<1>4. \A x \in DOMAIN Entries[d] : Leaf[d][x] \notin l => x \in T
  BY DEF Known
<1>5. Size(d, l) = Cardinality(T)
  BY DEF Size
<1> HIDE DEF T
<1>6. \E s \in [1..Cardinality(T) -> T] : Sorted(s)
  <2>1. PICK s : Ascends(s, Cardinality(T), T)
    BY <1>1, FiniteSorted
  <2>2. DOMAIN s = 1..Cardinality(T)
    BY <2>1 DEF Ascends
  <2> QED BY <2>1, <2>2 DEF Ascends
<1>7. c \in [1..Cardinality(T) -> T] /\ Sorted(c)
  <2> HIDE DEF Sorted
  <2> QED BY <1>6
<1> HIDE DEF c
<1>8. Ascends(c, Cardinality(T), T)
  <2>1. DOMAIN c = 1..Cardinality(T)
    BY <1>7
  <2> QED BY <1>7, <2>1 DEF Ascends
<1>9. \A x \in T : \E m \in 1..Cardinality(T) : c[m] = x
  BY <1>1, <1>8, AscendingOnto
<1>10. \A m \in 1..Cardinality(T) : c[m] \in DOMAIN Entries[d] /\ c[m] \in Nat
  BY <1>7, <1>1
<1> QED BY <1>2, <1>3, <1>4, <1>5, <1>8, <1>9, <1>10 DEF Ascends

\* The place x in the directory that p is
Child(p, x) == [path |-> Append(p.path, x), obj |-> Entries[p.obj][x].obj,
                kind |-> Entries[p.obj][x].kind]

LEMMA ChildType ==
  ASSUME NEW p \in Place, p.kind = "d", NEW x \in DOMAIN Entries[p.obj]
  PROVE  /\ Child(p, x) \in Place /\ x \in Nat
         /\ Child(p, x).path = Append(p.path, x)
         /\ Child(p, x).obj = Entries[p.obj][x].obj
         /\ Child(p, x).kind = Entries[p.obj][x].kind
         /\ p.path \in Seq(Nat)
<1>1. p.obj \in DOMAIN Entries /\ p.path \in Seq(Nat)
  BY DEF Place
<1>2. x \in Nat
  BY <1>1
<1>3. Entries[p.obj][x].obj \in Objs /\ Entries[p.obj][x].kind \in Kinds
  BY <1>1 DEF Objs, Kinds
<1>4. Entries[p.obj][x].kind = "d" => Entries[p.obj][x].obj \in DOMAIN Entries
  BY <1>1
<1>5. Append(p.path, x) \in Seq(Nat)
  BY <1>1, <1>2, Appended
<1>6. Child(p, x) \in [path : Seq(Nat), obj : Objs, kind : Kinds]
  BY <1>3, <1>5 DEF Child
<1> QED BY <1>1, <1>2, <1>4, <1>6 DEF Child, Place

LEMMA BelowIs ==
  ASSUME NEW P \in SUBSET Place
  PROVE  /\ Below(P) \in SUBSET Place
         /\ \A c : c \in Below(P) <=>
              \E p \in P : p.kind = "d" /\ \E x \in DOMAIN Entries[p.obj] : c = Child(p, x)
<1>1. Below(P) = UNION {{Child(p, x) : x \in DOMAIN Entries[p.obj]} : p \in {q \in P : q.kind = "d"}}
  BY DEF Below, Child
<1>2. \A c : c \in Below(P) <=>
        \E p \in P : p.kind = "d" /\ \E x \in DOMAIN Entries[p.obj] : c = Child(p, x)
  BY <1>1
<1>3. \A p \in P : p.kind = "d" => \A x \in DOMAIN Entries[p.obj] : Child(p, x) \in Place
  BY ChildType
<1>4. \A c : c \in Below(P) => c \in Place
  BY <1>2, <1>3
<1> QED BY <1>2, <1>4

\* The levels of the tree below r
LEMMA ReachIs ==
  ASSUME NEW r \in Roots
  PROVE  /\ Reach(r)[0] = {Start(r)}
         /\ \A n \in 0..RecursionLimit : Reach(r)[n] \in SUBSET Place
         /\ \A n \in 1..RecursionLimit : Reach(r)[n] = Below(Reach(r)[n - 1])
<1> DEFINE D == SUBSET Place
           G == [n \in Nat |-> [P \in D |-> Below(P)]]
           Levels(at) == [n \in 0..RecursionLimit |->
                          IF n = 0 THEN {Start(r)} ELSE Below(at[n - 1])]
           R == CHOOSE at : at = Levels(at)
<1>1. RecursionLimit \in Nat
  OBVIOUS
<1>2. {Start(r)} \in D
  BY DEF Start, Place, Objs, Kinds
<1>3. \A P \in D : Below(P) \in D
  BY BelowIs
<1>4. G \in [Nat -> [D -> D]]
  BY <1>3
<1>5. PICK f \in [0..RecursionLimit -> D] : Solves(f, RecursionLimit, {Start(r)}, G)
  <2> HIDE DEF G, D
  <2> QED BY <1>1, <1>2, <1>4, RecursionUpTo
<1>6. ASSUME NEW n \in 1..RecursionLimit PROVE f[n] = Below(f[n - 1])
  <2>1. n \in Nat /\ f[n - 1] \in D /\ f[n] = G[n][f[n - 1]]
    <3> HIDE DEF G, D
    <3> QED BY <1>1, <1>5 DEF Solves
  <2> HIDE DEF D
  <2> QED BY <2>1
<1>7. f = Levels(f)
  <2>1. f[0] = {Start(r)}
    BY <1>5 DEF Solves
  <2>2. \A n \in 0..RecursionLimit : f[n] = Levels(f)[n]
    BY <1>6, <2>1
  <2> HIDE DEF D
  <2> QED BY <1>5, <2>2
<1>8. Reach(r) = R
  BY DEF Reach
<1>9. R = Levels(R)
  <2> HIDE DEF Levels
  <2> QED BY <1>7
<1> HIDE DEF R
<1>10. R[0] = {Start(r)} /\ \A n \in 1..RecursionLimit : R[n] = Below(R[n - 1])
  <2>1. \A n \in 0..RecursionLimit :
          R[n] = IF n = 0 THEN {Start(r)} ELSE Below(R[n - 1])
    BY <1>9
  <2>2. 0 \in 0..RecursionLimit /\ \A n \in 1..RecursionLimit : n \in 0..RecursionLimit /\ n # 0
    BY <1>1
  <2> QED BY <2>1, <2>2
<1> DEFINE S == {n \in Nat : n <= RecursionLimit => R[n] \in D}
<1>11. 0 \in S
  BY <1>2, <1>10
<1>12. ASSUME NEW n \in Nat, n \in S PROVE n + 1 \in S
  <2>1. CASE n + 1 <= RecursionLimit
    <3>1. R[n + 1] = Below(R[n]) /\ R[n] \in D
      <4>1. n + 1 \in 1..RecursionLimit /\ n + 1 - 1 = n
        BY <2>1
      <4> QED BY <1>10, <1>12, <4>1
    <3> HIDE DEF D
    <3> QED BY <3>1, <1>3
  <2> QED BY <2>1
<1>13. Nat \subseteq S
  <2> HIDE DEF S
  <2> QED BY <1>11, <1>12, NatSetInduction
<1> QED BY <1>8, <1>10, <1>13

LEMMA AppendedSame ==
  ASSUME NEW p \in Seq(Nat), NEW q \in Seq(Nat), NEW x \in Nat, NEW y \in Nat,
         Append(p, x) = Append(q, y)
  PROVE  p = q /\ x = y
<1> DEFINE a == Append(p, x)
           b == Append(q, y)
<1>1. /\ Len(a) = Len(p) + 1 /\ a[Len(p) + 1] = x /\ Len(p) \in Nat
      /\ \A j \in 1..Len(p) : a[j] = p[j]
  BY Appended
<1>2. /\ Len(b) = Len(q) + 1 /\ b[Len(q) + 1] = y /\ Len(q) \in Nat
      /\ \A j \in 1..Len(q) : b[j] = q[j]
  BY Appended
<1>3. a = b
  OBVIOUS
<1> HIDE DEF a, b
<1>4. Len(p) = Len(q)
  BY <1>1, <1>2, <1>3
<1>5. x = y /\ \A j \in 1..Len(p) : p[j] = q[j]
  BY <1>1, <1>2, <1>3, <1>4
<1> QED BY <1>4, <1>5, SeqEqual

\* A place n levels down is a name in a directory one level above it.
LEMMA Level ==
  ASSUME NEW r \in Roots, NEW n \in 1..RecursionLimit, NEW p \in Reach(r)[n]
  PROVE  /\ n - 1 \in 0..RecursionLimit
         /\ \E q \in Reach(r)[n - 1] : q \in Place /\ q.kind = "d" /\
              \E x \in DOMAIN Entries[q.obj] : p = Child(q, x)
<1>1. RecursionLimit \in Nat
  OBVIOUS
<1>2. n - 1 \in 0..RecursionLimit
  BY <1>1
<1>3. Reach(r)[n - 1] \in SUBSET Place /\ p \in Below(Reach(r)[n - 1])
  BY <1>2, ReachIs
<1> QED BY <1>2, <1>3, BelowIs

LEMMA LevelIsLength ==
  ASSUME NEW r \in Roots
  PROVE  \A n \in 0..RecursionLimit : \A p \in Reach(r)[n] : p \in Place /\ Len(p.path) = n
<1> DEFINE S == {n \in Nat : n <= RecursionLimit => \A p \in Reach(r)[n] : Len(p.path) = n}
<1>1. RecursionLimit \in Nat
  OBVIOUS
<1>2. 0 \in S
  <2>1. \A p \in Reach(r)[0] : p = Start(r)
    BY ReachIs
  <2>2. Len(Start(r).path) = 0
    BY DEF Start
  <2> QED BY <2>1, <2>2
<1>3. ASSUME NEW n \in Nat, n \in S PROVE n + 1 \in S
  <2>1. ASSUME n + 1 <= RecursionLimit, NEW p \in Reach(r)[n + 1]
        PROVE  Len(p.path) = n + 1
    <3>1. n + 1 \in 1..RecursionLimit /\ n + 1 - 1 = n /\ n <= RecursionLimit
      BY <2>1, <1>1
    <3>2. PICK q \in Reach(r)[n] : q \in Place /\ q.kind = "d" /\
            \E x \in DOMAIN Entries[q.obj] : p = Child(q, x)
      BY <2>1, <3>1, Level
    <3>3. PICK x \in DOMAIN Entries[q.obj] : p = Child(q, x)
      BY <3>2
    <3>4. p.path = Append(q.path, x) /\ q.path \in Seq(Nat) /\ x \in Nat
      BY <3>2, <3>3, ChildType
    <3>5. Len(q.path) = n
      BY <1>3, <3>1, <3>2
    <3> QED BY <3>4, <3>5, Appended
  <2> QED BY <2>1
<1>4. Nat \subseteq S
  <2> HIDE DEF S
  <2> QED BY <1>2, <1>3, NatSetInduction
<1>5. \A n \in 0..RecursionLimit : Reach(r)[n] \in SUBSET Place
  BY ReachIs
<1> QED BY <1>1, <1>4, <1>5

\* A path leads to one place.
LEMMA PathDetermines ==
  ASSUME NEW r \in Roots
  PROVE  \A n \in 0..RecursionLimit : \A p, q \in Reach(r)[n] : p.path = q.path => p = q
<1> DEFINE S == {n \in Nat : n <= RecursionLimit =>
                   \A p, q \in Reach(r)[n] : p.path = q.path => p = q}
<1>1. RecursionLimit \in Nat
  OBVIOUS
<1>2. 0 \in S
  BY ReachIs
<1>3. ASSUME NEW n \in Nat, n \in S PROVE n + 1 \in S
  <2>1. ASSUME n + 1 <= RecursionLimit, NEW p \in Reach(r)[n + 1], NEW q \in Reach(r)[n + 1],
               p.path = q.path
        PROVE  p = q
    <3>1. n + 1 \in 1..RecursionLimit /\ n + 1 - 1 = n /\ n <= RecursionLimit
      BY <2>1, <1>1
    <3>2. PICK p1 \in Reach(r)[n] : p1 \in Place /\ p1.kind = "d" /\
            \E x \in DOMAIN Entries[p1.obj] : p = Child(p1, x)
      BY <2>1, <3>1, Level
    <3>3. PICK x \in DOMAIN Entries[p1.obj] : p = Child(p1, x)
      BY <3>2
    <3>4. PICK q1 \in Reach(r)[n] : q1 \in Place /\ q1.kind = "d" /\
            \E y \in DOMAIN Entries[q1.obj] : q = Child(q1, y)
      BY <2>1, <3>1, Level
    <3>5. PICK y \in DOMAIN Entries[q1.obj] : q = Child(q1, y)
      BY <3>4
    <3>6. /\ p.path = Append(p1.path, x) /\ p1.path \in Seq(Nat) /\ x \in Nat
          /\ q.path = Append(q1.path, y) /\ q1.path \in Seq(Nat) /\ y \in Nat
      BY <3>2, <3>3, <3>4, <3>5, ChildType
    <3>7. p1.path = q1.path /\ x = y
      <4>1. Append(p1.path, x) = Append(q1.path, y)
        BY <2>1, <3>6
      <4> DEFINE s == p1.path
                 t == q1.path
      <4>2. s \in Seq(Nat) /\ t \in Seq(Nat) /\ x \in Nat /\ y \in Nat /\ Append(s, x) = Append(t, y)
        BY <4>1, <3>6
      <4> HIDE DEF s, t
      <4>3. s = t /\ x = y
        BY <4>2, AppendedSame
      <4> QED BY <4>3 DEF s, t
    <3>8. p1 = q1
      BY <1>3, <3>1, <3>2, <3>4, <3>7
    <3> QED BY <3>3, <3>5, <3>7, <3>8
  <2> QED BY <2>1
<1>4. Nat \subseteq S
  <2> HIDE DEF S
  <2> QED BY <1>2, <1>3, NatSetInduction
<1> QED BY <1>1, <1>4

\* q is the directory k levels down that the way to p leads through.
Through(q, k, p) ==
  /\ q.kind = "d"
  /\ \A j \in 1..k : q.path[j] = p.path[j]
  /\ p.path[k + 1] \in DOMAIN Entries[q.obj]

LEMMA Ancestor ==
  ASSUME NEW r \in Roots
  PROVE  \A n \in 0..RecursionLimit : \A k \in 0..RecursionLimit : \A p \in Reach(r)[n] :
           k < n => \E q \in Reach(r)[k] : Through(q, k, p)
<1> DEFINE S == {n \in Nat : n <= RecursionLimit =>
                   \A k \in 0..RecursionLimit : \A p \in Reach(r)[n] :
                     k < n => \E q \in Reach(r)[k] : Through(q, k, p)}
<1>1. RecursionLimit \in Nat
  OBVIOUS
<1>2. 0 \in S
  OBVIOUS
<1>3. ASSUME NEW n \in Nat, n \in S PROVE n + 1 \in S
  <2>1. ASSUME n + 1 <= RecursionLimit, NEW k \in 0..RecursionLimit, k < n + 1,
               NEW p \in Reach(r)[n + 1]
        PROVE  \E q \in Reach(r)[k] : Through(q, k, p)
    <3>1. n + 1 \in 1..RecursionLimit /\ n + 1 - 1 = n /\ n <= RecursionLimit
      BY <2>1, <1>1
    <3>2. PICK o \in Reach(r)[n] : o \in Place /\ o.kind = "d" /\
            \E x \in DOMAIN Entries[o.obj] : p = Child(o, x)
      BY <2>1, <3>1, Level
    <3>3. PICK x \in DOMAIN Entries[o.obj] : p = Child(o, x)
      BY <3>2
    <3>4. p.path = Append(o.path, x) /\ o.path \in Seq(Nat) /\ x \in Nat
      BY <3>2, <3>3, ChildType
    <3>5. Len(o.path) = n
      BY <3>1, <3>2, LevelIsLength
    <3>6. p.path[n + 1] = x /\ \A j \in 1..n : p.path[j] = o.path[j]
      BY <3>4, <3>5, Appended
    <3>7. CASE k = n
      <4>1. Through(o, k, p)
        BY <3>2, <3>3, <3>6, <3>7 DEF Through
      <4> QED BY <3>2, <3>7, <4>1
    <3>8. CASE k < n
      <4>1. PICK q \in Reach(r)[k] : Through(q, k, o)
        BY <1>3, <3>1, <3>2, <3>8
      <4>2. k + 1 \in 1..n /\ \A j \in 1..k : j \in 1..n
        BY <3>8
      <4>3. Through(q, k, p)
        BY <3>6, <4>1, <4>2 DEF Through
      <4> QED BY <4>3
    <3> QED BY <2>1, <3>7, <3>8
  <2> QED BY <2>1
<1>4. Nat \subseteq S
  <2> HIDE DEF S
  <2> QED BY <1>2, <1>3, NatSetInduction
<1> QED BY <1>1, <1>4

LEMMA PlacesAre ==
  ASSUME NEW r \in Roots
  PROVE  \A p : p \in Places[r] <=> \E n \in 1..RecursionLimit : p \in Reach(r)[n]
  BY DEF Places

\* What is below c is c, or below something in the directory c.
LEMMA PlacesBelow ==
  ASSUME NEW r \in Roots, NEW L \in 0..RecursionLimit, NEW c \in Reach(r)[L],
         NEW p \in Places[r], IsPrefix(c.path, p.path)
  PROVE  \/ p = c
         \/ /\ c.kind = "d" /\ c.obj \in DOMAIN Entries
            /\ \E m \in 1..Size(c.obj, {}) : IsPrefix(Append(c.path, Keys[c.obj][{}][m]), p.path)
<1>1. PICK n \in 1..RecursionLimit : p \in Reach(r)[n]
  BY PlacesAre
<1>2. n \in 0..RecursionLimit
  OBVIOUS
<1>3. c \in Place /\ p \in Place /\ Len(c.path) = L /\ Len(p.path) = n
  BY <1>1, <1>2, LevelIsLength
<1>4. c.path \in Seq(Nat) /\ p.path \in Seq(Nat)
  BY <1>3 DEF Place
<1>5. L <= n /\ \A x \in 1..L : c.path[x] = p.path[x]
  BY <1>3, <1>4, PrefixIs
<1>6. CASE L = n
  <2>1. c.path = p.path
    BY <1>3, <1>4, <1>5, <1>6, SeqEqual
  <2> QED BY <1>1, <1>2, <1>6, <2>1, PathDetermines
<1>7. CASE L < n
  <2>1. PICK q \in Reach(r)[L] : Through(q, L, p)
    BY <1>1, <1>2, <1>7, Ancestor
  <2>2. q \in Place /\ Len(q.path) = L
    BY LevelIsLength
  <2>3. q.path \in Seq(Nat)
    BY <2>2 DEF Place
  <2>4. q.path = c.path
    <3>1. \A x \in 1..L : q.path[x] = c.path[x]
      BY <1>5, <2>1 DEF Through
    <3> QED BY <1>3, <1>4, <2>2, <2>3, <3>1, SeqEqual
  <2>5. q = c
    BY <2>4, PathDetermines
  <2>6. c.kind = "d" /\ p.path[L + 1] \in DOMAIN Entries[c.obj]
    BY <2>1, <2>5 DEF Through
  <2>7. c.obj \in DOMAIN Entries
    BY <1>3, <2>6 DEF Place
  <2>8. PICK m \in 1..Size(c.obj, {}) : Keys[c.obj][{}][m] = p.path[L + 1]
    BY <2>6, <2>7, KeysSorted
  <2> DEFINE s == c.path
             x == p.path[L + 1]
             t == Append(s, x)
  <2>9. s \in Seq(Nat) /\ x \in Nat
    BY <1>4, <2>6, <2>7
  <2>10. /\ t \in Seq(Nat) /\ Len(t) = L + 1 /\ t[L + 1] = x
         /\ \A j \in 1..L : t[j] = s[j]
    <3> HIDE DEF x
    <3>1. Len(s) = L
      BY <1>3
    <3> HIDE DEF s
    <3> QED BY <2>9, <3>1, Appended
  <2>11. IsPrefix(t, p.path)
    <3>1. L + 1 <= n
      BY <1>7
    <3>2. \A j \in 1..L + 1 : t[j] = p.path[j]
      <4>1. \A j \in 1..L : t[j] = p.path[j]
        BY <2>10, <1>5
      <4>2. t[L + 1] = p.path[L + 1]
        BY <2>10
      <4> HIDE DEF t
      <4>3. \A j \in 1..L + 1 : j \in 1..L \/ j = L + 1
        OBVIOUS
      <4> QED BY <4>1, <4>2, <4>3
    <3> HIDE DEF t
    <3> QED BY <1>3, <1>4, <2>10, <3>1, <3>2, PrefixIs
  <2> QED BY <2>6, <2>7, <2>8, <2>11
<1> QED BY <1>5, <1>6, <1>7, <1>3

\* What is written
LEMMA OutAppended ==
  ASSUME NEW s, IsSeq(s), NEW m
  PROVE  /\ IsSeq(Append(s, m))
         /\ Len(s) \in Nat /\ DOMAIN s = 1..Len(s)
         /\ Len(Append(s, m)) = Len(s) + 1
         /\ DOMAIN Append(s, m) = 1..Len(s) + 1
         /\ \A n \in 1..Len(s) : Append(s, m)[n] = s[n]
         /\ Append(s, m)[Len(s) + 1] = m
<1> DEFINE R == Range(s) \union {m}
           t == Append(s, m)
<1>1. s \in Seq(R)
  BY SeqMonotonic DEF IsSeq
<1>2. /\ Len(s) \in Nat /\ DOMAIN s = 1..Len(s)
      /\ t \in Seq(R) /\ Len(t) = Len(s) + 1 /\ DOMAIN t = 1..Len(s) + 1
      /\ \A n \in 1..Len(s) : t[n] = s[n]
      /\ t[Len(s) + 1] = m
  <2> HIDE DEF R
  <2>1. m \in R
    BY DEF R
  <2> QED BY <1>1, <2>1
<1> HIDE DEF t
<1>3. t \in Seq(Range(t))
  <2>1. t \in [1..Len(t) -> Range(t)]
    BY <1>2 DEF Range
  <2>2. Len(t) \in Nat
    BY <1>2
  <2> QED BY <2>1, <2>2, SeqDef
<1> QED BY <1>2, <1>3 DEF IsSeq, t

-----------------------------------------------------------------------------
\* The frames

LEMMA FramesAre ==
  ASSUME TypeOK, StackInv
  PROVE  /\ Len(stack) \in 0..RecursionLimit /\ DOMAIN stack = Depths
         /\ \A k \in Depths :
              /\ k \in 1..RecursionLimit /\ k - 1 \in 0..RecursionLimit
              /\ stack[k] \in FrameType /\ stack[k].lost \in SUBSET Leaves
              /\ stack[k].dir \in DOMAIN Entries /\ stack[k].i \in Nat
              /\ stack[k].path \in Seq(Nat) /\ Len(stack[k].path) = k - 1
              /\ Here(k) \in Reach(root)[k - 1]
              /\ \A m \in 1..Size(stack[k].dir, stack[k].lost) :
                   /\ KeyPath(k, m) \in Seq(Nat) /\ Len(KeyPath(k, m)) = k
                   /\ KeyPath(k, m)[k] = Keys[stack[k].dir][stack[k].lost][m]
                   /\ \A x \in 1..k - 1 : KeyPath(k, m)[x] = stack[k].path[x]
                   /\ IsPrefix(stack[k].path, KeyPath(k, m))
<1>1. Len(stack) \in 0..RecursionLimit /\ DOMAIN stack = Depths
  BY DEF TypeOK, StackInv, Depths
<1>2. ASSUME NEW k \in Depths
      PROVE  /\ k \in 1..RecursionLimit /\ k - 1 \in 0..RecursionLimit
             /\ stack[k] \in FrameType /\ stack[k].lost \in SUBSET Leaves
             /\ stack[k].dir \in DOMAIN Entries /\ stack[k].i \in Nat
             /\ stack[k].path \in Seq(Nat) /\ Len(stack[k].path) = k - 1
             /\ Here(k) \in Reach(root)[k - 1]
  <2>1. k \in 1..RecursionLimit /\ k - 1 \in 0..RecursionLimit
    BY <1>1 DEF Depths
  <2>2. stack[k] \in FrameType
    <3> HIDE DEF FrameType
    <3> QED BY ElementOfSeq DEF TypeOK, Depths
  <2> QED BY <2>1, <2>2 DEF StackInv, FrameType
<1>3. ASSUME NEW k \in Depths, NEW m \in 1..Size(stack[k].dir, stack[k].lost)
      PROVE  /\ KeyPath(k, m) \in Seq(Nat) /\ Len(KeyPath(k, m)) = k
             /\ KeyPath(k, m)[k] = Keys[stack[k].dir][stack[k].lost][m]
             /\ \A x \in 1..k - 1 : KeyPath(k, m)[x] = stack[k].path[x]
             /\ IsPrefix(stack[k].path, KeyPath(k, m))
  <2> DEFINE p == stack[k].path
             y == Keys[stack[k].dir][stack[k].lost][m]
  <2>1. p \in Seq(Nat) /\ Len(p) = k - 1 /\ y \in Nat /\ k \in Nat
    BY <1>2, KeysSorted
  <2>2. KeyPath(k, m) = Append(p, y)
    BY DEF KeyPath
  <2> HIDE DEF p, y
  <2>3. /\ Append(p, y) \in Seq(Nat) /\ Len(Append(p, y)) = k
        /\ Append(p, y)[k] = y
        /\ \A x \in 1..k - 1 : Append(p, y)[x] = p[x]
    BY <2>1, Appended
  <2>4. IsPrefix(p, Append(p, y))
    <3> DEFINE q == Append(p, y)
    <3>1. /\ q \in Seq(Nat) /\ Len(p) <= Len(q)
          /\ \A x \in 1..Len(p) : p[x] = q[x]
      BY <2>1, <2>3
    <3> HIDE DEF q
    <3>2. IsPrefix(p, q)
      BY <2>1, <3>1, PrefixIs
    <3> QED BY <3>2 DEF q
  <2> QED BY <2>2, <2>3, <2>4 DEF p, y
<1> QED BY <1>1, <1>2, <1>3

\* The entry that the innermost frame is at
Item0 == [path |-> Path, obj |-> Entry.obj, kind |-> Entry.kind]

LEMMA EntryIs ==
  ASSUME TypeOK, StackInv, InLoop
  PROVE  /\ Len(stack) \in Depths /\ Top = stack[Len(stack)]
         /\ Top.dir \in DOMAIN Entries /\ Top.lost \in SUBSET Leaves
         /\ Top.i \in 1..Size(Top.dir, Top.lost)
         /\ Name \in DOMAIN Entries[Top.dir] /\ Name \in Nat
         /\ Name = Keys[Top.dir][Top.lost][Top.i]
         /\ Top.i \in ToCome(Len(stack))
         /\ Path = KeyPath(Len(stack), Top.i)
         /\ Path \in Seq(Nat) /\ Len(Path) = Len(stack)
         /\ Item0 \in Reach(root)[Len(stack)] /\ Item0 \in Places[root]
         /\ Entry.kind = "d" => Entry.obj \in DOMAIN Entries
<1> DEFINE L == Len(stack)
<1>1. L \in Depths /\ Top = stack[L]
  BY FramesAre DEF InLoop, StackInv, TypeOK, Depths, Top
<1>2. /\ Top.dir \in DOMAIN Entries /\ Top.lost \in SUBSET Leaves
      /\ Top.i \in 1..Size(Top.dir, Top.lost)
  BY <1>1, FramesAre DEF InLoop, Size
<1>3. Name \in DOMAIN Entries[Top.dir] /\ Name \in Nat /\ Name = Keys[Top.dir][Top.lost][Top.i]
  BY <1>2, KeysSorted DEF Name
<1>4. Top.i \in ToCome(L)
  BY <1>1, <1>2 DEF ToCome
<1>5. Path = KeyPath(L, Top.i)
  BY <1>1, <1>3 DEF Path, KeyPath
<1>6. Path \in Seq(Nat) /\ Len(Path) = L
  BY <1>1, <1>2, <1>5, FramesAre
<1>7. Entry.kind = "d" => Entry.obj \in DOMAIN Entries
  BY <1>2, <1>3 DEF Entry
<1>8. root \in Roots /\ L \in 1..RecursionLimit
  BY <1>1, FramesAre DEF TypeOK
<1>9. Item0 = Child(Here(L), Name)
  BY <1>1 DEF Item0, Child, Here, Path, Entry
<1>10. Item0 \in Reach(root)[L]
  <2>1. Here(L) \in Reach(root)[L - 1] /\ L - 1 \in 0..RecursionLimit
    BY <1>1, FramesAre
  <2>2. Reach(root)[L - 1] \in SUBSET Place /\ Reach(root)[L] = Below(Reach(root)[L - 1])
    BY <1>8, <2>1, ReachIs
  <2>3. Here(L).kind = "d" /\ Name \in DOMAIN Entries[Here(L).obj]
    BY <1>1, <1>3 DEF Here
  <2>4. \E p \in Reach(root)[L - 1] :
          p.kind = "d" /\ \E x \in DOMAIN Entries[p.obj] : Item0 = Child(p, x)
    BY <1>9, <2>1, <2>3
  <2> QED BY <2>2, <2>4, BelowIs
<1>11. Item0 \in Places[root]
  BY <1>8, <1>10, PlacesAre
<1> QED BY <1>1, <1>2, <1>3, <1>4, <1>5, <1>6, <1>7, <1>10, <1>11

\* The innermost frame goes on to its next key.
NextKeyed ==
  /\ Len(stack') = Len(stack)
  /\ \A k \in Depths :
       /\ stack'[k].path = stack[k].path /\ stack'[k].dir = stack[k].dir
       /\ stack'[k].lost = stack[k].lost
       /\ stack'[k].i = IF k = Len(stack) THEN stack[k].i + 1 ELSE stack[k].i

\* The directory of the innermost frame is read, but for some blocks of it.
Entered ==
  /\ Len(stack') = Len(stack) /\ Top.i = 0
  /\ \A k \in Depths :
       /\ stack'[k].path = stack[k].path /\ stack'[k].dir = stack[k].dir
       /\ k # Len(stack) => stack'[k].i = stack[k].i /\ stack'[k].lost = stack[k].lost
  /\ stack'[Len(stack)].i = 1
  /\ stack'[Len(stack)].lost \in SUBSET Leaves

\* The frame goes.
Returned ==
  /\ Len(stack') = Len(stack) - 1
  /\ \A k \in 1..Len(stack) - 1 : stack'[k] = stack[k]

\* A frame comes, and the one that calls goes on to its next key.
Called ==
  /\ Len(stack') = Len(stack) + 1
  /\ \A k \in Depths :
       /\ stack'[k].path = stack[k].path /\ stack'[k].dir = stack[k].dir
       /\ stack'[k].lost = stack[k].lost
       /\ stack'[k].i = IF k = Len(stack) THEN stack[k].i + 1 ELSE stack[k].i
  /\ stack'[Len(stack) + 1] = Frame(Entry.obj, Path)

LEMMA FrameKept ==
  ASSUME NEW s \in FrameType, NEW n \in Nat
  PROVE  /\ [s EXCEPT !.i = n] \in FrameType
         /\ [s EXCEPT !.i = n].path = s.path /\ [s EXCEPT !.i = n].dir = s.dir
         /\ [s EXCEPT !.i = n].lost = s.lost /\ [s EXCEPT !.i = n].i = n
<1>1. [s EXCEPT !.i = n] \in FrameType
  BY DEF FrameType
<1>2. [s EXCEPT !.i = n].path = s.path /\ [s EXCEPT !.i = n].dir = s.dir
  BY DEF FrameType
<1>3. [s EXCEPT !.i = n].lost = s.lost /\ [s EXCEPT !.i = n].i = n
  BY DEF FrameType
<1> QED BY <1>1, <1>2, <1>3

LEMMA NextKeyIs ==
  ASSUME TypeOK, StackInv, stack # <<>>, NextKey
  PROVE  stack' \in Seq(FrameType) /\ NextKeyed
<1> DEFINE L == Len(stack)
           F == [stack[L] EXCEPT !.i = @ + 1]
<1>1. L \in Depths /\ stack \in Seq(FrameType)
  BY FramesAre DEF TypeOK, Depths
<1>2. stack' = [stack EXCEPT ![L] = F]
  BY DEF NextKey
<1>3. stack[L] \in FrameType
  BY <1>1, FramesAre
<1>4. /\ F \in FrameType /\ F.path = stack[L].path /\ F.dir = stack[L].dir
      /\ F.lost = stack[L].lost
      /\ F.i = stack[L].i + 1
  <2> DEFINE s == stack[L]
             n == s.i + 1
  <2>1. s \in FrameType /\ n \in Nat
    BY <1>3 DEF FrameType
  <2>2. F = [s EXCEPT !.i = n]
    OBVIOUS
  <2> HIDE DEF s, n, F
  <2>3. /\ [s EXCEPT !.i = n] \in FrameType
        /\ [s EXCEPT !.i = n].path = s.path /\ [s EXCEPT !.i = n].dir = s.dir
        /\ [s EXCEPT !.i = n].lost = s.lost /\ [s EXCEPT !.i = n].i = n
    BY <2>1, FrameKept
  <2> QED BY <2>2, <2>3 DEF s, n
<1> HIDE DEF F
<1>5. /\ stack' \in Seq(FrameType) /\ Len(stack') = L
      /\ \A k \in 1..L : stack'[k] = IF k = L THEN F ELSE stack[k]
  <2> HIDE DEF FrameType
  <2> QED BY <1>1, <1>2, <1>4, ExceptSeq DEF Depths
<1> QED BY <1>4, <1>5 DEF NextKeyed, Depths

LEMMA EnterIs ==
  ASSUME TypeOK, StackInv, stack # <<>>, Top.i = 0, NEW lost \in SUBSET Leaves,
         stack' = [stack EXCEPT ![Len(stack)] = [@ EXCEPT !.i = 1, !.lost = lost]]
  PROVE  stack' \in Seq(FrameType) /\ Entered /\ stack'[Len(stack)].lost = lost
<1> DEFINE L == Len(stack)
           F == [stack[L] EXCEPT !.i = 1, !.lost = lost]
<1>1. L \in Depths /\ stack \in Seq(FrameType)
  BY FramesAre DEF TypeOK, Depths
<1>2. stack' = [stack EXCEPT ![L] = F]
  OBVIOUS
<1>3. stack[L] \in FrameType
  BY <1>1, FramesAre
<1>4. /\ F \in FrameType /\ F.path = stack[L].path /\ F.dir = stack[L].dir
      /\ F.i = 1 /\ F.lost = lost
  BY <1>3 DEF FrameType
<1> HIDE DEF F
<1>5. /\ stack' \in Seq(FrameType) /\ Len(stack') = L
      /\ \A k \in 1..L : stack'[k] = IF k = L THEN F ELSE stack[k]
  <2> HIDE DEF FrameType
  <2> QED BY <1>1, <1>2, <1>4, ExceptSeq DEF Depths
<1> QED BY <1>1, <1>4, <1>5 DEF Entered, Depths

LEMMA ReturnIs ==
  ASSUME TypeOK, StackInv, stack # <<>>, Return
  PROVE  stack' \in Seq(FrameType) /\ Returned
<1> HIDE DEF FrameType
<1>1. Len(stack) \in Nat /\ Len(stack) > 0 /\ stack \in Seq(FrameType)
  BY FramesAre DEF TypeOK
<1> DEFINE s == stack
           n == Len(s) - 1
           t == SubSeq(s, 1, n)
<1>2. stack' = t
  BY DEF Return, Front
<1>3. s \in Seq(FrameType) /\ Len(s) \in Nat /\ Len(s) > 0
  BY <1>1
<1> HIDE DEF s
<1>4. /\ t \in Seq(FrameType) /\ Len(t) = Len(s) - 1
      /\ \A k \in 1..Len(s) - 1 : t[k] = s[k]
  <2>1. n \in Nat /\ n <= Len(s)
    BY <1>3
  <2> HIDE DEF n
  <2>2. /\ t \in Seq(FrameType) /\ Len(t) = n
        /\ \A k \in 1..n : t[k] = s[k]
    BY <1>3, <2>1
  <2> QED BY <2>2 DEF n
<1> HIDE DEF t, n
<1>5. /\ stack' \in Seq(FrameType) /\ Len(stack') = Len(stack) - 1
      /\ \A k \in 1..Len(stack) - 1 : stack'[k] = stack[k]
  BY <1>2, <1>4 DEF s
<1> QED BY <1>5 DEF Returned

LEMMA RecurseIs ==
  ASSUME TypeOK, StackInv, InLoop, Entry.kind = "d", Recurse
  PROVE  \/ status' = "raised" /\ stack' = stack
         \/ /\ status' = status /\ Len(stack) < RecursionLimit
            /\ stack' \in Seq(FrameType) /\ Called
<1> DEFINE L == Len(stack)
           F == [stack[L] EXCEPT !.i = @ + 1]
           t == [stack EXCEPT ![L] = F]
           f == Frame(Entry.obj, Path)
<1>1. L \in Depths /\ stack \in Seq(FrameType)
  BY EntryIs DEF TypeOK
<1>2. CASE L = RecursionLimit
  BY <1>2 DEF Recurse
<1>3. CASE L # RecursionLimit
  <2>1. L < RecursionLimit
    BY <1>1, <1>3, FramesAre
  <2>2. stack' = Append(t, f) /\ status' = status
    BY <1>3 DEF Recurse
  <2>3. stack[L] \in FrameType
    BY <1>1, FramesAre
  <2>4. /\ F \in FrameType /\ F.path = stack[L].path /\ F.dir = stack[L].dir
        /\ F.lost = stack[L].lost
        /\ F.i = stack[L].i + 1
    <3> DEFINE s == stack[L]
               n == s.i + 1
    <3>1. s \in FrameType /\ n \in Nat
      BY <2>3 DEF FrameType
    <3>2. F = [s EXCEPT !.i = n]
      OBVIOUS
    <3> HIDE DEF s, n, F
    <3>3. /\ [s EXCEPT !.i = n] \in FrameType
          /\ [s EXCEPT !.i = n].path = s.path /\ [s EXCEPT !.i = n].dir = s.dir
          /\ [s EXCEPT !.i = n].lost = s.lost /\ [s EXCEPT !.i = n].i = n
      BY <3>1, FrameKept
    <3> QED BY <3>2, <3>3 DEF s, n
  <2>5. f \in FrameType
    BY EntryIs DEF Frame, FrameType
  <2> HIDE DEF F
  <2>6. /\ t \in Seq(FrameType) /\ Len(t) = L
        /\ \A k \in 1..L : t[k] = IF k = L THEN F ELSE stack[k]
    <3> HIDE DEF FrameType
    <3> QED BY <1>1, <2>4, ExceptSeq DEF Depths
  <2> HIDE DEF t, f, L, FrameType
  <2>7. /\ stack' \in Seq(FrameType) /\ Len(stack') = L + 1
        /\ \A k \in 1..L : stack'[k] = t[k]
        /\ stack'[L + 1] = f
    BY <2>2, <2>5, <2>6
  <2> QED BY <2>1, <2>2, <2>4, <2>6, <2>7 DEF Called, Depths, L, f
<1> QED BY <1>2, <1>3

LEMMA NextKeyStack ==
  ASSUME TypeOK, StackInv, status = "running", root' = root, status' = "running", NextKeyed
  PROVE  StackInv' /\ Depths' = Depths
<1>1. Len(stack) \in Nat /\ Len(stack) > 0
  BY FramesAre DEF StackInv, TypeOK
<1>2. Depths' = Depths /\ stack' # <<>>
  BY <1>1 DEF Depths, NextKeyed
<1>3. \A k \in Depths : Here(k)' = Here(k)
  BY DEF Here, NextKeyed
<1>4. ASSUME NEW k \in Depths, NEW j \in 1..k - 1
      PROVE  /\ \A x \in 1..j - 1 : stack'[k].path[x] = stack'[j].path[x]
             /\ stack'[j].i - 1 \in 1..Size(stack'[j].dir, stack'[j].lost)
             /\ stack'[k].path[j] = Keys[stack'[j].dir][stack'[j].lost][stack'[j].i - 1]
  <2>1. j \in Depths /\ j # Len(stack)
    BY <1>1 DEF Depths
  <2>2. /\ \A x \in 1..j - 1 : stack[k].path[x] = stack[j].path[x]
        /\ stack[j].i - 1 \in 1..Size(stack[j].dir, stack[j].lost)
        /\ stack[k].path[j] = Keys[stack[j].dir][stack[j].lost][stack[j].i - 1]
    BY DEF StackInv
  <2>3. /\ stack'[k].path = stack[k].path /\ stack'[j].path = stack[j].path
        /\ stack'[j].dir = stack[j].dir /\ stack'[j].i = stack[j].i
        /\ stack'[j].lost = stack[j].lost
    BY <2>1 DEF NextKeyed
  <2> QED BY <2>2, <2>3
<1>5. \A k \in Depths :
        /\ Len(stack'[k].path) = k - 1 /\ Here(k)' \in Reach(root')[k - 1]
        /\ stack'[k].i = 0 => stack'[k].lost = {}
  <2> TAKE k \in Depths
  <2>1. stack[k].i \in Nat
    BY FramesAre
  <2> QED BY <1>3, <2>1 DEF StackInv, NextKeyed
<1>6. Len(stack') <= RecursionLimit
  BY DEF StackInv, NextKeyed
<1> QED BY <1>2, <1>4, <1>5, <1>6 DEF StackInv

LEMMA EnterStack ==
  ASSUME TypeOK, StackInv, status = "running", root' = root, status' = "running", Entered
  PROVE  StackInv' /\ Depths' = Depths
<1>1. Len(stack) \in Nat /\ Len(stack) > 0
  BY FramesAre DEF StackInv, TypeOK
<1>2. Depths' = Depths /\ stack' # <<>>
  BY <1>1 DEF Depths, Entered
<1>3. \A k \in Depths : Here(k)' = Here(k)
  BY DEF Here, Entered
<1>4. ASSUME NEW k \in Depths, NEW j \in 1..k - 1
      PROVE  /\ \A x \in 1..j - 1 : stack'[k].path[x] = stack'[j].path[x]
             /\ stack'[j].i - 1 \in 1..Size(stack'[j].dir, stack'[j].lost)
             /\ stack'[k].path[j] = Keys[stack'[j].dir][stack'[j].lost][stack'[j].i - 1]
  <2>1. j \in Depths /\ j # Len(stack)
    BY <1>1 DEF Depths
  <2>2. /\ \A x \in 1..j - 1 : stack[k].path[x] = stack[j].path[x]
        /\ stack[j].i - 1 \in 1..Size(stack[j].dir, stack[j].lost)
        /\ stack[k].path[j] = Keys[stack[j].dir][stack[j].lost][stack[j].i - 1]
    BY DEF StackInv
  <2>3. /\ stack'[k].path = stack[k].path /\ stack'[j].path = stack[j].path
        /\ stack'[j].dir = stack[j].dir /\ stack'[j].i = stack[j].i
        /\ stack'[j].lost = stack[j].lost
    BY <2>1 DEF Entered
  <2> QED BY <2>2, <2>3
<1>5. \A k \in Depths :
        /\ Len(stack'[k].path) = k - 1 /\ Here(k)' \in Reach(root')[k - 1]
        /\ stack'[k].i = 0 => stack'[k].lost = {}
  BY <1>3 DEF StackInv, Entered
<1>6. Len(stack') <= RecursionLimit
  BY DEF StackInv, Entered
<1> QED BY <1>2, <1>4, <1>5, <1>6 DEF StackInv

LEMMA ReturnStack ==
  ASSUME TypeOK, StackInv, status = "running", root' = root, Returned,
         stack' \in Seq(FrameType),
         status' = IF Len(stack) = 1 THEN "done" ELSE status
  PROVE  StackInv' /\ Depths' = 1..Len(stack) - 1
<1>1. Len(stack) \in Nat /\ Len(stack) > 0
  BY FramesAre DEF StackInv, TypeOK
<1>2. Depths' = 1..Len(stack) - 1 /\ \A k \in Depths' : k \in Depths /\ stack'[k] = stack[k]
  BY <1>1 DEF Depths, Returned
<1>3. \A k \in Depths' : Here(k)' = Here(k)
  BY <1>2 DEF Here
<1>4. ASSUME NEW k \in Depths', NEW j \in 1..k - 1
      PROVE  /\ \A x \in 1..j - 1 : stack'[k].path[x] = stack'[j].path[x]
             /\ stack'[j].i - 1 \in 1..Size(stack'[j].dir, stack'[j].lost)
             /\ stack'[k].path[j] = Keys[stack'[j].dir][stack'[j].lost][stack'[j].i - 1]
  <2>1. j \in Depths'
    BY <1>1, <1>2
  <2>2. k \in Depths /\ stack'[k] = stack[k] /\ stack'[j] = stack[j]
    BY <1>2, <2>1
  <2> QED BY <2>2 DEF StackInv
<1>5. \A k \in Depths' :
        /\ Len(stack'[k].path) = k - 1 /\ Here(k)' \in Reach(root')[k - 1]
        /\ stack'[k].i = 0 => stack'[k].lost = {}
  BY <1>2, <1>3 DEF StackInv
<1>6. Len(stack') <= RecursionLimit
  BY <1>1 DEF StackInv, Returned
<1>7. /\ status' = "running" => stack' # <<>>
      /\ status' = "done" => stack' = <<>>
  <2>1. Len(stack') = Len(stack) - 1
    BY DEF Returned
  <2>2. stack' = <<>> <=> Len(stack') = 0
    BY EmptySeq
  <2> QED BY <1>1, <2>1, <2>2
<1> QED BY <1>2, <1>4, <1>5, <1>6, <1>7 DEF StackInv

LEMMA CallStack ==
  ASSUME TypeOK, StackInv, InLoop, Entry.kind = "d", root' = root, status' = "running",
         Called, Len(stack) < RecursionLimit
  PROVE  /\ StackInv'
         /\ Depths' = 1..Len(stack) + 1
         /\ stack'[Len(stack) + 1].path = Path
         /\ stack'[Len(stack) + 1].dir = Entry.obj
         /\ stack'[Len(stack) + 1].i = 0 /\ stack'[Len(stack) + 1].lost = {}
<1> DEFINE L == Len(stack)
           After(k) == [path |-> stack'[k].path, obj |-> stack'[k].dir, kind |-> "d"]
<1>1. L \in Nat /\ L > 0 /\ L \in Depths /\ Top = stack[L]
  BY FramesAre, EntryIs DEF StackInv, TypeOK, InLoop
<1>2. /\ stack'[L + 1].path = Path /\ stack'[L + 1].dir = Entry.obj
      /\ stack'[L + 1].i = 0 /\ stack'[L + 1].lost = {}
  BY DEF Called, Frame
<1>3. /\ Depths' = 1..L + 1 /\ stack' # <<>>
      /\ \A k \in Depths' : k \in Depths \/ k = L + 1
  BY <1>1 DEF Depths, Called
<1>4. \A k \in Depths : After(k) = Here(k)
  BY DEF Here, Called
<1>5. After(L + 1) = Item0
  BY <1>2 DEF Item0
<1>6. ASSUME NEW k \in Depths, NEW j \in 1..k - 1
      PROVE  /\ \A x \in 1..j - 1 : stack'[k].path[x] = stack'[j].path[x]
             /\ stack'[j].i - 1 \in 1..Size(stack'[j].dir, stack'[j].lost)
             /\ stack'[k].path[j] = Keys[stack'[j].dir][stack'[j].lost][stack'[j].i - 1]
  <2>1. j \in Depths /\ j # L
    BY <1>1 DEF Depths
  <2>2. /\ \A x \in 1..j - 1 : stack[k].path[x] = stack[j].path[x]
        /\ stack[j].i - 1 \in 1..Size(stack[j].dir, stack[j].lost)
        /\ stack[k].path[j] = Keys[stack[j].dir][stack[j].lost][stack[j].i - 1]
    BY DEF StackInv
  <2>3. /\ stack'[k].path = stack[k].path /\ stack'[j].path = stack[j].path
        /\ stack'[j].dir = stack[j].dir /\ stack'[j].i = stack[j].i
        /\ stack'[j].lost = stack[j].lost
    BY <2>1 DEF Called
  <2> QED BY <2>2, <2>3
<1>7. ASSUME NEW j \in 1..L
      PROVE  /\ \A x \in 1..j - 1 : Path[x] = stack'[j].path[x]
             /\ stack'[j].i - 1 \in 1..Size(stack'[j].dir, stack'[j].lost)
             /\ Path[j] = Keys[stack'[j].dir][stack'[j].lost][stack'[j].i - 1]
  <2>1. /\ Top.i \in 1..Size(Top.dir, Top.lost) /\ Path = KeyPath(L, Top.i)
    BY EntryIs
  <2>2. /\ Path[L] = Keys[Top.dir][Top.lost][Top.i]
        /\ \A x \in 1..L - 1 : Path[x] = Top.path[x]
    <3> DEFINE m == Top.i
    <3>1. m \in 1..Size(stack[L].dir, stack[L].lost) /\ Path = KeyPath(L, m)
      BY <1>1, <2>1
    <3> HIDE DEF m
    <3>2. /\ KeyPath(L, m)[L] = Keys[stack[L].dir][stack[L].lost][m]
          /\ \A x \in 1..L - 1 : KeyPath(L, m)[x] = stack[L].path[x]
      BY <1>1, <3>1, FramesAre
    <3>3. Path[L] = Keys[stack[L].dir][stack[L].lost][m] /\ \A x \in 1..L - 1 : Path[x] = stack[L].path[x]
      BY <3>1, <3>2
    <3> QED BY <1>1, <3>3 DEF m
  <2>3. CASE j = L
    <3>1. /\ stack'[j].path = Top.path /\ stack'[j].dir = Top.dir
          /\ stack'[j].i = Top.i + 1 /\ stack'[j].lost = Top.lost
      BY <1>1, <2>3 DEF Called
    <3>2. Top.i \in Nat /\ Top.i + 1 - 1 = Top.i
      BY <1>1, FramesAre
    <3>3. /\ \A x \in 1..j - 1 : Path[x] = stack'[j].path[x]
          /\ Path[j] = Keys[Top.dir][Top.lost][Top.i]
      BY <2>2, <2>3, <3>1
    <3> QED BY <2>1, <3>1, <3>2, <3>3
  <2>4. CASE j # L
    <3>1. j \in Depths /\ j \in 1..L - 1
      BY <1>1, <2>4 DEF Depths
    <3>2. /\ stack'[j].path = stack[j].path /\ stack'[j].dir = stack[j].dir
          /\ stack'[j].i = stack[j].i /\ stack'[j].lost = stack[j].lost
      BY <2>4, <3>1 DEF Called
    <3>3. /\ \A x \in 1..j - 1 : stack[L].path[x] = stack[j].path[x]
          /\ stack[j].i - 1 \in 1..Size(stack[j].dir, stack[j].lost)
          /\ stack[L].path[j] = Keys[stack[j].dir][stack[j].lost][stack[j].i - 1]
      BY <1>1, <3>1 DEF StackInv
    <3>4. \A x \in 1..j - 1 : x \in 1..L - 1
      BY <3>1
    <3> QED BY <1>1, <2>2, <3>1, <3>2, <3>3, <3>4
  <2> QED BY <2>3, <2>4
<1>8. \A k \in Depths :
        /\ Len(stack'[k].path) = k - 1 /\ After(k) \in Reach(root)[k - 1]
        /\ stack'[k].i = 0 => stack'[k].lost = {}
  <2> TAKE k \in Depths
  <2>1. stack[k].i \in Nat
    BY FramesAre
  <2>2. /\ stack[k].i = 0 => stack[k].lost = {}
        /\ stack'[k].lost = stack[k].lost
        /\ stack'[k].i = stack[k].i \/ stack'[k].i = stack[k].i + 1
    BY <2>1 DEF StackInv, Called
  <2>3. stack'[k].i = 0 => stack'[k].lost = {}
    BY <2>1, <2>2
  <2>4. /\ Len(stack[k].path) = k - 1 /\ Here(k) \in Reach(root)[k - 1]
        /\ stack'[k].path = stack[k].path
    BY DEF StackInv, Called
  <2>5. Len(stack'[k].path) = k - 1
    BY <2>4, Zenon
  <2> HIDE DEF After
  <2>6. After(k) \in Reach(root)[k - 1]
    BY <1>4, <2>4, Zenon
  <2> QED BY <2>3, <2>5, <2>6, Zenon
<1>9. Len(stack'[L + 1].path) = L + 1 - 1 /\ After(L + 1) \in Reach(root)[L + 1 - 1]
  <2>1. Len(Path) = L /\ Item0 \in Reach(root)[L] /\ L + 1 - 1 = L
    BY <1>1, EntryIs
  <2> QED BY <1>2, <1>5, <2>1
<1>10. Len(stack') <= RecursionLimit
  BY <1>1 DEF Called
<1>11. \A k \in Depths' :
         /\ Len(stack'[k].path) = k - 1 /\ After(k) \in Reach(root)[k - 1]
         /\ stack'[k].i = 0 => stack'[k].lost = {}
  <2> HIDE DEF After
  <2> TAKE k \in Depths'
  <2>1. CASE k \in Depths
    BY <1>8, <2>1, Zenon
  <2>2. CASE k = L + 1
    BY <1>2, <1>9, <2>2
  <2> QED BY <1>3, <2>1, <2>2
<1>12. ASSUME NEW k \in Depths', NEW j \in 1..k - 1
       PROVE  /\ \A x \in 1..j - 1 : stack'[k].path[x] = stack'[j].path[x]
              /\ stack'[j].i - 1 \in 1..Size(stack'[j].dir, stack'[j].lost)
              /\ stack'[k].path[j] = Keys[stack'[j].dir][stack'[j].lost][stack'[j].i - 1]
  <2>1. CASE k \in Depths
    BY <2>1, <1>6
  <2>2. CASE k = L + 1
    <3>1. j \in 1..L
      BY <1>1, <2>2
    <3> QED BY <1>2, <1>7, <2>2, <3>1
  <2> QED BY <1>3, <2>1, <2>2
<1> QED BY <1>2, <1>3, <1>10, <1>11, <1>12 DEF StackInv, Here

-----------------------------------------------------------------------------
\* The order of the walk

LEMMA BeforeIs ==
  ASSUME NEW p \in Seq(Nat), NEW q \in Seq(Nat), NEW n \in Nat, n < Len(q), n <= Len(p),
         \A x \in 1..n : p[x] = q[x], n = Len(p) \/ p[n + 1] < q[n + 1]
  PROVE  Before(p, q)
<1>1. n \in 0..Len(q) - 1 /\ n <= Len(q)
  BY LenProperties
<1>2. SubSeq(p, 1, n) = SubSeq(q, 1, n)
  BY <1>1, SameStart
<1> QED BY <1>1, <1>2 DEF Before

LEMMA BeforeExtends ==
  ASSUME NEW p \in Seq(Nat), NEW r \in Seq(Nat), NEW q \in Seq(Nat),
         Before(p, r), IsPrefix(r, q)
  PROVE  Before(p, q)
<1>1. Len(r) \in Nat /\ Len(r) <= Len(q) /\ \A x \in 1..Len(r) : r[x] = q[x]
  BY PrefixIs, LenProperties
<1>2. PICK n \in 0..Len(r) - 1 :
        /\ n <= Len(p) /\ SubSeq(p, 1, n) = SubSeq(r, 1, n)
        /\ n = Len(p) \/ p[n + 1] < r[n + 1]
  BY DEF Before
<1>3. n \in Nat /\ n < Len(r) /\ n <= Len(r) /\ n + 1 \in 1..Len(r) /\ Len(q) \in Nat
  BY <1>1, LenProperties
<1>4. \A x \in 1..n : p[x] = r[x]
  BY <1>2, <1>3, SameStart
<1>5. \A x \in 1..n : p[x] = q[x]
  <2>1. \A x \in 1..n : x \in 1..Len(r)
    BY <1>3
  <2> QED BY <1>1, <1>4, <2>1
<1>6. r[n + 1] = q[n + 1]
  BY <1>1, <1>3
<1>7. n < Len(q)
  BY <1>1, <1>3
<1> QED BY <1>2, <1>3, <1>5, <1>6, <1>7, BeforeIs

\* What is to come after a step was to come before it, but for what is in the
\* directory that was called for.
LEMMA ComeKeyed ==
  ASSUME TypeOK, StackInv, stack # <<>>, NextKeyed \/ Called
  PROVE  \A k \in Depths :
           /\ \A m : KeyPath(k, m)' = KeyPath(k, m)
           /\ \A m \in ToCome(k)' : m \in ToCome(k) /\ (k = Len(stack) => m > Top.i)
           /\ \A m \in ToCome(k) : m \in ToCome(k)' \/ (k = Len(stack) /\ m = Top.i)
<1> SUFFICES ASSUME NEW k \in Depths
             PROVE  /\ \A m : KeyPath(k, m)' = KeyPath(k, m)
                    /\ \A m \in ToCome(k)' : m \in ToCome(k) /\ (k = Len(stack) => m > Top.i)
                    /\ \A m \in ToCome(k) : m \in ToCome(k)' \/ (k = Len(stack) /\ m = Top.i)
  OBVIOUS
<1>1. /\ stack'[k].path = stack[k].path /\ stack'[k].dir = stack[k].dir
      /\ stack'[k].lost = stack[k].lost
      /\ stack'[k].i = IF k = Len(stack) THEN stack[k].i + 1 ELSE stack[k].i
  BY DEF NextKeyed, Called
<1>2. stack[k].i \in Nat /\ Size(stack[k].dir, stack[k].lost) \in Nat /\ (k = Len(stack) => Top.i = stack[k].i)
  BY FramesAre, KeysSorted DEF Top
<1>3. \A m : KeyPath(k, m)' = KeyPath(k, m)
  BY <1>1 DEF KeyPath
<1>4. \A m \in ToCome(k)' : m \in ToCome(k) /\ (k = Len(stack) => m > Top.i)
  BY <1>1, <1>2 DEF ToCome, Size
<1>5. \A m \in ToCome(k) : m \in ToCome(k)' \/ (k = Len(stack) /\ m = Top.i)
  BY <1>1, <1>2 DEF ToCome, Size
<1> QED BY <1>3, <1>4, <1>5

LEMMA ComeReturned ==
  ASSUME Returned
  PROVE  \A k \in 1..Len(stack) - 1 :
           ToCome(k)' = ToCome(k) /\ \A m : KeyPath(k, m)' = KeyPath(k, m)
  BY DEF Returned, ToCome, KeyPath, Size

\* What is to come of a directory that is read came before, and what is not is
\* named in a block that was lost.
LEMMA ComeEntered ==
  ASSUME TypeOK, StackInv, stack # <<>>, Entered
  PROVE  /\ \A k \in Depths : k # Len(stack) =>
              ToCome(k)' = ToCome(k) /\ \A m : KeyPath(k, m)' = KeyPath(k, m)
         /\ \A k \in Depths : k = Len(stack) =>
              /\ \A n \in ToCome(k)' : \E m \in ToCome(k) : KeyPath(k, n)' = KeyPath(k, m)
              /\ \A m \in ToCome(k) :
                   \/ \E n \in ToCome(k)' : KeyPath(k, n)' = KeyPath(k, m)
                   \/ Leaf[stack[k].dir][KeyPath(k, m)[k]] \in stack'[k].lost
<1>1. ASSUME NEW k \in Depths, k # Len(stack)
      PROVE  ToCome(k)' = ToCome(k) /\ \A m : KeyPath(k, m)' = KeyPath(k, m)
  BY <1>1 DEF Entered, ToCome, KeyPath, Size
<1>2. ASSUME NEW k \in Depths, k = Len(stack)
      PROVE  /\ \A n \in ToCome(k)' : \E m \in ToCome(k) : KeyPath(k, n)' = KeyPath(k, m)
             /\ \A m \in ToCome(k) :
                  \/ \E n \in ToCome(k)' : KeyPath(k, n)' = KeyPath(k, m)
                  \/ Leaf[stack[k].dir][KeyPath(k, m)[k]] \in stack'[k].lost
  <2> DEFINE d == stack[k].dir
             l == stack'[k].lost
  <2>1. /\ d \in DOMAIN Entries /\ l \in SUBSET Leaves /\ {} \in SUBSET Leaves
        /\ stack[k].i = 0 /\ stack[k].lost = {}
        /\ stack'[k].path = stack[k].path /\ stack'[k].dir = d /\ stack'[k].i = 1
    BY <1>2, FramesAre DEF Entered, Top, StackInv
  <2>2. ToCome(k) = 1..Size(d, {})
    <3>1. Size(d, {}) \in Nat
      BY <2>1, KeysSorted
    <3> QED BY <2>1, <3>1 DEF ToCome
  <2>3. ToCome(k)' = 1..Size(d, l)
    <3>1. Size(d, l) \in Nat
      BY <2>1, KeysSorted
    <3>2. ToCome(k)' = {m \in 1..Size(d, l) : m >= 1}
      BY <2>1 DEF ToCome, Size
    <3> QED BY <3>1, <3>2
  <2>4. /\ \A m : KeyPath(k, m) = Append(stack[k].path, Keys[d][{}][m])
        /\ \A n : KeyPath(k, n)' = Append(stack[k].path, Keys[d][l][n])
    BY <2>1 DEF KeyPath
  <2>5. ASSUME NEW n \in ToCome(k)'
        PROVE  \E m \in ToCome(k) : KeyPath(k, n)' = KeyPath(k, m)
    <3>1. Keys[d][l][n] \in DOMAIN Entries[d]
      BY <2>1, <2>3, KeysSorted
    <3>2. PICK m \in 1..Size(d, {}) : Keys[d][{}][m] = Keys[d][l][n]
      BY <2>1, <3>1, KeysSorted
    <3> HIDE DEF d, l
    <3> QED BY <2>2, <2>4, <3>2, Zenon
  <2>6. ASSUME NEW m \in ToCome(k)
        PROVE  \/ \E n \in ToCome(k)' : KeyPath(k, n)' = KeyPath(k, m)
               \/ Leaf[d][KeyPath(k, m)[k]] \in l
    <3> DEFINE x == Keys[d][{}][m]
    <3>1. x \in DOMAIN Entries[d]
      BY <2>1, <2>2, KeysSorted
    <3>2. KeyPath(k, m)[k] = x
      <4>1. m \in 1..Size(stack[k].dir, stack[k].lost)
        BY DEF ToCome
      <4>2. KeyPath(k, m)[k] = Keys[stack[k].dir][stack[k].lost][m]
        BY <4>1, FramesAre
      <4> QED BY <2>1, <4>2
    <3> HIDE DEF x
    <3>3. CASE Leaf[d][x] \in l
      <4> HIDE DEF d, l
      <4> QED BY <3>2, <3>3
    <3>4. CASE Leaf[d][x] \notin l
      <4>1. PICK n \in 1..Size(d, l) : Keys[d][l][n] = x
        <5> HIDE DEF d, l
        <5> QED BY <2>1, <3>1, <3>4, KeysSorted
      <4>2. KeyPath(k, n)' = KeyPath(k, m)
        <5> HIDE DEF d, l
        <5> QED BY <2>4, <4>1, Zenon DEF x
      <4> QED BY <2>3, <4>1, <4>2, Zenon
    <3> QED BY <3>3, <3>4
  <2> QED BY <2>5, <2>6
<1> QED BY <1>1, <1>2

LEMMA ComeCalled ==
  ASSUME TypeOK, StackInv, InLoop, Entry.kind = "d", Called
  PROVE  \A k : k = Len(stack) + 1 =>
           /\ ToCome(k)' = 1..Size(Entry.obj, {})
           /\ \A m \in 1..Size(Entry.obj, {}) :
                /\ KeyPath(k, m)' = Append(Path, Keys[Entry.obj][{}][m])
                /\ KeyPath(k, m)' \in Seq(Nat) /\ IsPrefix(Path, KeyPath(k, m)')
                /\ Len(KeyPath(k, m)') = Len(stack) + 1
                /\ \A x \in 1..Len(stack) : KeyPath(k, m)'[x] = Path[x]
<1> SUFFICES ASSUME NEW k, k = Len(stack) + 1
             PROVE  /\ ToCome(k)' = 1..Size(Entry.obj, {})
                    /\ \A m \in 1..Size(Entry.obj, {}) :
                         /\ KeyPath(k, m)' = Append(Path, Keys[Entry.obj][{}][m])
                         /\ KeyPath(k, m)' \in Seq(Nat) /\ IsPrefix(Path, KeyPath(k, m)')
                         /\ Len(KeyPath(k, m)') = Len(stack) + 1
                         /\ \A x \in 1..Len(stack) : KeyPath(k, m)'[x] = Path[x]
  OBVIOUS
<1>1. /\ stack'[k].path = Path /\ stack'[k].dir = Entry.obj
      /\ stack'[k].i = 0 /\ stack'[k].lost = {}
  BY DEF Called, Frame
<1>2. ToCome(k)' = 1..Size(Entry.obj, {})
  BY <1>1 DEF ToCome, Size
<1>3. ASSUME NEW m \in 1..Size(Entry.obj, {})
      PROVE  /\ KeyPath(k, m)' = Append(Path, Keys[Entry.obj][{}][m])
             /\ KeyPath(k, m)' \in Seq(Nat) /\ IsPrefix(Path, KeyPath(k, m)')
             /\ Len(KeyPath(k, m)') = Len(stack) + 1
             /\ \A x \in 1..Len(stack) : KeyPath(k, m)'[x] = Path[x]
  <2> DEFINE p == Path
             x == Keys[Entry.obj][{}][m]
             q == Append(p, x)
  <2>1. KeyPath(k, m)' = q
    BY <1>1 DEF KeyPath
  <2>2. p \in Seq(Nat) /\ Len(p) = Len(stack) /\ x \in Nat
    BY EntryIs, KeysSorted
  <2> HIDE DEF p, x
  <2>3. /\ q \in Seq(Nat) /\ Len(q) = Len(p) + 1 /\ \A j \in 1..Len(p) : q[j] = p[j]
        /\ Len(p) \in Nat
    BY <2>2, Appended
  <2> HIDE DEF q
  <2>4. IsPrefix(p, q)
    <3>1. p \in Seq(Nat) /\ Len(p) <= Len(q) /\ \A j \in 1..Len(p) : p[j] = q[j]
      BY <2>2, <2>3
    <3> QED BY <2>3, <3>1, PrefixIs
  <2> QED BY <2>1, <2>2, <2>3, <2>4 DEF p, q, x
<1> QED BY <1>2, <1>3

\* p comes before all that is to come.
Precedes(p) == \A k \in Depths : \A m \in ToCome(k) : Before(p, KeyPath(k, m))

LEMMA StaysBefore ==
  ASSUME TypeOK, StackInv, status = "running", NEW p \in Seq(Nat), Precedes(p),
         \/ NextKeyed
         \/ Entered
         \/ Returned
         \/ InLoop /\ Entry.kind = "d" /\ Called
  PROVE  Precedes(p)'
<1> USE DEF Precedes
<1>1. Len(stack) \in Nat /\ stack # <<>>
  BY FramesAre DEF StackInv
<1>2. CASE NextKeyed
  <2>1. Depths' = Depths
    BY <1>2 DEF Depths, NextKeyed
  <2> QED BY <1>1, <1>2, <2>1, ComeKeyed
<1>3. CASE Returned
  <2>1. Depths' = 1..Len(stack) - 1 /\ 1..Len(stack) - 1 \subseteq Depths
    BY <1>1, <1>3 DEF Depths, Returned
  <2> QED BY <1>3, <2>1, ComeReturned
<1>4. CASE InLoop /\ Entry.kind = "d" /\ Called
  <2> DEFINE L == Len(stack)
  <2>1. \A k \in Depths' : k \in Depths \/ k = L + 1
    BY <1>1, <1>4 DEF Depths, Called
  <2>2. ASSUME NEW k \in Depths, NEW m \in ToCome(k)' PROVE Before(p, KeyPath(k, m)')
    BY <1>1, <1>4, <2>2, ComeKeyed
  <2>3. ASSUME NEW k, k = Len(stack) + 1, NEW m \in ToCome(k)' PROVE Before(p, KeyPath(k, m)')
    <3>1. /\ KeyPath(k, m)' \in Seq(Nat) /\ IsPrefix(Path, KeyPath(k, m)')
      BY <1>4, <2>3, ComeCalled
    <3>2. Path \in Seq(Nat) /\ Before(p, Path)
      BY <1>4, EntryIs
    <3> DEFINE q == KeyPath(k, m)'
               r == Path
    <3>3. q \in Seq(Nat) /\ IsPrefix(r, q) /\ r \in Seq(Nat) /\ Before(p, r)
      BY <3>1, <3>2
    <3> HIDE DEF q, r
    <3>4. Before(p, q)
      BY <3>3, BeforeExtends
    <3> QED BY <3>4 DEF q
  <2> QED BY <2>1, <2>2, <2>3
<1>5. CASE Entered
  <2>1. Depths' = Depths
    BY <1>5 DEF Depths, Entered
  <2>2. ASSUME NEW k \in Depths, NEW n \in ToCome(k)' PROVE Before(p, KeyPath(k, n)')
    <3>1. \E m \in ToCome(k) : KeyPath(k, n)' = KeyPath(k, m)
      BY <1>1, <1>5, <2>2, ComeEntered
    <3>2. \A m \in ToCome(k) : Before(p, KeyPath(k, m))
      OBVIOUS
    <3> QED BY <3>1, <3>2
  <2> QED BY <2>1, <2>2
<1> QED BY <1>2, <1>3, <1>4, <1>5

\* A frame that is not the innermost is past the key the next ones are below.
LEMMA FrameAbove ==
  ASSUME StackInv, NEW L \in Depths, NEW k \in 1..L - 1
  PROVE  /\ \A x \in 1..k - 1 : stack[L].path[x] = stack[k].path[x]
         /\ stack[k].i - 1 \in 1..Size(stack[k].dir, stack[k].lost)
         /\ stack[L].path[k] = Keys[stack[k].dir][stack[k].lost][stack[k].i - 1]
  BY DEF StackInv

\* The entry the walk is at comes before what is to come after it.
LEMMA EntryPrecedes ==
  ASSUME TypeOK, StackInv, InLoop,
         \/ NextKeyed
         \/ Entry.kind = "d" /\ Called
  PROVE  \A p : p = Path => Precedes(p)'
<1> DEFINE L == Len(stack)
<1>1. /\ L \in Nat /\ stack # <<>> /\ L \in Depths /\ Top = stack[L]
      /\ Path \in Seq(Nat) /\ Len(Path) = L
      /\ Top.i \in 1..Size(Top.dir, Top.lost) /\ Path = KeyPath(L, Top.i)
      /\ Top.lost \in SUBSET Leaves
  <2>1. stack # <<>>
    BY DEF StackInv, InLoop
  <2>2. L \in Nat
    BY FramesAre
  <2> QED BY <2>1, <2>2, EntryIs
<1>2. Path[L] = Keys[Top.dir][Top.lost][Top.i] /\ \A x \in 1..L - 1 : Path[x] = Top.path[x]
  <2> DEFINE m == Top.i
  <2>1. m \in 1..Size(stack[L].dir, stack[L].lost) /\ Path = KeyPath(L, m)
    BY <1>1
  <2> HIDE DEF m
  <2>2. /\ KeyPath(L, m)[L] = Keys[stack[L].dir][stack[L].lost][m]
        /\ \A x \in 1..L - 1 : KeyPath(L, m)[x] = stack[L].path[x]
    BY <1>1, <2>1, FramesAre
  <2>3. Path[L] = Keys[stack[L].dir][stack[L].lost][m] /\ \A x \in 1..L - 1 : Path[x] = stack[L].path[x]
    BY <2>1, <2>2
  <2> QED BY <1>1, <2>3 DEF m
<1>3. ASSUME NEW k \in Depths, NEW m \in ToCome(k), k = Len(stack) => m > Top.i
      PROVE  Before(Path, KeyPath(k, m))
  <2>1. /\ k \in Nat /\ k >= 1 /\ k <= L /\ m \in 1..Size(stack[k].dir, stack[k].lost)
        /\ stack[k].dir \in DOMAIN Entries /\ stack[k].lost \in SUBSET Leaves
    BY <1>1, FramesAre DEF Depths, ToCome
  <2>2. /\ KeyPath(k, m) \in Seq(Nat) /\ Len(KeyPath(k, m)) = k
        /\ KeyPath(k, m)[k] = Keys[stack[k].dir][stack[k].lost][m]
        /\ \A x \in 1..k - 1 : KeyPath(k, m)[x] = stack[k].path[x]
    BY <2>1, FramesAre
  <2>3. (\A x \in 1..k - 1 : Path[x] = stack[k].path[x]) /\ Path[k] < Keys[stack[k].dir][stack[k].lost][m]
    <3>1. CASE k = L
      <4>1. m > Top.i
        BY <1>3, <3>1
      <4>2. Keys[Top.dir][Top.lost][Top.i] < Keys[Top.dir][Top.lost][m]
        <5>1. Top.dir \in DOMAIN Entries /\ m \in 1..Size(Top.dir, Top.lost) /\ Top.i < m
          BY <1>1, <2>1, <3>1, <4>1
        <5> QED BY <1>1, <5>1, KeysSorted
      <4> QED BY <1>1, <1>2, <3>1, <4>2
    <3>2. CASE k # L
      <4>1. k \in 1..L - 1
        BY <1>1, <2>1, <3>2
      <4>2. /\ \A x \in 1..k - 1 : stack[L].path[x] = stack[k].path[x]
            /\ stack[k].i - 1 \in 1..Size(stack[k].dir, stack[k].lost)
            /\ stack[L].path[k] = Keys[stack[k].dir][stack[k].lost][stack[k].i - 1]
        BY <1>1, <4>1, FrameAbove
      <4>3. \A x \in 1..k - 1 : x \in 1..L - 1
        BY <4>1
      <4>4. stack[k].i - 1 < m
        BY <2>1, FramesAre DEF ToCome
      <4>5. Keys[stack[k].dir][stack[k].lost][stack[k].i - 1] < Keys[stack[k].dir][stack[k].lost][m]
        BY <2>1, <4>2, <4>4, KeysSorted
      <4> QED BY <1>1, <1>2, <4>1, <4>2, <4>3, <4>5
    <3> QED BY <3>1, <3>2
  <2> DEFINE n == k - 1
             p == Path
             q == KeyPath(k, m)
  <2>4. /\ n \in Nat /\ n < Len(q) /\ n <= Len(p) /\ p \in Seq(Nat) /\ q \in Seq(Nat)
        /\ \A x \in 1..n : p[x] = q[x]
        /\ p[n + 1] < q[n + 1]
    BY <1>1, <2>1, <2>2, <2>3
  <2> HIDE DEF n, p, q
  <2>5. Before(p, q)
    BY <2>4, BeforeIs
  <2> QED BY <2>5 DEF p, q
<1>4. ASSUME NEW k \in Depths, NEW m \in ToCome(k)', NextKeyed \/ Called
      PROVE  Before(Path, KeyPath(k, m)')
  BY <1>1, <1>3, <1>4, ComeKeyed
<1>5. ASSUME NEW k, k = Len(stack) + 1, NEW m \in ToCome(k)', Entry.kind = "d", Called
      PROVE  Before(Path, KeyPath(k, m)')
  <2> DEFINE n == L
             p == Path
             q == KeyPath(k, m)'
  <2>1. m \in 1..Size(Entry.obj, {})
    BY <1>5, ComeCalled
  <2>2. /\ q \in Seq(Nat) /\ Len(q) = L + 1
        /\ \A x \in 1..L : q[x] = Path[x]
    BY <1>5, <2>1, ComeCalled
  <2>3. /\ n \in Nat /\ n < Len(q) /\ n <= Len(p) /\ p \in Seq(Nat) /\ q \in Seq(Nat)
        /\ \A x \in 1..n : p[x] = q[x]
        /\ n = Len(p)
    BY <1>1, <2>2
  <2> HIDE DEF n, p, q
  <2>4. Before(p, q)
    BY <2>3, BeforeIs
  <2> QED BY <2>4 DEF p, q
<1>6. ASSUME NEW k \in Depths', NEW m \in ToCome(k)'
      PROVE  Before(Path, KeyPath(k, m)')
  <2>1. CASE NextKeyed
    <3>1. k \in Depths
      BY <2>1 DEF Depths, NextKeyed
    <3> QED BY <1>4, <2>1, <3>1
  <2>2. CASE Entry.kind = "d" /\ Called
    <3>1. k \in Depths \/ k = Len(stack) + 1
      BY <1>1, <2>2 DEF Depths, Called
    <3>2. CASE k \in Depths
      BY <1>4, <2>2, <3>2
    <3>3. CASE k = Len(stack) + 1
      BY <1>5, <2>2, <3>3
    <3> QED BY <3>1, <3>2, <3>3
  <2> QED BY <2>1, <2>2
<1> QED BY <1>6 DEF Precedes

-----------------------------------------------------------------------------
\* What a step does to the stack, and what each invariant asks of a step

Moved  == stack # <<>> /\ NextKeyed /\ status' = "running"
Opened == /\ stack # <<>> /\ Entered /\ status' = "running"
          /\ \A l \in stack'[Len(stack)].lost :
               [path |-> Top.path, dir |-> Top.dir, leaf |-> l] \in missed'
Back   == Returned /\ status' = IF Len(stack) = 1 THEN "done" ELSE status
Down   == /\ InLoop /\ Entry.kind = "d" /\ Called
          /\ Len(stack) < RecursionLimit /\ status' = "running"
Thrown == stack' = stack /\ status' = "raised"
Goes   == /\ status = "running" /\ mode' = mode /\ root' = root
          /\ stack' \in Seq(FrameType)
          /\ Moved \/ Opened \/ Back \/ Down \/ Thrown

LEMMA StackKept ==
  ASSUME TypeOK, StackInv, Goes
  PROVE  StackInv' /\ status' \in {"running", "done", "raised"}
<1> HIDE DEF FrameType
<1>1. CASE Moved
  BY <1>1, NextKeyStack DEF Goes, Moved
<1>2. CASE Back
  <2>1. status' \in {"running", "done"}
    BY <1>2 DEF Goes, Back
  <2> QED BY <1>2, <2>1, ReturnStack DEF Goes, Back
<1>3. CASE Down
  BY <1>3, CallStack DEF Goes, Down
<1>4. CASE Thrown
  <2>1. /\ Depths' = Depths /\ root' = root /\ \A k : Here(k)' = Here(k)
    BY <1>4 DEF Thrown, Goes, Depths, Here
  <2> QED BY <1>4, <2>1 DEF StackInv, Thrown
<1>5. CASE Opened
  BY <1>5, EnterStack DEF Goes, Opened
<1> QED BY <1>1, <1>2, <1>3, <1>4, <1>5 DEF Goes

\* At most one thing is written in a step.
Wrote(w) == out' = Append(out, w)

LEMMA WrittenIs ==
  ASSUME TypeOK, NEW w, Wrote(w)
  PROVE  /\ IsSeq(out')
         /\ Len(out) \in Nat /\ Len(out') = Len(out) + 1
         /\ DOMAIN out = 1..Len(out) /\ DOMAIN out' = 1..Len(out) + 1
         /\ \A n \in DOMAIN out : out'[n] = out[n]
         /\ out'[Len(out) + 1] = w
         /\ \A n \in DOMAIN out' : n \in DOMAIN out \/ n = Len(out) + 1
<1>1. IsSeq(out)
  BY DEF TypeOK
<1>2. /\ IsSeq(Append(out, w)) /\ DOMAIN out = 1..Len(out) /\ Len(out) \in Nat
      /\ Len(Append(out, w)) = Len(out) + 1
      /\ DOMAIN Append(out, w) = 1..Len(out) + 1
      /\ \A n \in 1..Len(out) : Append(out, w)[n] = out[n]
      /\ Append(out, w)[Len(out) + 1] = w
  BY <1>1, OutAppended
<1>3. out' = Append(out, w)
  BY DEF Wrote
<1>4. \A n \in 1..Len(out) + 1 : n \in 1..Len(out) \/ n = Len(out) + 1
  BY <1>2
<1> HIDE DEF IsSeq
<1>5. IsSeq(out')
  BY <1>2, <1>3 DEF IsSeq
<1> QED BY <1>2, <1>3, <1>4, <1>5

LEMMA TypeKept ==
  ASSUME TypeOK, StackInv, Goes,
         out' = out \/ \E w : w.path \in Seq(Nat) /\ Wrote(w)
  PROVE  TypeOK'
<1> HIDE DEF FrameType
<1>1. status' \in {"running", "done", "raised"} /\ mode' \in Modes /\ root' \in Roots
      /\ stack' \in Seq(FrameType)
  BY StackKept DEF TypeOK, Goes
<1>2. IsSeq(out') /\ \A n \in DOMAIN out' : out'[n].path \in Seq(Nat)
  <2>1. CASE out' = out
    BY <2>1 DEF TypeOK, IsSeq
  <2>2. ASSUME NEW w, w.path \in Seq(Nat), Wrote(w)
        PROVE  IsSeq(out') /\ \A n \in DOMAIN out' : out'[n].path \in Seq(Nat)
    BY <2>2, WrittenIs DEF TypeOK
  <2> QED BY <2>1, <2>2
<1> QED BY <1>1, <1>2 DEF TypeOK, IsSeq

\* What the archive may write
GoodMember(w) ==
  w.kind = "f" =>
    /\ w.data.obj = w.obj
    /\ w.data.blocks = <<>> \/ Len(w.data.blocks) = Len(Blocks[w.obj])
    /\ w.marked <=> \/ Len(w.data.blocks) # Len(Blocks[w.obj])
                    \/ "zero" \in Range(w.data.blocks)

LEMMA MemberKept ==
  ASSUME TypeOK, MemberInv, mode' = mode,
         out' = out \/ \E w : (mode = "archive" => GoodMember(w)) /\ Wrote(w)
  PROVE  MemberInv'
<1>1. ASSUME mode = "archive" PROVE \A n \in DOMAIN out : GoodMember(out[n])
  BY <1>1, Zenon DEF MemberInv, MemberIsItsObject, MarkedIffZeroed, GoodMember
<1>2. ASSUME mode = "archive" PROVE \A n \in DOMAIN out' : GoodMember(out'[n])
  <2>1. CASE out' = out
    BY <1>1, <1>2, <2>1
  <2>2. ASSUME NEW w, GoodMember(w), Wrote(w)
        PROVE  \A n \in DOMAIN out' : GoodMember(out'[n])
    <3> HIDE DEF GoodMember
    <3> QED BY <1>1, <1>2, <2>2, WrittenIs
  <2> QED BY <1>2, <2>1, <2>2
<1> QED BY <1>2, Zenon DEF MemberInv, MemberIsItsObject, MarkedIffZeroed, GoodMember

\* No name of an object to skip leads to a path.
Clean(path) == \A p \in Places[root] : p.obj \in SkipObjs => ~ IsPrefix(p.path, path)

GoodPlace(w) ==
  /\ \E p \in Places[root] \union {Start(root)} :
       p.path = w.path /\ p.obj = w.obj /\ p.kind = w.kind
  /\ mode = "archive" => Clean(w.path)

LEMMA PathIsClean ==
  ASSUME TypeOK, StackInv, PlaceInv, InLoop, mode = "archive", Entry.obj \notin SkipObjs
  PROVE  Clean(Path)
<1> DEFINE L == Len(stack)
<1>1. /\ L \in 1..RecursionLimit /\ L \in 0..RecursionLimit /\ L \in Depths /\ Top = stack[L]
      /\ Path \in Seq(Nat) /\ Len(Path) = L /\ Item0 \in Reach(root)[L]
      /\ \A x \in 1..L - 1 : Path[x] = stack[L].path[x]
      /\ stack[L].path \in Seq(Nat) /\ Len(stack[L].path) = L - 1
  <2>1. /\ L \in 1..RecursionLimit /\ L \in 0..RecursionLimit /\ L \in Depths /\ Top = stack[L]
        /\ Path \in Seq(Nat) /\ Len(Path) = L /\ Item0 \in Reach(root)[L]
        /\ stack[L].path \in Seq(Nat) /\ Len(stack[L].path) = L - 1
        /\ Top.i \in 1..Size(Top.dir, Top.lost) /\ Path = KeyPath(L, Top.i)
    BY EntryIs, FramesAre
  <2> DEFINE m == Top.i
  <2>2. m \in 1..Size(stack[L].dir, stack[L].lost) /\ Path = KeyPath(L, m)
    BY <2>1
  <2> HIDE DEF m
  <2>3. \A x \in 1..L - 1 : KeyPath(L, m)[x] = stack[L].path[x]
    BY <2>1, <2>2, FramesAre
  <2> QED BY <2>1, <2>2, <2>3
<1>2. root \in Roots
  BY DEF TypeOK
<1>3. ASSUME NEW p \in Places[root], p.obj \in SkipObjs, IsPrefix(p.path, Path)
      PROVE  FALSE
  <2>1. PICK n \in 1..RecursionLimit : p \in Reach(root)[n]
    BY <1>2, PlacesAre
  <2>2. p \in Place /\ Len(p.path) = n /\ n \in 0..RecursionLimit
    BY <1>2, <2>1, LevelIsLength
  <2> DEFINE q == p.path
             t == Path
             u == stack[L].path
  <2>3. q \in Seq(Nat) /\ Len(q) = n /\ IsPrefix(q, t) /\ t \in Seq(Nat) /\ Len(t) = L
        /\ u \in Seq(Nat) /\ Len(u) = L - 1 /\ \A x \in 1..L - 1 : t[x] = u[x]
    BY <1>1, <1>3, <2>2 DEF Place
  <2>4. ~ IsPrefix(q, u)
    BY <1>1, <1>3 DEF PlaceInv
  <2>5. Item0.path = t /\ Item0.obj = Entry.obj
    BY DEF Item0
  <2> HIDE DEF q, t, u
  <2>6. n <= L /\ \A x \in 1..n : q[x] = t[x]
    BY <2>3, PrefixIs
  <2>7. CASE n = L
    <3>1. q = t
      BY <2>3, <2>6, <2>7, SeqEqual
    <3>2. p = Item0
      BY <1>1, <1>2, <2>1, <2>2, <2>5, <2>7, <3>1, PathDetermines DEF q
    <3> QED BY <1>3, <2>5, <3>2
  <2>8. CASE n # L
    <3>1. n <= L - 1 /\ \A x \in 1..n : q[x] = u[x]
      <4>1. n <= L - 1
        BY <1>1, <2>1, <2>6, <2>8
      <4>2. \A x \in 1..n : x \in 1..L - 1
        BY <1>1, <4>1
      <4> QED BY <2>3, <2>6, <4>1, <4>2
    <3> QED BY <2>3, <2>4, <3>1, PrefixIs
  <2> QED BY <2>7, <2>8
<1> QED BY <1>3 DEF Clean

LEMMA PlaceKept ==
  ASSUME TypeOK, StackInv, PlaceInv, Goes,
         out' = out \/ \E w : GoodPlace(w) /\ Wrote(w),
         Down /\ mode = "archive" => Clean(Path)
  PROVE  PlaceInv'
<1> HIDE DEF FrameType
<1>1. mode' = mode /\ root' = root
  BY DEF Goes
<1>2. \A n \in DOMAIN out : GoodPlace(out[n])
  BY DEF PlaceInv, PathsAreTrue, GoodPlace, Clean
<1>3. \A n \in DOMAIN out' : GoodPlace(out'[n])
  <2>1. CASE out' = out
    BY <1>2, <2>1
  <2>2. ASSUME NEW w, GoodPlace(w), Wrote(w)
        PROVE  \A n \in DOMAIN out' : GoodPlace(out'[n])
    <3> HIDE DEF GoodPlace
    <3> QED BY <1>2, <2>2, WrittenIs
  <2> QED BY <2>1, <2>2
<1>4. PathsAreTrue'
  BY <1>1, <1>3 DEF PathsAreTrue, GoodPlace, Clean
<1>5. ASSUME mode = "archive", NEW k \in Depths' PROVE Clean(stack'[k].path)
  <2>1. \A j \in Depths : Clean(stack[j].path)
    BY <1>5 DEF PlaceInv, Clean
  <2>2. Len(stack) \in Nat
    BY FramesAre
  <2>3. CASE Moved
    BY <2>1, <2>3 DEF Moved, NextKeyed, Depths
  <2>4. CASE Back
    BY <2>1, <2>2, <2>4 DEF Back, Returned, Depths
  <2>5. CASE Down
    <3>1. k \in Depths \/ k = Len(stack) + 1
      BY <2>2, <2>5 DEF Depths, Down, Called
    <3>2. k = Len(stack) + 1 => stack'[k].path = Path
      BY <2>5 DEF Down, Called, Frame
    <3>3. k \in Depths => stack'[k].path = stack[k].path
      BY <2>5 DEF Down, Called
    <3> QED BY <1>5, <2>1, <2>5, <3>1, <3>2, <3>3
  <2>6. CASE Thrown
    BY <2>1, <2>6 DEF Thrown, Depths
  <2>7. CASE Opened
    BY <2>1, <2>7 DEF Opened, Entered, Depths
  <2> QED BY <2>3, <2>4, <2>5, <2>6, <2>7 DEF Goes
<1> QED BY <1>1, <1>4, <1>5 DEF PlaceInv, Clean

\* When the walk comes out of a directory it is past the key that led there.
LEMMA BackIsPast ==
  ASSUME TypeOK, StackInv, Goes, Back, status' = "running"
  PROVE  Top'.i # 0
<1> HIDE DEF FrameType
<1> DEFINE L == Len(stack)
<1>1. L \in Nat /\ L \in Depths /\ L # 1 /\ L - 1 \in 1..L - 1
  <2>1. L \in Nat /\ stack # <<>>
    BY FramesAre DEF Goes, StackInv
  <2>2. L # 0
    BY <2>1, EmptySeq DEF TypeOK
  <2>3. L # 1
    BY DEF Back
  <2> HIDE DEF L
  <2>4. L \in 1..L /\ L - 1 \in 1..L - 1
    BY <2>1, <2>2, <2>3
  <2> QED BY <2>1, <2>3, <2>4 DEF Depths, L
<1>2. stack[L - 1].i - 1 \in 1..Size(stack[L - 1].dir, stack[L - 1].lost) /\ stack[L - 1].i \in Nat
  <2>1. L - 1 \in Depths
    BY <1>1 DEF Depths
  <2> QED BY <1>1, <2>1, FramesAre DEF StackInv
<1>3. Top' = stack[L - 1]
  BY <1>1 DEF Top, Back, Returned
<1> QED BY <1>2, <1>3

\* What a step may write: the entry it is at, or in an export the directory that
\* it cannot read
EntryWritten == InLoop /\ ~ Back /\ \E w : w.path = Path /\ Wrote(w)
WrittenTwice ==
  /\ Back /\ mode = "export" /\ Top.i = 0
  /\ \E w : w.path = Top.path /\ w.info = FALSE /\ Wrote(w)

LEMMA OrderKept ==
  ASSUME TypeOK, StackInv, OrderInv, Goes,
         \/ out' = out /\ ~(Down /\ mode = "export")
         \/ EntryWritten
         \/ WrittenTwice
  PROVE  OrderInv'
<1> HIDE DEF FrameType
<1> DEFINE L == Len(stack)
           N == Len(out)
<1>1. /\ status = "running" /\ mode' = mode /\ L \in Nat /\ stack # <<>> /\ L \in Depths
      /\ N \in Nat /\ DOMAIN out = 1..N
  <2>1. L \in Nat /\ status = "running" /\ stack # <<>> /\ mode' = mode
    BY FramesAre DEF Goes, StackInv
  <2>2. L # 0
    BY <2>1, EmptySeq DEF TypeOK
  <2>3. N \in Nat /\ DOMAIN out = 1..N
    BY OutAppended DEF TypeOK
  <2> QED BY <2>1, <2>2, <2>3 DEF Depths
<1>2. ASSUME NEW n \in DOMAIN out PROVE Precedes(out[n].path) /\ out[n].path \in Seq(Nat)
  BY <1>1 DEF OrderInv, Precedes, TypeOK
<1>3. ASSUME InLoop, NEW n \in DOMAIN out PROVE Before(out[n].path, Path)
  <2>1. Top.i \in ToCome(L) /\ Path = KeyPath(L, Top.i)
    BY <1>3, EntryIs
  <2> DEFINE m == Top.i
  <2> HIDE DEF m
  <2> QED BY <1>1, <1>2, <2>1 DEF Precedes
<1>4. ASSUME WrittenTwice
      PROVE  \/ L = 1 /\ N = 0
             \/ /\ N # 0 /\ out[N].path = Top.path
                /\ \A n \in 1..N - 1 : Before(out[n].path, Top.path)
  <2>1. \/ L = 1 /\ out = <<>>
        \/ /\ out # <<>> /\ out[N].path = Top.path
           /\ \A n \in 1..N - 1 : Before(out[n].path, Top.path)
    BY <1>1, <1>4 DEF WrittenTwice, OrderInv
  <2>2. out = <<>> <=> N = 0
    BY EmptySeq DEF TypeOK, IsSeq
  <2> QED BY <2>1, <2>2
<1>5. InWalkOrder'
  <2>1. CASE out' = out
    BY <1>1, <2>1 DEF OrderInv, InWalkOrder
  <2>2. CASE EntryWritten
    <3>1. PICK w : w.path = Path /\ Wrote(w)
      BY <2>2 DEF EntryWritten
    <3>2. /\ \A n \in DOMAIN out : out'[n] = out[n]
          /\ out'[N + 1] = w
          /\ \A n \in DOMAIN out' : n \in DOMAIN out \/ n = N + 1
      BY <3>1, WrittenIs
    <3>3. InLoop
      BY <2>2 DEF EntryWritten
    <3>4. ASSUME NEW i \in DOMAIN out', NEW j \in DOMAIN out', i < j
          PROVE  \/ Before(out'[i].path, out'[j].path)
                 \/ mode = "export" /\ j = i + 1 /\ out'[i].path = out'[j].path /\ ~ out'[j].info
      <4>1. CASE j \in DOMAIN out
        <5>1. i \in DOMAIN out
          BY <1>1, <3>2, <3>4, <4>1
        <5> QED BY <3>2, <3>4, <4>1, <5>1 DEF OrderInv, InWalkOrder
      <4>2. CASE j = N + 1
        <5>1. i \in DOMAIN out
          BY <1>1, <3>2, <3>4, <4>2
        <5>2. out'[j].path = Path /\ out'[i] = out[i]
          BY <3>1, <3>2, <4>2, <5>1
        <5> QED BY <1>3, <3>3, <5>1, <5>2
      <4> QED BY <3>2, <4>1, <4>2
    <3> QED BY <1>1, <3>4 DEF InWalkOrder
  <2>3. CASE WrittenTwice
    <3>1. PICK w : w.path = Top.path /\ w.info = FALSE /\ Wrote(w)
      BY <2>3 DEF WrittenTwice
    <3>2. /\ \A n \in DOMAIN out : out'[n] = out[n]
          /\ out'[N + 1] = w
          /\ \A n \in DOMAIN out' : n \in DOMAIN out \/ n = N + 1
      BY <3>1, WrittenIs
    <3>3. mode = "export"
      BY <2>3 DEF WrittenTwice
    <3>4. ASSUME NEW i \in DOMAIN out', NEW j \in DOMAIN out', i < j
          PROVE  \/ Before(out'[i].path, out'[j].path)
                 \/ mode = "export" /\ j = i + 1 /\ out'[i].path = out'[j].path /\ ~ out'[j].info
      <4>1. CASE j \in DOMAIN out
        <5>1. i \in DOMAIN out
          BY <1>1, <3>2, <3>4, <4>1
        <5> QED BY <3>2, <3>4, <4>1, <5>1 DEF OrderInv, InWalkOrder
      <4>2. CASE j = N + 1
        <5>1. i \in DOMAIN out /\ i \in 1..N
          BY <1>1, <3>2, <3>4, <4>2
        <5>2. out'[j].path = Top.path /\ out'[j].info = FALSE /\ out'[i] = out[i]
          BY <3>1, <3>2, <4>2, <5>1
        <5>3. N # 0 /\ out[N].path = Top.path /\ \A n \in 1..N - 1 : Before(out[n].path, Top.path)
          BY <1>1, <1>4, <2>3, <5>1
        <5>4. CASE i = N
          BY <3>3, <4>2, <5>2, <5>3, <5>4
        <5>5. CASE i # N
          <6>1. i \in 1..N - 1
            BY <1>1, <5>1, <5>5
          <6> QED BY <5>2, <5>3, <6>1
        <5> QED BY <5>4, <5>5
      <4> QED BY <3>2, <4>1, <4>2
    <3> QED BY <1>1, <3>4 DEF InWalkOrder
  <2> QED BY <2>1, <2>2, <2>3
<1>6. ASSUME status' = "running", NEW p, NEW n \in DOMAIN out', p = out'[n].path
      PROVE  Precedes(p)'
  <2>1. Moved \/ Opened \/ Back \/ Down
    BY <1>6 DEF Goes, Thrown
  <2>2. NextKeyed \/ Entered \/ Returned \/ (InLoop /\ Entry.kind = "d" /\ Called)
    BY <2>1 DEF Moved, Opened, Back, Down
  <2>3. ASSUME NEW o \in DOMAIN out, p = out[o].path PROVE Precedes(p)'
    <3>1. Precedes(p) /\ p \in Seq(Nat)
      BY <1>2, <2>3
    <3> QED BY <1>1, <2>2, <3>1, StaysBefore
  <2>4. CASE out' = out
    BY <1>6, <2>3, <2>4
  <2>5. CASE EntryWritten
    <3>1. PICK w : w.path = Path /\ Wrote(w)
      BY <2>5 DEF EntryWritten
    <3>2. (n \in DOMAIN out /\ out'[n] = out[n]) \/ out'[n] = w
      BY <1>6, <3>1, WrittenIs
    <3>3. InLoop /\ (NextKeyed \/ (Entry.kind = "d" /\ Called))
      <4>1. InLoop => ~ Opened
        BY DEF InLoop, Opened, Entered
      <4> QED BY <2>1, <2>5, <4>1 DEF EntryWritten, Moved, Down
    <3>4. p = Path => Precedes(p)'
      BY <3>3, EntryPrecedes
    <3> QED BY <1>6, <2>3, <3>1, <3>2, <3>4
  <2>6. CASE WrittenTwice
    <3>1. PICK w : w.path = Top.path /\ Wrote(w)
      BY <2>6 DEF WrittenTwice
    <3>2. (n \in DOMAIN out /\ out'[n] = out[n]) \/ out'[n] = w
      BY <1>6, <3>1, WrittenIs
    <3>3. L # 1
      BY <1>6, <2>6 DEF WrittenTwice, Back
    <3>4. N \in DOMAIN out /\ out[N].path = Top.path
      BY <1>1, <1>4, <2>6, <3>3
    <3>5. p = Top.path => Precedes(p)'
      BY <2>3, <3>4
    <3> QED BY <1>6, <2>3, <3>1, <3>2, <3>5
  <2> QED BY <2>4, <2>5, <2>6
<1>7. ASSUME status' = "running", mode = "export", Top'.i = 0
      PROVE  /\ out' # <<>>
             /\ out'[Len(out')].path = Top'.path
             /\ \A n \in 1..Len(out') - 1 : Before(out'[n].path, Top'.path)
  <2>1. ~ Moved
    <3>1. SUFFICES ASSUME Moved PROVE FALSE
      OBVIOUS
    <3>2. stack'[L].i = stack[L].i + 1 /\ Len(stack') = L /\ stack[L].i \in Nat
      BY <1>1, <3>1, FramesAre DEF Moved, NextKeyed
    <3> QED BY <1>7, <3>2 DEF Top
  <2>10. ~ Opened
    BY <1>7 DEF Opened, Entered, Top
  <2>2. Down
    BY <1>7, <2>1, <2>10, BackIsPast DEF Goes, Thrown
  <2>3. EntryWritten
    BY <1>7, <2>2, <1>1 DEF WrittenTwice, Back, Down, Returned, Called
  <2>4. PICK w : w.path = Path /\ Wrote(w)
    BY <2>3 DEF EntryWritten
  <2>5. /\ Len(out') = N + 1
        /\ \A n \in DOMAIN out : out'[n] = out[n]
        /\ out'[N + 1] = w
    BY <2>4, WrittenIs
  <2>6. Top'.path = Path
    BY <2>2 DEF Down, Called, Top, Frame
  <2>7. \A n \in 1..N : Before(out'[n].path, Path)
    BY <1>1, <1>3, <2>2, <2>5 DEF Down
  <2>8. out' # <<>>
    BY <1>1, <2>5
  <2>9. N + 1 - 1 = N
    BY <1>1
  <2> QED BY <2>4, <2>5, <2>6, <2>7, <2>8, <2>9
<1> QED BY <1>1, <1>5, <1>6, <1>7 DEF OrderInv, Precedes

-----------------------------------------------------------------------------
\* What is neither written nor given up is to come.

Remaining(p) == \E k \in Depths : \E m \in ToCome(k) : IsPrefix(KeyPath(k, m), p.path)

LEMMA SettledKept ==
  ASSUME TypeOK, mode' = mode, left \subseteq left', missed \subseteq missed',
         out' = out \/ \E w : Wrote(w), NEW p, Settled(p)
  PROVE  Settled(p)'
<1>1. \A n \in DOMAIN out : n \in DOMAIN out' /\ out'[n] = out[n]
  <2>1. CASE out' = out
    BY <2>1
  <2>2. ASSUME NEW w, Wrote(w)
        PROVE  \A n \in DOMAIN out : n \in DOMAIN out' /\ out'[n] = out[n]
    BY <2>2, WrittenIs
  <2> QED BY <2>1, <2>2
<1>2. BehindMissed(p.path) => BehindMissed(p.path)'
  BY DEF BehindMissed
<1> QED BY <1>1, <1>2 DEF Settled

\* What is below the entry the walk is at
LEMMA AtEntry ==
  ASSUME TypeOK, StackInv, InLoop, NEW p \in Places[root], IsPrefix(Path, p.path)
  PROVE  \/ p = Item0
         \/ /\ Entry.kind = "d" /\ Entry.obj \in DOMAIN Entries
            /\ \E m \in 1..Size(Entry.obj, {}) : IsPrefix(Append(Path, Keys[Entry.obj][{}][m]), p.path)
            /\ Len(p.path) > Len(stack)
<1> DEFINE L == Len(stack)
           c == Item0
<1>1. /\ root \in Roots /\ L \in 0..RecursionLimit /\ c \in Reach(root)[L]
      /\ c.path = Path /\ c.kind = Entry.kind /\ c.obj = Entry.obj
      /\ Path \in Seq(Nat) /\ Len(Path) = L
  BY EntryIs, FramesAre DEF TypeOK, Item0
<1> HIDE DEF c
<1>2. CASE p = c
  BY <1>2 DEF c
<1>3. CASE p # c
  <2>1. /\ c.kind = "d" /\ c.obj \in DOMAIN Entries
        /\ \E m \in 1..Size(c.obj, {}) : IsPrefix(Append(c.path, Keys[c.obj][{}][m]), p.path)
    <3>1. IsPrefix(c.path, p.path)
      BY <1>1
    <3> HIDE DEF L
    <3> QED BY <1>1, <1>3, <3>1, PlacesBelow
  <2>2. PICK m \in 1..Size(Entry.obj, {}) : IsPrefix(Append(Path, Keys[Entry.obj][{}][m]), p.path)
    BY <1>1, <2>1
  <2>3. p.path \in Seq(Nat)
    <3>1. PICK n \in 1..RecursionLimit : p \in Reach(root)[n]
      BY <1>1, PlacesAre
    <3>2. n \in 0..RecursionLimit
      OBVIOUS
    <3>3. p \in Place
      BY <1>1, <3>1, <3>2, LevelIsLength
    <3> QED BY <3>3 DEF Place
  <2> DEFINE s == Path
             x == Keys[Entry.obj][{}][m]
             t == Append(s, x)
             q == p.path
  <2>4. s \in Seq(Nat) /\ x \in Nat /\ Len(s) = L
    BY <1>1, <2>1, KeysSorted
  <2>5. q \in Seq(Nat) /\ IsPrefix(t, q)
    BY <2>2, <2>3
  <2> HIDE DEF s, x, q
  <2>6. t \in Seq(Nat) /\ Len(t) = L + 1
    BY <2>4, Appended
  <2> HIDE DEF t
  <2>7. L + 1 <= Len(q)
    BY <2>5, <2>6, PrefixIs
  <2>8. Len(q) > L
    BY <1>1, <2>5, <2>7
  <2> QED BY <1>1, <2>1, <2>2, <2>8 DEF q
<1> QED BY <1>2, <1>3

LEMMA RemainsMoved ==
  ASSUME TypeOK, StackInv, status = "running", Moved, NEW p, Remaining(p)
  PROVE  Remaining(p)' \/ (InLoop /\ IsPrefix(Path, p.path))
<1>0. PICK k \in Depths : \E m \in ToCome(k) : IsPrefix(KeyPath(k, m), p.path)
  BY DEF Remaining
<1>1. PICK m \in ToCome(k) : IsPrefix(KeyPath(k, m), p.path)
  BY <1>0
<1>2. Depths' = Depths
  BY DEF Depths, Moved, NextKeyed
<1>3. CASE m \in ToCome(k)'
  <2>1. KeyPath(k, m)' = KeyPath(k, m)
    BY ComeKeyed DEF Moved
  <2>2. IsPrefix(KeyPath(k, m)', p.path)
    BY <1>1, <2>1
  <2>3. \E j \in Depths' : \E i \in ToCome(j)' : IsPrefix(KeyPath(j, i)', p.path)
    BY <1>2, <1>3, <2>2
  <2> QED BY <2>3 DEF Remaining, IsPrefix
<1>4. CASE k = Len(stack) /\ m = Top.i
  <2>1. m \in 1..Size(stack[k].dir, stack[k].lost) /\ Top = stack[k]
    BY <1>4 DEF ToCome, Top
  <2>2. InLoop
    BY <1>4, <2>1 DEF InLoop, Size
  <2>3. Path = KeyPath(k, m)
    BY <1>4, <2>2, EntryIs
  <2> QED BY <1>1, <2>2, <2>3
<1> QED BY <1>3, <1>4, ComeKeyed DEF Moved

\* When a directory is read, what is below a name that is not in the dictionary
\* is behind a block that was not read.
LEMMA RemainsOpened ==
  ASSUME TypeOK, StackInv, Opened, NEW p \in Places[root], Remaining(p)
  PROVE  Remaining(p)' \/ BehindMissed(p.path)'
<1>0. PICK k \in Depths : \E m \in ToCome(k) : IsPrefix(KeyPath(k, m), p.path)
  BY DEF Remaining
<1>1. PICK m \in ToCome(k) : IsPrefix(KeyPath(k, m), p.path)
  BY <1>0
<1>2. Depths' = Depths /\ Entered /\ stack # <<>>
  BY DEF Depths, Opened, Entered
<1>3. ASSUME \E n \in ToCome(k)' : KeyPath(k, n)' = KeyPath(k, m) PROVE Remaining(p)'
  <2>1. PICK n \in ToCome(k)' : KeyPath(k, n)' = KeyPath(k, m)
    BY <1>3
  <2>2. IsPrefix(KeyPath(k, n)', p.path)
    BY <1>1, <2>1
  <2>3. \E j \in Depths' : \E i \in ToCome(j)' : IsPrefix(KeyPath(j, i)', p.path)
    BY <1>2, <2>1, <2>2
  <2> QED BY <2>3 DEF Remaining, IsPrefix
<1>4. CASE k # Len(stack)
  <2>1. ToCome(k)' = ToCome(k) /\ KeyPath(k, m)' = KeyPath(k, m)
    BY <1>2, <1>4, ComeEntered
  <2> QED BY <1>3, <2>1
<1>5. CASE k = Len(stack) /\ Leaf[stack[k].dir][KeyPath(k, m)[k]] \in stack'[k].lost
  <2> DEFINE s == stack[k].path
             t == KeyPath(k, m)
             q == p.path
             l == Leaf[stack[k].dir][t[k]]
             r == [path |-> s, dir |-> stack[k].dir, leaf |-> l]
  <2>1. Top = stack[k] /\ m \in 1..Size(stack[k].dir, stack[k].lost)
    BY <1>5 DEF Top, ToCome
  <2>0. \A y \in stack'[Len(stack)].lost :
          [path |-> Top.path, dir |-> Top.dir, leaf |-> y] \in missed'
    BY DEF Opened
  <2>2. r \in missed'
    <3>1. l \in stack'[Len(stack)].lost
      BY <1>5
    <3> HIDE DEF l
    <3> QED BY <2>0, <2>1, <3>1
  <2>3. /\ k \in Nat /\ s \in Seq(Nat) /\ Len(s) = k - 1 /\ IsPrefix(s, t)
        /\ t \in Seq(Nat) /\ Len(t) = k
    <3>1. /\ k \in 1..RecursionLimit
          /\ stack[k].path \in Seq(Nat) /\ Len(stack[k].path) = k - 1
      BY FramesAre
    <3>2. /\ KeyPath(k, m) \in Seq(Nat) /\ Len(KeyPath(k, m)) = k
          /\ IsPrefix(stack[k].path, KeyPath(k, m))
      BY <2>1, FramesAre
    <3>3. k \in Nat
      BY <3>1, ConstantsAssumption
    <3> QED BY <3>1, <3>2, <3>3, Zenon
  <2>4. q \in Seq(Nat) /\ IsPrefix(t, q)
    <3>1. PICK n \in 1..RecursionLimit : p \in Reach(root)[n]
      BY PlacesAre DEF TypeOK
    <3>2. n \in 0..RecursionLimit
      OBVIOUS
    <3>3. p \in Place
      BY <3>1, <3>2, LevelIsLength DEF TypeOK
    <3> QED BY <1>1, <3>3 DEF Place
  <2>5. r.path = s /\ r.leaf = l /\ r.dir = stack[k].dir
    OBVIOUS
  <2>6. l = Leaf[stack[k].dir][t[k]]
    OBVIOUS
  <2> HIDE DEF s, t, q, l, r
  <2>7. /\ Len(s) <= Len(t) /\ k <= Len(q) /\ Len(s) + 1 = k
        /\ \A x \in 1..Len(s) : s[x] = t[x]
        /\ \A x \in 1..k : t[x] = q[x]
    <3>1. Len(s) <= Len(t) /\ \A x \in 1..Len(s) : s[x] = t[x]
      BY <2>3, PrefixIs
    <3>2. Len(t) <= Len(q) /\ \A x \in 1..Len(t) : t[x] = q[x]
      BY <2>3, <2>4, PrefixIs
    <3>3. Len(s) + 1 = k /\ Len(t) = k
      BY <2>3
    <3> QED BY <3>1, <3>2, <3>3, Zenon
  <2>8. IsPrefix(s, q) /\ q[k] = t[k]
    <3>1. Len(s) <= Len(q) /\ \A x \in 1..Len(s) : s[x] = q[x]
      BY <2>3, <2>4, <2>7, LenProperties
    <3>2. k \in 1..k
      BY <2>3, <2>7, LenProperties
    <3> QED BY <2>3, <2>4, <2>7, <3>1, <3>2, PrefixIs
  <2>9. /\ r \in missed' /\ Len(r.path) + 1 = k /\ k <= Len(q) /\ IsPrefix(r.path, q)
        /\ Leaf[r.dir][q[k]] = r.leaf
    BY <2>2, <2>5, <2>6, <2>7, <2>8
  <2>10. BehindMissed(q)'
    BY <2>9 DEF BehindMissed
  <2> QED BY <2>10 DEF q
<1>6. CASE k = Len(stack) /\ ~ (Leaf[stack[k].dir][KeyPath(k, m)[k]] \in stack'[k].lost)
  <2>1. \E n \in ToCome(k)' : KeyPath(k, n)' = KeyPath(k, m)
    BY <1>2, <1>6, ComeEntered
  <2> QED BY <1>3, <2>1
<1> QED BY <1>4, <1>5, <1>6

LEMMA RemainsDown ==
  ASSUME TypeOK, StackInv, Down, NEW p \in Places[root], Remaining(p)
  PROVE  Remaining(p)' \/ p = Item0
<1>0. PICK k \in Depths : \E m \in ToCome(k) : IsPrefix(KeyPath(k, m), p.path)
  BY DEF Remaining
<1>1. PICK m \in ToCome(k) : IsPrefix(KeyPath(k, m), p.path)
  BY <1>0
<1>2. Depths' = 1..Len(stack) + 1 /\ Len(stack) \in Nat /\ InLoop /\ Called /\ stack # <<>>
  BY FramesAre DEF Depths, Down, Called, StackInv, InLoop
<1>3. Depths \subseteq Depths'
  BY <1>2 DEF Depths
<1>4. CASE m \in ToCome(k)'
  <2>1. KeyPath(k, m)' = KeyPath(k, m)
    BY <1>2, ComeKeyed
  <2>2. IsPrefix(KeyPath(k, m)', p.path)
    BY <1>1, <2>1
  <2>3. \E j \in Depths' : \E i \in ToCome(j)' : IsPrefix(KeyPath(j, i)', p.path)
    BY <1>3, <1>4, <2>2
  <2> QED BY <2>3 DEF Remaining, IsPrefix
<1>5. CASE k = Len(stack) /\ m = Top.i
  <2>1. IsPrefix(Path, p.path)
    BY <1>1, <1>2, <1>5, EntryIs
  <2>2. CASE p = Item0
    BY <2>2
  <2>3. CASE p # Item0
    <3>1. PICK i \in 1..Size(Entry.obj, {}) : IsPrefix(Append(Path, Keys[Entry.obj][{}][i]), p.path)
      BY <1>2, <2>1, <2>3, AtEntry
    <3>2. PICK j : j = Len(stack) + 1
      OBVIOUS
    <3>3. i \in ToCome(j)' /\ KeyPath(j, i)' = Append(Path, Keys[Entry.obj][{}][i])
      BY <1>2, <3>2, ComeCalled DEF Down
    <3>4. j \in Depths'
      BY <1>2, <3>2
    <3>5. \E j1 \in Depths' : \E i1 \in ToCome(j1)' : IsPrefix(KeyPath(j1, i1)', p.path)
      BY <3>1, <3>3, <3>4
    <3> QED BY <3>5 DEF Remaining, IsPrefix
  <2> QED BY <2>2, <2>3
<1> QED BY <1>2, <1>4, <1>5, ComeKeyed

LEMMA RemainsBack ==
  ASSUME TypeOK, StackInv, status = "running", Back, NEW p \in Places[root], Remaining(p)
  PROVE  Remaining(p)' \/ (Top.i <= Size(Top.dir, Top.lost) /\ IsPrefix(Top.path, p.path))
<1>0. PICK k \in Depths : \E m \in ToCome(k) : IsPrefix(KeyPath(k, m), p.path)
  BY DEF Remaining
<1>1. PICK m \in ToCome(k) : IsPrefix(KeyPath(k, m), p.path)
  BY <1>0
<1>2. Len(stack) \in Nat /\ Depths' = 1..Len(stack) - 1
  BY FramesAre DEF Depths, Back, Returned
<1>3. CASE k # Len(stack)
  <2>1. k \in 1..Len(stack) - 1
    BY <1>2, <1>3 DEF Depths
  <2>2. m \in ToCome(k)' /\ KeyPath(k, m)' = KeyPath(k, m)
    BY <2>1, ComeReturned DEF Back
  <2>3. \E j \in Depths' : \E i \in ToCome(j)' : IsPrefix(KeyPath(j, i)', p.path)
    BY <1>1, <1>2, <2>1, <2>2
  <2> QED BY <2>3 DEF Remaining, IsPrefix
<1>4. CASE k = Len(stack)
  <2>1. /\ m \in 1..Size(stack[k].dir, stack[k].lost) /\ m >= stack[k].i /\ Top = stack[k]
        /\ Size(stack[k].dir, stack[k].lost) \in Nat /\ stack[k].i \in Nat
    BY <1>4, FramesAre, KeysSorted DEF ToCome, Top
  <2>2. Top.i <= Size(Top.dir, Top.lost)
    BY <2>1
  <2> DEFINE s == stack[k].path
             t == KeyPath(k, m)
             q == p.path
  <2>3. s \in Seq(Nat) /\ t \in Seq(Nat) /\ IsPrefix(s, t)
    BY <2>1, FramesAre
  <2>4. q \in Seq(Nat) /\ IsPrefix(t, q)
    <3>1. PICK n \in 1..RecursionLimit : p \in Reach(root)[n]
      BY PlacesAre DEF TypeOK
    <3>2. n \in 0..RecursionLimit
      OBVIOUS
    <3>3. p \in Place
      BY <3>1, <3>2, LevelIsLength DEF TypeOK
    <3> QED BY <1>1, <3>3 DEF Place
  <2>5. Top.path = s
    BY <2>1
  <2> HIDE DEF s, t, q
  <2>6. /\ Len(s) \in Nat /\ Len(t) \in Nat /\ Len(q) \in Nat
        /\ Len(s) <= Len(t) /\ Len(t) <= Len(q)
        /\ \A x \in 1..Len(s) : s[x] = t[x]
        /\ \A x \in 1..Len(t) : t[x] = q[x]
    BY <2>3, <2>4, PrefixIs, LenProperties
  <2>7. Len(s) <= Len(q) /\ \A x \in 1..Len(s) : s[x] = q[x]
    BY <2>6
  <2>8. IsPrefix(s, q)
    BY <2>3, <2>4, <2>7, PrefixIs
  <2> QED BY <2>2, <2>5, <2>8 DEF q
<1> QED BY <1>3, <1>4

LEMMA LossKept ==
  ASSUME TypeOK, StackInv, LossInv, Goes, left \subseteq left', missed \subseteq missed',
         out' = out \/ \E w : Wrote(w),
         \A p \in Places[root] :
           /\ Moved /\ InLoop /\ IsPrefix(Path, p.path) => Settled(p)'
           /\ Down /\ p = Item0 => Settled(p)'
           /\ Back /\ Top.i <= Size(Top.dir, Top.lost) /\ IsPrefix(Top.path, p.path) => Settled(p)'
  PROVE  LossInv'
<1> HIDE DEF FrameType
<1>1. status = "running" /\ mode' = mode /\ root' = root
  BY DEF Goes
<1>2. ASSUME status' # "raised", NEW p \in Places[root]
      PROVE  Settled(p)' \/ Remaining(p)'
  <2>1. Settled(p) \/ Remaining(p)
    BY <1>1 DEF LossInv, Remaining
  <2>2. CASE Settled(p)
    BY <1>1, <2>2, SettledKept
  <2>3. CASE Remaining(p)
    <3>1. CASE Moved
      BY <1>1, <2>3, <3>1, RemainsMoved
    <3>2. CASE Down
      BY <2>3, <3>2, RemainsDown
    <3>3. CASE Back
      BY <1>1, <2>3, <3>3, RemainsBack
    <3>4. CASE Opened
      BY <2>3, <3>4, RemainsOpened DEF Settled
    <3> QED BY <1>2, <3>1, <3>2, <3>3, <3>4 DEF Goes, Thrown
  <2> QED BY <2>1, <2>2, <2>3
<1> QED BY <1>1, <1>2 DEF LossInv, Remaining

-----------------------------------------------------------------------------
\* The steps

LEMMA WrittenSettles ==
  ASSUME TypeOK, NEW w, Wrote(w), NEW p, w.path = p.path
  PROVE  Settled(p)'
<1>1. Len(out) + 1 \in DOMAIN out' /\ out'[Len(out) + 1] = w
  BY WrittenIs
<1> QED BY <1>1 DEF Settled

LEMMA GivenUpSettles ==
  ASSUME NEW b \in BOOLEAN, NEW q, GiveUp(q, b), NEW p, p.path = q \/ (b /\ IsPrefix(q, p.path))
  PROVE  left \subseteq left' /\ Settled(p)'
<1> DEFINE l == [path |-> q, below |-> b]
<1>1. left \subseteq left' /\ l \in left'
  BY DEF GiveUp
<1>2. l.path = q
  OBVIOUS
<1>3. b => l.below
  BY Zenon
<1> HIDE DEF l
<1>4. \E k \in left' : k.path = p.path \/ (k.below /\ IsPrefix(k.path, p.path))
  BY <1>1, <1>2, <1>3
<1> QED BY <1>1, <1>4 DEF Settled

\* What is written of the entry the walk is at is at its place.
LEMMA EntryIsPlaced ==
  ASSUME TypeOK, StackInv, PlaceInv, InLoop, NEW w,
         w.path = Path, w.obj = Entry.obj, w.kind = Entry.kind,
         mode = "archive" => Entry.obj \notin SkipObjs
  PROVE  GoodPlace(w) /\ w.path \in Seq(Nat)
<1>1. Item0 \in Places[root] /\ Path \in Seq(Nat)
  BY EntryIs
<1>2. mode = "archive" => Clean(Path)
  BY PathIsClean
<1>3. Item0.path = w.path /\ Item0.obj = w.obj /\ Item0.kind = w.kind
  BY DEF Item0
<1> HIDE DEF Item0
<1> QED BY <1>1, <1>2, <1>3 DEF GoodPlace, Clean

LEMMA InvKept ==
  ASSUME Inv, Goes, left \subseteq left', missed \subseteq missed',
         extract' = None \/ status' # "running",
         \/ out' = out
         \/ \E w : /\ w.path \in Seq(Nat) /\ GoodPlace(w) /\ Wrote(w)
                   /\ mode = "archive" => GoodMember(w),
         Down /\ mode = "archive" => Clean(Path),
         \/ out' = out /\ ~(Down /\ mode = "export")
         \/ EntryWritten
         \/ WrittenTwice,
         \A p \in Places[root] :
           /\ Moved /\ InLoop /\ IsPrefix(Path, p.path) => Settled(p)'
           /\ Down /\ p = Item0 => Settled(p)'
           /\ Back /\ Top.i <= Size(Top.dir, Top.lost) /\ IsPrefix(Top.path, p.path) => Settled(p)'
  PROVE  Inv'
<1> USE DEF Inv
<1> HIDE DEF Goes, GoodPlace, GoodMember, Wrote, Moved, Down, Back, Settled, Clean,
             EntryWritten, WrittenTwice, InLoop, Path, Item0, Size, Top
<1>1. TypeOK'
  BY TypeKept
<1>2. StackInv'
  BY StackKept
<1>3. MemberInv'
  <2>1. mode' = mode
    BY DEF Goes
  <2> QED BY <2>1, MemberKept
<1>4. PlaceInv'
  BY PlaceKept
<1>5. OrderInv'
  BY OrderKept
<1>6. LossInv'
  BY LossKept
<1>7. FileInv'
  BY DEF FileInv
<1> QED BY <1>1, <1>2, <1>3, <1>4, <1>5, <1>6, <1>7

\* Nothing is extracted outside of the archive's loop.
LEMMA NoExtract ==
  ASSUME FileInv, status = "running", ~ InLoop \/ mode # "archive"
  PROVE  extract = None
  BY DEF FileInv

\* A step does one of these things only.
LEMMA OneWay ==
  ASSUME TypeOK, StackInv, status = "running"
  PROVE  /\ ~ (Moved /\ Back) /\ ~ (Moved /\ Down) /\ ~ (Back /\ Down)
         /\ Thrown => ~ Moved /\ ~ Back /\ ~ Down
         /\ Opened => ~ Back /\ ~ Down
<1>1. Len(stack) \in Nat
  BY FramesAre
<1> QED BY <1>1 DEF Moved, Opened, Back, Down, Thrown, NextKeyed, Entered, Returned, Called

LEMMA Ways ==
  ASSUME TypeOK, StackInv, status = "running", mode' = mode, root' = root
  PROVE  /\ Continue => Moved /\ Goes
         /\ Return => Back /\ Goes
         /\ Raise => Thrown /\ Goes /\ out' = out /\ left' = left
         /\ InLoop /\ Entry.kind = "d" /\ Recurse => (Down \/ Thrown) /\ Goes
<1> HIDE DEF FrameType
<1>1. stack # <<>> /\ stack \in Seq(FrameType)
  BY DEF StackInv, TypeOK
<1>2. ASSUME Continue PROVE Moved /\ stack' \in Seq(FrameType)
  BY <1>1, <1>2, NextKeyIs DEF Continue, Moved
<1>3. ASSUME Return PROVE Back /\ stack' \in Seq(FrameType)
  <2>1. stack' \in Seq(FrameType) /\ Returned
    BY <1>1, <1>3, ReturnIs
  <2> QED BY <1>3, <2>1 DEF Return, Back
<1>4. ASSUME Raise PROVE Thrown /\ out' = out /\ left' = left
  BY <1>4 DEF Raise, Thrown
<1>5. ASSUME InLoop, Entry.kind = "d", Recurse
      PROVE  (Down \/ Thrown) /\ stack' \in Seq(FrameType)
  <2>1. \/ status' = "raised" /\ stack' = stack
        \/ /\ status' = status /\ Len(stack) < RecursionLimit
           /\ stack' \in Seq(FrameType) /\ Called
    BY <1>5, RecurseIs
  <2> QED BY <1>1, <1>5, <2>1 DEF Down, Thrown
<1> QED BY <1>1, <1>2, <1>3, <1>4, <1>5 DEF Goes, Thrown

LEMMA EnterStep ==
  ASSUME Inv, mode' = mode, root' = root, Enter
  PROVE  Inv'
<1>1. /\ TypeOK /\ StackInv /\ FileInv /\ status = "running" /\ Top.i = 0
      /\ out' = out /\ left' = left /\ status' = status /\ extract' = extract
  BY DEF Inv, Enter, Entering
<1>2. PICK lost \in SUBSET Range(Leaf[Top.dir]) :
        /\ stack' = [stack EXCEPT ![Len(stack)] = [@ EXCEPT !.i = 1, !.lost = lost]]
        /\ missed' = missed \union {[path |-> Top.path, dir |-> Top.dir, leaf |-> l] : l \in lost}
  BY DEF Enter
<1>3. stack # <<>>
  BY <1>1 DEF StackInv
<1>4. lost \in SUBSET Leaves
  <2>1. Top.dir \in DOMAIN Entries
    <3>1. Len(stack) \in Nat
      BY <1>1, FramesAre
    <3>2. Len(stack) # 0
      BY <1>1, <1>3, EmptySeq DEF TypeOK
    <3>3. Len(stack) \in Depths
      BY <3>1, <3>2 DEF Depths
    <3> QED BY <1>1, <3>3, FramesAre DEF Top
  <2>2. Leaf[Top.dir] \in [DOMAIN Entries[Top.dir] -> Leaves]
    BY <2>1
  <2>3. Range(Leaf[Top.dir]) \subseteq Leaves
    BY <2>2 DEF Range
  <2> QED BY <2>3
<1>5. stack' \in Seq(FrameType) /\ Entered /\ stack'[Len(stack)].lost = lost
  <2> HIDE DEF FrameType, Entered, Top
  <2> QED BY <1>1, <1>2, <1>3, <1>4, EnterIs
<1>6. Opened /\ Goes /\ missed \subseteq missed'
  <2> HIDE DEF FrameType, Entered, Top
  <2>1. Opened /\ missed \subseteq missed'
    BY <1>1, <1>2, <1>3, <1>5 DEF Opened
  <2> QED BY <1>1, <1>5, <2>1 DEF Goes
<1>7. ~ InLoop /\ ~ Down /\ ~ Back
  <2>1. ~ InLoop
    BY <1>1 DEF InLoop
  <2> QED BY <1>1, <1>6, <2>1, OneWay
<1>8. extract' = None
  BY <1>1, <1>7, NoExtract
<1> HIDE DEF Goes, Moved, Down, Back, InLoop
<1> QED BY <1>1, <1>6, <1>7, <1>8, InvKept

LEMMA LeaveStep ==
  ASSUME Inv, mode' = mode, root' = root, Leave
  PROVE  Inv'
<1>1. /\ TypeOK /\ StackInv /\ FileInv /\ status = "running" /\ out' = out /\ left' = left
      /\ missed' = missed /\ extract' = extract
  BY DEF Inv, Leave
<1>2. Back /\ Goes
  BY <1>1, Ways DEF Leave
<1>3. ~ Moved /\ ~ Down
  BY <1>1, <1>2, OneWay
<1>4. ~ (Top.i <= Size(Top.dir, Top.lost))
  <2>1. Len(stack) \in Depths /\ Top = stack[Len(stack)]
    <3>1. Len(stack) \in Nat /\ stack # <<>>
      BY <1>1, FramesAre DEF StackInv
    <3>2. Len(stack) # 0
      BY <1>1, <3>1, EmptySeq DEF TypeOK
    <3> QED BY <3>1, <3>2 DEF Depths, Top
  <2>2. Top.i \in Nat /\ Size(Top.dir, Top.lost) \in Nat
    BY <1>1, <2>1, FramesAre, KeysSorted
  <2> QED BY <2>2 DEF Leave, Size
<1>5. extract' = None
  <2>1. ~ InLoop
    BY <1>4 DEF InLoop, Size
  <2> QED BY <1>1, <2>1, NoExtract
<1> HIDE DEF Goes, Moved, Down, Back, InLoop
<1> QED BY <1>1, <1>2, <1>3, <1>4, <1>5, InvKept

\* The directory that cannot be read is at its place.
LEMMA TopIsPlaced ==
  ASSUME TypeOK, StackInv, PlaceInv, status = "running", mode # "archive", NEW w,
         w.path = Top.path, w.obj = Top.dir, w.kind = "d"
  PROVE  GoodPlace(w) /\ w.path \in Seq(Nat)
<1> DEFINE L == Len(stack)
<1>1. L \in Depths /\ Top = stack[L]
  <2>1. L \in Nat /\ stack # <<>>
    BY FramesAre DEF StackInv
  <2>2. L # 0
    BY <2>1, EmptySeq DEF TypeOK
  <2> QED BY <2>1, <2>2 DEF Depths, Top
<1>2. L \in 1..RecursionLimit /\ Top.path \in Seq(Nat) /\ Here(L) \in Reach(root)[L - 1]
  BY <1>1, FramesAre
<1>3. Here(L) \in Places[root] \union {Start(root)}
  <2>1. root \in Roots
    BY DEF TypeOK
  <2>2. CASE L = 1
    <3>1. L - 1 = 0
      BY <2>2
    <3> QED BY <1>2, <2>1, <3>1, ReachIs
  <2>3. CASE L # 1
    <3>1. L - 1 \in 1..RecursionLimit
      <4> HIDE DEF L
      <4>1. RecursionLimit \in Nat /\ L \in 1..RecursionLimit
        BY <1>2
      <4> QED BY <2>3, <4>1
    <3> QED BY <1>2, <2>1, <3>1, PlacesAre
  <2> QED BY <2>2, <2>3
<1>4. Here(L).path = w.path /\ Here(L).obj = w.obj /\ Here(L).kind = w.kind
  BY <1>1 DEF Here
<1> HIDE DEF Here
<1> QED BY <1>2, <1>3, <1>4 DEF GoodPlace

LEMMA EnterNothingStep ==
  ASSUME Inv, mode' = mode, root' = root, NEW readable \in BOOLEAN, EnterNothing(readable)
  PROVE  Inv'
<1> DEFINE w == [path |-> Top.path, obj |-> Top.dir, kind |-> "d", info |-> FALSE]
<1>1. /\ TypeOK /\ StackInv /\ PlaceInv /\ FileInv /\ status = "running" /\ Top.i = 0
      /\ GiveUp(Top.path, TRUE) /\ extract' = extract /\ missed' = missed
      /\ out' = out \/ (mode = "export" /\ out' = Append(out, w))
  BY DEF Inv, EnterNothing, Entering
<1>2. Back /\ Goes
  BY <1>1, Ways DEF EnterNothing
<1>3. ~ Moved /\ ~ Down
  BY <1>1, <1>2, OneWay
<1>4. left \subseteq left' /\ missed \subseteq missed' /\ extract' = None
  <2>1. ~ InLoop
    BY <1>1 DEF InLoop
  <2> QED BY <1>1, <2>1, NoExtract DEF GiveUp
<1>5. \A p : IsPrefix(Top.path, p.path) => Settled(p)'
  <2> HIDE DEF Settled, GiveUp, Top
  <2>1. TRUE \in BOOLEAN
    OBVIOUS
  <2> QED BY <1>1, <2>1, GivenUpSettles
<1>6. /\ w.path = Top.path /\ w.obj = Top.dir /\ w.kind = "d" /\ w.info = FALSE
  OBVIOUS
<1> HIDE DEF w
<1>7. \/ out' = out
      \/ mode = "export" /\ Wrote(w) /\ GoodPlace(w) /\ w.path \in Seq(Nat)
  <2>1. mode = "export" => GoodPlace(w) /\ w.path \in Seq(Nat)
    BY <1>1, <1>6, TopIsPlaced
  <2> QED BY <1>1, <2>1 DEF Wrote
<1>8. out' = out \/ WrittenTwice
  BY <1>1, <1>2, <1>6, <1>7 DEF WrittenTwice
<1> HIDE DEF Goes, Moved, Down, Back, InLoop, Settled, GoodPlace, GoodMember, Wrote
<1>9. \/ out' = out
      \/ \E v : /\ v.path \in Seq(Nat) /\ GoodPlace(v) /\ Wrote(v)
                /\ mode = "archive" => GoodMember(v)
  BY <1>7
<1> QED BY <1>3, <1>2, <1>4, <1>5, <1>8, <1>9, InvKept

LEMMA EnterRaisesStep ==
  ASSUME Inv, mode' = mode, root' = root, EnterRaises
  PROVE  Inv'
<1>1. /\ TypeOK /\ StackInv /\ FileInv /\ status = "running"
      /\ extract' = None /\ missed' = missed
  <2>1. /\ TypeOK /\ StackInv /\ FileInv /\ status = "running" /\ ~ InLoop
        /\ extract' = extract /\ missed' = missed
    BY DEF Inv, EnterRaises, Entering, InLoop
  <2> QED BY <2>1, NoExtract
<1>2. CASE mode = "traverse"
  <2>1. GiveUp(Top.path, TRUE) /\ out' = out /\ Back /\ Goes
    BY <1>1, <1>2, Ways DEF EnterRaises
  <2>2. ~ Moved /\ ~ Down
    BY <1>1, <2>1, OneWay
  <2>3. left \subseteq left'
    BY <2>1 DEF GiveUp
  <2>4. \A p : IsPrefix(Top.path, p.path) => Settled(p)'
    <3> HIDE DEF Settled, GiveUp, Top
    <3>1. TRUE \in BOOLEAN
      OBVIOUS
    <3> QED BY <2>1, <3>1, GivenUpSettles
  <2> HIDE DEF Goes, Moved, Down, Back, InLoop, Settled
  <2> QED BY <1>1, <2>1, <2>2, <2>3, <2>4, InvKept
<1>3. CASE mode # "traverse"
  <2>1. Thrown /\ Goes /\ out' = out /\ left' = left
    BY <1>1, <1>3, Ways DEF EnterRaises
  <2>2. ~ Moved /\ ~ Down /\ ~ Back
    BY <1>1, <2>1, OneWay
  <2> HIDE DEF Goes, Moved, Down, Back, InLoop, Settled
  <2> QED BY <1>1, <2>1, <2>2, InvKept
<1> QED BY <1>2, <1>3

LEMMA EntryRaisesStep ==
  ASSUME Inv, mode' = mode, root' = root, EntryRaises
  PROVE  Inv'
<1>1. /\ TypeOK /\ StackInv /\ status = "running"
      /\ status' # "running" /\ missed' = missed
  BY DEF Inv, EntryRaises, InLoop, Raise
<1>2. Thrown /\ Goes /\ out' = out /\ left' = left
  BY <1>1, Ways DEF EntryRaises
<1>3. ~ Moved /\ ~ Down /\ ~ Back
  BY <1>1, <1>2, OneWay
<1> HIDE DEF Goes, Moved, Down, Back, InLoop, Settled
<1> QED BY <1>1, <1>2, <1>3, InvKept

LEMMA ListStep ==
  ASSUME Inv, mode' = mode, root' = root, NEW info \in BOOLEAN, List(info)
  PROVE  Inv'
<1> DEFINE w == Item(info)
<1>0. FileInv /\ status = "running" /\ mode # "archive" /\ extract' = extract
  BY DEF Inv, List, InLoop
<1>1. /\ TypeOK /\ StackInv /\ PlaceInv /\ InLoop /\ status = "running" /\ mode # "archive"
      /\ left' = left /\ missed' = missed /\ extract' = None
      /\ Shown => out' = Append(out, w)
      /\ ~ Shown => out' = out
  BY <1>0, NoExtract DEF Inv, List, InLoop
<1>2. /\ GoesDown => (Down \/ Thrown) /\ Goes
      /\ ~ GoesDown => Moved /\ Goes
  <2>1. GoesDown => Entry.kind = "d" /\ Recurse
    BY DEF List, GoesDown
  <2>2. ~ GoesDown => Continue
    BY DEF List
  <2> QED BY <1>1, <2>1, <2>2, Ways
<1>3. ~ Back
  BY <1>1, <1>2, OneWay
<1>4. w.path = Path /\ w.obj = Entry.obj /\ w.kind = Entry.kind
  BY DEF Item
<1> HIDE DEF w
<1>5. GoodPlace(w) /\ w.path \in Seq(Nat)
  BY <1>1, <1>4, EntryIsPlaced
<1>6. CASE Shown
  <2>1. Wrote(w) /\ EntryWritten
    BY <1>1, <1>3, <1>4, <1>6 DEF Wrote, EntryWritten
  <2>2. ASSUME NEW p \in Places[root], p = Item0 PROVE Settled(p)'
    <3>1. w.path = p.path
      BY <1>4, <2>2 DEF Item0
    <3> QED BY <1>1, <2>1, <3>1, WrittenSettles
  <2>3. ASSUME Moved, NEW p \in Places[root], IsPrefix(Path, p.path), p # Item0
        PROVE  Settled(p)'
    <3>1. Entry.kind = "d" /\ Len(p.path) > Len(stack)
      BY <1>1, <2>3, AtEntry
    <3>2. ~ GoesDown
      BY <1>1, <1>2, <2>3, OneWay
    <3>3. mode = "traverse" /\ ~ (Depth - (Len(stack) - 1) > 0)
      BY <3>1, <3>2 DEF GoesDown
    <3>4. Len(p.path) > Depth + 1
      <4>1. Len(stack) \in Nat /\ Depth \in Nat
        BY <1>1, FramesAre
      <4>2. Len(p.path) \in Nat
        <5>1. PICK n \in 1..RecursionLimit : p \in Reach(root)[n]
          BY <1>1, PlacesAre DEF TypeOK
        <5>2. n \in 0..RecursionLimit
          OBVIOUS
        <5> QED BY <1>1, <5>1, <5>2, LevelIsLength DEF TypeOK
      <4> QED BY <3>1, <3>3, <4>1, <4>2
    <3> QED BY <3>3, <3>4 DEF Settled
  <2> HIDE DEF Goes, Moved, Down, Back, InLoop, Settled, GoodPlace, GoodMember, Wrote, Item0,
               EntryWritten
  <2>4. \E v : /\ v.path \in Seq(Nat) /\ GoodPlace(v) /\ Wrote(v)
               /\ mode = "archive" => GoodMember(v)
    BY <1>1, <1>5, <2>1
  <2> QED BY <1>1, <1>2, <1>3, <2>1, <2>2, <2>3, <2>4, InvKept
<1>7. CASE ~ Shown
  <2>1. out' = out /\ Moved /\ Goes /\ ~ Down
    <3>1. ~ GoesDown
      BY <1>7 DEF Shown, GoesDown
    <3> QED BY <1>1, <1>2, <1>7, <3>1, OneWay
  <2>2. ASSUME NEW p \in Places[root], IsPrefix(Path, p.path) PROVE Settled(p)'
    <3>1. p = Item0
      BY <1>1, <1>7, <2>2, AtEntry DEF Shown
    <3>2. mode \in {"traverse", "export"}
      BY <1>1 DEF TypeOK
    <3>3. mode = "export" /\ p.kind \notin {"d", "f", "l"}
      BY <1>7, <3>1, <3>2 DEF Shown, Item0
    <3> QED BY <3>3 DEF Settled
  <2> HIDE DEF Goes, Moved, Down, Back, InLoop, Settled, GoodPlace, GoodMember, Wrote, Item0,
               EntryWritten
  <2> QED BY <1>1, <1>3, <2>1, <2>2, InvKept
<1> QED BY <1>6, <1>7

LEMMA SkipStep ==
  ASSUME Inv, mode' = mode, root' = root, Skip
  PROVE  Inv'
<1>1. /\ TypeOK /\ StackInv /\ InLoop /\ status = "running"
      /\ out' = out /\ GiveUp(Path, TRUE) /\ missed' = missed /\ extract' = None
  BY DEF Inv, Skip, Archiving, InLoop
<1>2. Moved /\ Goes
  BY <1>1, Ways DEF Skip
<1>3. ~ Down /\ ~ Back
  BY <1>1, <1>2, OneWay
<1>4. left \subseteq left'
  BY <1>1 DEF GiveUp
<1>5. \A p : IsPrefix(Path, p.path) => Settled(p)'
  <2> HIDE DEF Settled, GiveUp, Path
  <2>1. TRUE \in BOOLEAN
    OBVIOUS
  <2> QED BY <1>1, <2>1, GivenUpSettles
<1> HIDE DEF Goes, Moved, Down, Back, InLoop, Settled
<1> QED BY <1>1, <1>2, <1>3, <1>4, <1>5, InvKept

\* The extraction of a file goes on: nothing else changes.
LEMMA ExtractKeeps ==
  ASSUME Inv, FileInv', UNCHANGED <<mode, root, status, stack, out, left, missed>>
  PROVE  Inv'
<1>1. TypeOK' /\ StackInv'
  BY DEF Inv, TypeOK, StackInv, Depths, Here
<1>2. MemberInv'
  BY Zenon DEF Inv, MemberInv, MemberIsItsObject, MarkedIffZeroed
<1>3. PlaceInv'
  BY DEF Inv, PlaceInv, PathsAreTrue, Depths
<1>4. OrderInv'
  BY DEF Inv, OrderInv, InWalkOrder, Depths, ToCome, KeyPath, Top
<1>5. LossInv'
  BY DEF Inv, LossInv, Settled, Depths, ToCome, KeyPath, BehindMissed
<1> QED BY <1>1, <1>2, <1>3, <1>4, <1>5 DEF Inv

\* The file that the walk is at
LEMMA FileIs ==
  ASSUME TypeOK, StackInv, InLoop, Entry.kind = "f"
  PROVE  /\ Entry.obj \in DOMAIN Blocks /\ Blocks[Entry.obj] \in Seq({"data", "hole"})
         /\ Len(Blocks[Entry.obj]) \in Nat
         /\ DOMAIN Blocks[Entry.obj] = 1..Len(Blocks[Entry.obj])
<1>1. Top.dir \in DOMAIN Entries /\ Name \in DOMAIN Entries[Top.dir]
  BY EntryIs
<1>2. Entry.obj \in DOMAIN Blocks
  BY <1>1 DEF Entry
<1>3. Blocks[Entry.obj] \in Seq({"data", "hole"})
  BY <1>2
<1> QED BY <1>2, <1>3

LEMMA ExtractBeginsStep ==
  ASSUME Inv, mode' = mode, root' = root, ExtractBegins
  PROVE  Inv'
<1> DEFINE B == Blocks[Entry.obj]
<1>1. /\ TypeOK /\ StackInv /\ InLoop /\ mode = "archive" /\ Wanted /\ Entry.kind = "f"
      /\ UNCHANGED <<status, stack, out, left, missed>>
      /\ tmp' = [obj |-> Entry.obj, blocks |-> <<>>]
      /\ extract' = IF Range(B) = {"hole"} THEN [n |-> Len(B) + 1, corrupted |-> TRUE]
                                         ELSE [n |-> 1, corrupted |-> FALSE]
  BY DEF Inv, ExtractBegins, Archiving, Written
<1>2. Entry' = Entry /\ InLoop' /\ Wanted'
  BY <1>1 DEF Entry, Name, Top, InLoop, Wanted
<1>3. Len(B) \in Nat /\ DOMAIN B = 1..Len(B)
  BY <1>1, FileIs
<1>4. tmp'.obj = Entry.obj /\ tmp'.blocks = <<>>
  BY <1>1
<1>5. tmp' = [obj |-> Entry.obj, blocks |-> tmp'.blocks]
  BY <1>1, <1>4
<1>6. CASE Range(B) = {"hole"}
  <2>1. extract'.n = Len(B) + 1 /\ extract'.corrupted = TRUE
    BY <1>1, <1>6
  <2>2. Len(B) > 0
    <3>1. Range(B) # {}
      BY <1>6
    <3>2. DOMAIN B # {}
      BY <3>1 DEF Range
    <3> HIDE DEF B
    <3> QED BY <1>3, <3>2
  <2>3. FileInv'
    BY <1>1, <1>2, <1>4, <1>5, <2>1, <2>2 DEF FileInv
  <2> QED BY <1>1, <2>3, ExtractKeeps
<1>7. CASE Range(B) # {"hole"}
  <2>1. extract'.n = 1 /\ extract'.corrupted = FALSE
    BY <1>1, <1>7
  <2> DEFINE e == <<>>
  <2>2. e \in Seq({"good", "wrong", "zero"}) /\ Len(e) = 0 /\ "zero" \notin Range(e)
    BY DEF Range
  <2>3. tmp'.blocks = e
    BY <1>4
  <2> HIDE DEF e
  <2>4. /\ tmp'.blocks \in Seq({"good", "wrong", "zero"})
        /\ extract'.n = Len(tmp'.blocks) + 1 /\ extract'.n <= Len(B) + 1
        /\ extract'.corrupted \in BOOLEAN
        /\ extract'.corrupted <=> "zero" \in Range(tmp'.blocks)
    <3>1. extract'.corrupted \in BOOLEAN /\ (extract'.corrupted <=> "zero" \in Range(tmp'.blocks))
      BY <2>1, <2>2, <2>3, Zenon
    <3>2. tmp'.blocks \in Seq({"good", "wrong", "zero"}) /\ Len(tmp'.blocks) = 0
      BY <2>2, <2>3, Zenon
    <3>3. extract'.n = Len(tmp'.blocks) + 1 /\ extract'.n <= Len(B) + 1
      <4> HIDE DEF B
      <4> QED BY <1>3, <2>1, <3>2
    <3> QED BY <3>1, <3>2, <3>3
  <2>5. FileInv'
    BY <1>1, <1>2, <1>5, <2>4 DEF FileInv
  <2> QED BY <1>1, <2>5, ExtractKeeps
<1> QED BY <1>6, <1>7

\* A temporary file that a block is written to.
LEMMA Extended ==
  ASSUME NEW t, NEW o, NEW b, NEW r, t = [obj |-> o, blocks |-> b]
  PROVE  [t EXCEPT !.blocks = Append(@, r)] = [obj |-> o, blocks |-> Append(b, r)]
<1> DEFINE c == Append(b, r)
<1>1. t.blocks = b
  OBVIOUS
<1>2. [t EXCEPT !.blocks = c] = [obj |-> o, blocks |-> c]
  <2> HIDE DEF c
  <2> QED OBVIOUS
<1> QED BY <1>1, <1>2, Zenon

LEMMA ExtractBlockStep ==
  ASSUME Inv, mode' = mode, root' = root, NEW r \in {"good", "wrong", "zero"}, ExtractBlock(r)
  PROVE  Inv'
<1> DEFINE B == Blocks[Entry.obj]
           R == {"good", "wrong", "zero"}
           b == tmp.blocks
           c == Append(b, r)
<1>1. /\ TypeOK /\ StackInv /\ FileInv /\ InLoop /\ status = "running" /\ extract # None
      /\ extract.n \in DOMAIN B
      /\ UNCHANGED <<status, stack, out, left, missed>>
      /\ tmp' = [tmp EXCEPT !.blocks = Append(@, r)]
      /\ extract' = [n |-> extract.n + 1, corrupted |-> Corrupted(r)]
  BY DEF Inv, ExtractBlock, Extracting, InLoop
<1>2. /\ mode = "archive" /\ Wanted /\ Entry.kind = "f"
      /\ tmp = [obj |-> Entry.obj, blocks |-> b]
      /\ extract.corrupted \in BOOLEAN
  BY <1>1, Zenon DEF FileInv
<1>3. Len(B) \in Nat /\ DOMAIN B = 1..Len(B)
  BY <1>1, <1>2, FileIs
<1>4. /\ b \in Seq(R) /\ extract.n = Len(b) + 1
      /\ extract.corrupted <=> "zero" \in Range(b)
  <2>1. extract.n # Len(B) + 1
    <3> HIDE DEF B
    <3> QED BY <1>1, <1>3
  <2> QED BY <1>1, <2>1 DEF FileInv
<1>5. Entry' = Entry /\ InLoop' /\ Wanted'
  <2>1. stack' = stack /\ status' = status
    BY <1>1
  <2>2. Entry' = Entry
    BY <2>1 DEF Entry, Name, Top
  <2>3. InLoop'
    BY <1>1, <2>1 DEF InLoop, Top
  <2>4. Wanted'
    BY <1>2, <2>2 DEF Wanted
  <2> QED BY <2>2, <2>3, <2>4
<1>6. /\ tmp'.blocks = c
      /\ tmp' = [obj |-> Entry.obj, blocks |-> tmp'.blocks]
  <2>1. [tmp EXCEPT !.blocks = Append(@, r)] = [obj |-> Entry.obj, blocks |-> c]
    <3> HIDE DEF b
    <3> QED BY <1>2, Extended
  <2>2. tmp' = [obj |-> Entry.obj, blocks |-> c]
    BY <1>1, <2>1, Zenon
  <2> QED BY <2>2
<1>7. extract'.n = extract.n + 1 /\ (extract'.corrupted <=> extract.corrupted \/ r = "zero")
      /\ extract'.corrupted \in BOOLEAN
  <2>1. extract'.n = extract.n + 1 /\ extract'.corrupted = (extract.corrupted \/ r = "zero")
    BY <1>1 DEF Corrupted
  <2> QED BY <2>1
<1> HIDE DEF b, R
<1>8. r \in R
  BY DEF R
<1>9. /\ c \in Seq(R) /\ Len(c) = Len(b) + 1 /\ Len(b) \in Nat
      /\ \A i \in 1..Len(b) : c[i] = b[i]
      /\ c[Len(b) + 1] = r
      /\ DOMAIN c = 1..Len(b) + 1 /\ DOMAIN b = 1..Len(b)
  BY <1>4, <1>8
<1> HIDE DEF c
<1>10. "zero" \in Range(c) <=> "zero" \in Range(b) \/ r = "zero"
  <2>1. \A i \in DOMAIN c : i \in DOMAIN b \/ i = Len(b) + 1
    BY <1>9
  <2>2. \A i \in DOMAIN b : i \in DOMAIN c /\ c[i] = b[i]
    BY <1>9
  <2>3. Len(b) + 1 \in DOMAIN c
    BY <1>9
  <2>4. Range(c) = Range(b) \union {r}
    BY <1>9, <2>1, <2>2, <2>3 DEF Range
  <2> QED BY <2>4
<1>11. extract'.n <= Len(B) + 1 /\ extract'.n = Len(c) + 1
  <2> HIDE DEF B
  <2> QED BY <1>1, <1>3, <1>4, <1>7, <1>9
<1>12. FileInv'
  <2>1. tmp'.blocks \in Seq({"good", "wrong", "zero"})
    BY <1>6, <1>9 DEF R
  <2>2. extract'.corrupted <=> "zero" \in Range(tmp'.blocks)
    BY <1>4, <1>6, <1>7, <1>10
  <2>3. extract'.n = Len(tmp'.blocks) + 1
    BY <1>6, <1>11
  <2> QED BY <1>1, <1>2, <1>5, <1>6, <1>7, <1>11, <2>1, <2>2, <2>3 DEF FileInv
<1> QED BY <1>1, <1>12, ExtractKeeps

\* What comes out of the loop is as long as the file, or nothing, and its flag
\* is true of it.
LEMMA ExtractedIs ==
  ASSUME TypeOK, StackInv, FileInv, InLoop, extract # None, extract.n > Len(Blocks[Entry.obj])
  PROVE  /\ mode = "archive" /\ Wanted /\ Entry.kind = "f"
         /\ tmp.obj = Entry.obj
         /\ tmp.blocks = <<>> \/ Len(tmp.blocks) = Len(Blocks[Entry.obj])
         /\ extract.corrupted <=> \/ Len(tmp.blocks) # Len(Blocks[Entry.obj])
                                  \/ "zero" \in Range(tmp.blocks)
<1> DEFINE B == Blocks[Entry.obj]
           b == tmp.blocks
<1>1. status = "running"
  BY DEF InLoop
<1>2. /\ mode = "archive" /\ Wanted /\ Entry.kind = "f"
      /\ tmp = [obj |-> Entry.obj, blocks |-> b]
  BY <1>1, Zenon DEF FileInv
<1>3. tmp.obj = Entry.obj
  BY <1>2
<1>4. Len(B) \in Nat
  BY <1>2, FileIs
<1>5. CASE b = <<>> /\ extract.corrupted /\ Len(B) > 0
  <2>1. Len(b) = 0
    BY <1>5
  <2>2. Len(b) # Len(B)
    <3> HIDE DEF b, B
    <3> QED BY <1>4, <1>5, <2>1
  <2> QED BY <1>2, <1>3, <1>5, <2>2
<1>6. CASE /\ b \in Seq({"good", "wrong", "zero"}) /\ extract.n = Len(b) + 1
           /\ extract.n <= Len(B) + 1
           /\ extract.corrupted <=> "zero" \in Range(b)
  <2>1. Len(b) = Len(B)
    <3>1. Len(b) \in Nat /\ extract.n > Len(B)
      BY <1>6
    <3> HIDE DEF b, B
    <3> QED BY <1>4, <1>6, <3>1
  <2> QED BY <1>2, <1>3, <1>6, <2>1
<1> QED BY <1>1, <1>5, <1>6 DEF FileInv

LEMMA ArchiveFileStep ==
  ASSUME Inv, mode' = mode, root' = root, NEW added \in BOOLEAN, ArchiveFile(added)
  PROVE  Inv'
<1>1. IF added
        THEN /\ Write([path |-> Path, obj |-> Entry.obj, kind |-> "f", info |-> TRUE,
                       data |-> tmp, marked |-> extract.corrupted])
             /\ UNCHANGED left
        ELSE GiveUp(Path, FALSE) /\ UNCHANGED out
  BY DEF ArchiveFile
<1>2. /\ TypeOK /\ StackInv /\ PlaceInv /\ InLoop /\ status = "running" /\ mode = "archive"
      /\ Entry.kind = "f" /\ Entry.obj \notin SkipObjs
      /\ extract' = None /\ missed' = missed
      /\ tmp.obj = Entry.obj
      /\ tmp.blocks = <<>> \/ Len(tmp.blocks) = Len(Blocks[Entry.obj])
      /\ extract.corrupted <=> \/ Len(tmp.blocks) # Len(Blocks[Entry.obj])
                               \/ "zero" \in Range(tmp.blocks)
  <2>1. /\ TypeOK /\ StackInv /\ PlaceInv /\ FileInv /\ InLoop /\ status = "running"
        /\ extract # None /\ extract.n > Len(Blocks[Entry.obj])
        /\ extract' = None /\ missed' = missed
    BY DEF Inv, ArchiveFile, Extracting, InLoop
  <2>2. /\ mode = "archive" /\ Wanted /\ Entry.kind = "f"
        /\ tmp.obj = Entry.obj
        /\ tmp.blocks = <<>> \/ Len(tmp.blocks) = Len(Blocks[Entry.obj])
        /\ extract.corrupted <=> \/ Len(tmp.blocks) # Len(Blocks[Entry.obj])
                                 \/ "zero" \in Range(tmp.blocks)
    BY <2>1, ExtractedIs
  <2> QED BY <2>1, <2>2 DEF Wanted
<1>3. Moved /\ Goes
  BY <1>2, Ways DEF ArchiveFile
<1>4. ~ Down /\ ~ Back
  BY <1>2, <1>3, OneWay
<1>5. \A p \in Places[root] : IsPrefix(Path, p.path) => p = Item0 /\ p.path = Path
  BY <1>2, AtEntry DEF Item0
<1>6. CASE added
  <2> DEFINE w == [path |-> Path, obj |-> Entry.obj, kind |-> "f", info |-> TRUE,
                   data |-> tmp, marked |-> extract.corrupted]
  <2>1. Wrote(w) /\ left' = left
    BY <1>1, <1>6 DEF Write, Wrote
  <2>2. /\ w.path = Path /\ w.obj = Entry.obj /\ w.kind = Entry.kind
        /\ w.data = tmp
    BY <1>2
  <2>3. w.marked <=> extract.corrupted
    BY Zenon
  <2> HIDE DEF w
  <2>5. GoodMember(w)
    BY <1>2, <2>2, <2>3, Zenon DEF GoodMember
  <2>6. GoodPlace(w) /\ w.path \in Seq(Nat)
    BY <1>2, <2>2, EntryIsPlaced
  <2>7. EntryWritten
    BY <1>2, <1>4, <2>1, <2>2 DEF EntryWritten
  <2>8. ASSUME NEW p \in Places[root], IsPrefix(Path, p.path) PROVE Settled(p)'
    <3>1. w.path = p.path
      BY <1>5, <2>2, <2>8
    <3> QED BY <1>2, <2>1, <3>1, WrittenSettles
  <2> HIDE DEF Goes, Moved, Down, Back, InLoop, Settled, GoodPlace, GoodMember, Wrote, Item0,
               EntryWritten
  <2>9. \E v : /\ v.path \in Seq(Nat) /\ GoodPlace(v) /\ Wrote(v)
               /\ mode = "archive" => GoodMember(v)
    BY <2>1, <2>5, <2>6
  <2> QED BY <1>2, <1>3, <1>4, <2>1, <2>7, <2>8, <2>9, InvKept
<1>7. CASE ~ added
  <2>1. GiveUp(Path, FALSE) /\ out' = out
    BY <1>1, <1>7
  <2>2. left \subseteq left'
    BY <2>1 DEF GiveUp
  <2>3. \A p : p.path = Path => Settled(p)'
    <3> HIDE DEF Settled, GiveUp, Path
    <3>1. FALSE \in BOOLEAN
      OBVIOUS
    <3> QED BY <2>1, <3>1, GivenUpSettles
  <2> HIDE DEF Goes, Moved, Down, Back, InLoop, Settled, Item0
  <2> QED BY <1>2, <1>3, <1>4, <1>5, <2>1, <2>2, <2>3, InvKept
<1> QED BY <1>6, <1>7

LEMMA ArchiveDirStep ==
  ASSUME Inv, mode' = mode, root' = root, NEW added \in BOOLEAN, ArchiveDir(added)
  PROVE  Inv'
<1> DEFINE w == Item(TRUE)
<1>1. /\ TypeOK /\ StackInv /\ PlaceInv /\ InLoop /\ status = "running" /\ mode = "archive"
      /\ Entry.kind = "d" /\ Entry.obj \notin SkipObjs /\ Recurse
      /\ extract' = None /\ missed' = missed
  BY DEF Inv, ArchiveDir, Archiving, InLoop, Wanted
<1>2. Goes /\ (Down \/ Thrown)
  BY <1>1, Ways
<1>3. ~ Moved /\ ~ Back
  BY <1>1, <1>2, OneWay
<1>4. Clean(Path)
  BY <1>1, PathIsClean DEF Inv
<1>5. w.path = Path /\ w.obj = Entry.obj /\ w.kind = Entry.kind
  BY DEF Item
<1> HIDE DEF w
<1>6. CASE added
  <2>1. Wrote(w) /\ left' = left
    BY <1>6 DEF ArchiveDir, Write, Wrote, w
  <2>2. GoodMember(w)
    BY <1>1, <1>5 DEF GoodMember
  <2>3. GoodPlace(w) /\ w.path \in Seq(Nat)
    BY <1>1, <1>5, EntryIsPlaced
  <2>4. EntryWritten
    BY <1>1, <1>3, <1>5, <2>1 DEF EntryWritten
  <2>5. ASSUME NEW p \in Places[root], p = Item0 PROVE Settled(p)'
    <3>1. w.path = p.path
      BY <1>5, <2>5 DEF Item0
    <3> QED BY <1>1, <2>1, <3>1, WrittenSettles
  <2> HIDE DEF Goes, Moved, Down, Back, InLoop, Settled, GoodPlace, GoodMember, Wrote, Item0,
               EntryWritten, Clean
  <2>6. \E v : /\ v.path \in Seq(Nat) /\ GoodPlace(v) /\ Wrote(v)
               /\ mode = "archive" => GoodMember(v)
    BY <2>1, <2>2, <2>3
  <2> QED BY <1>1, <1>2, <1>3, <1>4, <2>1, <2>4, <2>5, <2>6, InvKept
<1>7. CASE ~ added
  <2>1. GiveUp(Path, FALSE) /\ out' = out
    BY <1>7 DEF ArchiveDir
  <2>2. left \subseteq left'
    BY <2>1 DEF GiveUp
  <2>3. \A p : p.path = Path => Settled(p)'
    <3> HIDE DEF Settled, GiveUp, Path
    <3>1. FALSE \in BOOLEAN
      OBVIOUS
    <3> QED BY <2>1, <3>1, GivenUpSettles
  <2>4. \A p \in Places[root] : p = Item0 => Settled(p)'
    BY <2>3 DEF Item0
  <2>5. mode # "export"
    BY <1>1
  <2> HIDE DEF Goes, Moved, Down, Back, InLoop, Settled, Item0, Clean
  <2> QED BY <1>1, <1>2, <1>3, <1>4, <2>1, <2>2, <2>4, <2>5, InvKept
<1> QED BY <1>6, <1>7

LEMMA ArchiveLinkStep ==
  ASSUME Inv, mode' = mode, root' = root, ArchiveLink
  PROVE  Inv'
<1> DEFINE w == Item(TRUE)
<1>1. /\ TypeOK /\ StackInv /\ PlaceInv /\ InLoop /\ status = "running" /\ mode = "archive"
      /\ Entry.kind = "l" /\ Entry.obj \notin SkipObjs /\ Wrote(w) /\ left' = left
      /\ extract' = None /\ missed' = missed
  BY DEF Inv, ArchiveLink, Archiving, InLoop, Wanted, Write, Wrote
<1>2. Moved /\ Goes
  BY <1>1, Ways DEF ArchiveLink
<1>3. ~ Down /\ ~ Back
  BY <1>1, <1>2, OneWay
<1>4. w.path = Path /\ w.obj = Entry.obj /\ w.kind = Entry.kind
  BY DEF Item
<1> HIDE DEF w
<1>5. GoodMember(w)
  BY <1>1, <1>4 DEF GoodMember
<1>6. GoodPlace(w) /\ w.path \in Seq(Nat)
  BY <1>1, <1>4, EntryIsPlaced
<1>7. EntryWritten
  BY <1>1, <1>3, <1>4 DEF EntryWritten
<1>8. ASSUME NEW p \in Places[root], IsPrefix(Path, p.path) PROVE Settled(p)'
  <2>1. p.path = Path
    BY <1>1, <1>8, AtEntry DEF Item0
  <2> QED BY <1>1, <1>4, <2>1, WrittenSettles
<1> HIDE DEF Goes, Moved, Down, Back, InLoop, Settled, GoodPlace, GoodMember, Wrote, EntryWritten
<1>9. \E v : /\ v.path \in Seq(Nat) /\ GoodPlace(v) /\ Wrote(v)
             /\ mode = "archive" => GoodMember(v)
  BY <1>1, <1>5, <1>6
<1> QED BY <1>1, <1>2, <1>3, <1>7, <1>8, <1>9, InvKept

-----------------------------------------------------------------------------
LEMMA InitInv == Init => Inv
<1> SUFFICES ASSUME Init PROVE Inv
  OBVIOUS
<1> DEFINE f == Frame(root, <<>>)
<1>1. /\ root \in Roots /\ root \in DOMAIN Entries /\ mode \in Modes /\ status = "running"
      /\ stack = <<f>> /\ out = <<>> /\ extract = None /\ RecursionLimit \in Nat /\ 1 <= RecursionLimit
  BY DEF Init
<1>2. f.dir = root /\ f.i = 0 /\ f.path = <<>> /\ f.lost = {} /\ f \in FrameType
  <2>1. f = [dir |-> root, i |-> 0, path |-> <<>>, lost |-> {}]
    BY DEF Frame
  <2> DEFINE e == <<>>
  <2>2. e \in Seq(Nat) /\ f = [dir |-> root, i |-> 0, path |-> e, lost |-> {}]
    BY <2>1
  <2> HIDE DEF f, e
  <2>3. f.dir = root /\ f.i = 0 /\ f.path = e /\ f.lost = {} /\ f \in FrameType
    BY <1>1, <2>2 DEF FrameType
  <2> QED BY <2>3 DEF e
<1> HIDE DEF f, FrameType
<1>3. /\ stack \in Seq(FrameType) /\ Len(stack) = 1 /\ stack[1] = f /\ stack # <<>>
      /\ Depths = {1} /\ Top = f
  BY <1>1, <1>2 DEF Depths, Top
<1>4. Here(1) = Start(root) /\ Here(1) \in Reach(root)[0] /\ Start(root) \in Reach(root)[0]
  <2>1. Here(1) = Start(root)
    BY <1>2, <1>3 DEF Here, Start
  <2> QED BY <1>1, <2>1, ReachIs
<1>5. TypeOK
  <2>1. IsSeq(out) /\ DOMAIN out = {}
    BY <1>1, EmptySeq DEF IsSeq
  <2> QED BY <1>1, <1>3, <2>1 DEF TypeOK
<1>6. StackInv
  <2>1. Len(stack[1].path) = 0
    BY <1>2, <1>3
  <2> QED BY <1>1, <1>2, <1>3, <1>4, <2>1 DEF StackInv
<1>7. MemberInv /\ FileInv
  BY <1>1 DEF MemberInv, MemberIsItsObject, MarkedIffZeroed, FileInv
<1>8. \A p \in Places[root] : p.path \in Seq(Nat) /\ Len(p.path) > 0
  <2> TAKE p \in Places[root]
  <2>1. PICK n \in 1..RecursionLimit : p \in Reach(root)[n]
    BY <1>1, PlacesAre
  <2>2. n \in 0..RecursionLimit
    OBVIOUS
  <2>3. p \in Place /\ Len(p.path) = n
    BY <1>1, <2>1, <2>2, LevelIsLength
  <2> QED BY <2>3 DEF Place
<1>9. \A p \in Places[root] : ~ IsPrefix(p.path, <<>>) /\ IsPrefix(<<>>, p.path)
  <2> TAKE p \in Places[root]
  <2> DEFINE q == p.path
             e == <<>>
  <2>1. q \in Seq(Nat) /\ Len(q) > 0 /\ e \in Seq(Nat) /\ Len(e) = 0
    BY <1>8
  <2> HIDE DEF q, e
  <2>2. ~ IsPrefix(q, e) /\ IsPrefix(e, q)
    <3>1. ~ (Len(q) <= Len(e)) /\ Len(e) <= Len(q) /\ \A x \in 1..Len(e) : e[x] = q[x]
      BY <2>1
    <3> QED BY <2>1, <3>1, PrefixIs
  <2> QED BY <2>2 DEF q, e
<1>10. PlaceInv
  BY <1>1, <1>2, <1>3, <1>9 DEF PlaceInv, PathsAreTrue
<1>11. OrderInv
  BY <1>1, <1>3 DEF OrderInv, InWalkOrder
<1>12. LossInv
  <2>1. ASSUME NEW p \in Places[root]
        PROVE  \E m \in ToCome(1) : IsPrefix(KeyPath(1, m), p.path)
    <3> DEFINE c == Start(root)
    <3>1. c.path = <<>> /\ c.obj = root /\ 0 \in 0..RecursionLimit /\ c \in Reach(root)[0]
      BY <1>1, <1>4 DEF Start
    <3>2. p # c
      BY <1>8, <3>1
    <3> HIDE DEF c
    <3>3. PICK m \in 1..Size(c.obj, {}) : IsPrefix(Append(c.path, Keys[c.obj][{}][m]), p.path)
      <4>1. IsPrefix(c.path, p.path)
        BY <1>9, <3>1
      <4> QED BY <1>1, <3>1, <3>2, <4>1, PlacesBelow
    <3>4. m \in ToCome(1)
      <4>1. stack[1].dir = c.obj /\ stack[1].lost = {} /\ stack[1].i = 0
        BY <1>2, <1>3, <3>1
      <4>2. ToCome(1) = {x \in 1..Size(c.obj, {}) : x >= 0}
        BY <4>1 DEF ToCome
      <4> QED BY <3>3, <4>2
    <3>5. KeyPath(1, m) = Append(c.path, Keys[c.obj][{}][m])
      BY <1>2, <1>3, <3>1 DEF KeyPath
    <3> QED BY <3>3, <3>4, <3>5
  <2> QED BY <1>3, <2>1 DEF LossInv
<1> QED BY <1>5, <1>6, <1>7, <1>10, <1>11, <1>12 DEF Inv

LEMMA NextInv == Inv /\ [Next]_vars => Inv'
<1> SUFFICES ASSUME Inv, [Next]_vars PROVE Inv'
  OBVIOUS
<1>1. CASE UNCHANGED vars
  <2>1. FileInv'
    BY <1>1 DEF Inv, vars, FileInv, InLoop, Wanted, Entry, Name, Top
  <2> HIDE DEF Inv, FileInv
  <2> QED BY <1>1, <2>1, ExtractKeeps DEF vars
<1>2. CASE Next
  <2>1. mode' = mode /\ root' = root /\ Step
    BY <1>2 DEF Next
  <2> HIDE DEF Inv
  <2> QED BY <2>1, EnterStep, LeaveStep, EnterRaisesStep, EnterNothingStep, ListStep, SkipStep,
             ArchiveLinkStep, EntryRaisesStep, ExtractBeginsStep, ExtractBlockStep,
             ArchiveFileStep, ArchiveDirStep DEF Step
<1> QED BY <1>1, <1>2

LEMMA Safety == Spec => []Inv
<1> HIDE DEF Inv
<1> QED BY InitInv, NextInv, PTL DEF Spec

\* A member of an archive is the object it is named for, with as many blocks as
\* the object has or none: the one temporary file that all of them go through
\* never carries anything over (dataset.py 388-410, 488-497).
THEOREM MembersAreTheirObjects == Spec => []MemberIsItsObject
<1>1. Inv => MemberIsItsObject
  BY DEF Inv, MemberInv
<1> QED BY <1>1, Safety, PTL

\* The flag of the extraction's loop, whichever turn sets it, comes out of it in
\* the mark ._corrupted: the mark is on exactly the members in which a block was
\* replaced by zeros, or which were not written (dataset.py 373-378, 384-412,
\* 452-453).
THEOREM MarksAreTrue == Spec => []MarkedIffZeroed
<1>1. Inv => MarkedIffZeroed
  BY DEF Inv, MemberInv
<1> QED BY <1>1, Safety, PTL

\* Parents first and each place once, in the order of the names, however many
\* calls fail (dataset.py 433-434, 504-506, 524-526).
THEOREM WalksAreInOrder == Spec => []InWalkOrder
<1>1. Inv => InWalkOrder
  BY DEF Inv, OrderInv
<1> QED BY <1>1, Safety, PTL

\* What is written is where the disk has it, and nothing of an archive is a
\* skipped object or below one (dataset.py 439-441).
THEOREM WrittenPathsAreTrue == Spec => []PathsAreTrue
<1>1. Inv => PathsAreTrue
  BY DEF Inv, PlaceInv
<1> QED BY <1>1, Safety, PTL

\* A walk that ends has written every place of the tree, or given it up with a
\* message, or it is behind an entry in a block of a ZAP that was not read; nothing
\* else is missing (dataset.py 277-316, 422-509; zap.py 239-245).
THEOREM WalksLoseNothingElse == Spec => []NothingElseIsLost
<1>1. Inv => NothingElseIsLost
  <2> SUFFICES ASSUME Inv, status = "done", NEW p \in Places[root],
                      mode = "traverse" => Len(p.path) <= Depth + 1
               PROVE  \/ \E n \in DOMAIN out : out[n].path = p.path
                      \/ \E l \in left : l.path = p.path \/ (l.below /\ IsPrefix(l.path, p.path))
                      \/ BehindMissed(p.path)
                      \/ mode = "export" /\ p.kind \notin {"d", "f", "l"}
    BY DEF NothingElseIsLost
  <2>1. Depths = {}
    BY DEF Inv, StackInv, Depths
  <2>2. Settled(p)
    BY <2>1 DEF Inv, LossInv
  <2>3. ~ (mode = "traverse" /\ Len(p.path) > Depth + 1)
    <3>1. PICK n \in 1..RecursionLimit : p \in Reach(root)[n]
      BY PlacesAre DEF Inv, TypeOK
    <3>2. n \in 0..RecursionLimit
      OBVIOUS
    <3>3. Len(p.path) \in Nat /\ Depth \in Nat
      BY <3>1, <3>2, LevelIsLength DEF Inv, TypeOK
    <3> QED BY <3>3
  <2> QED BY <2>2, <2>3 DEF Settled
<1> QED BY <1>1, Safety, PTL
=============================================================================
