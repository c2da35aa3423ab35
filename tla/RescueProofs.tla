---------------------------- MODULE RescueProofs ----------------------------
(***************************************************************************)
(* Proofs about the main program (Rescue), for every uberblock array,      *)
(* every meta object set and whatever its three copies come to.            *)
(*                                                                         *)
(* The inductive invariant is Inv.  What the loop over the copies leaves   *)
(* behind depends on their order, so the invariant says what is known of   *)
(* the copies before the one the program is at.                            *)
(***************************************************************************)
EXTENDS Rescue, DataInduction

Places == {"labels", "copy", "scan", "root", "children", "done", "raised"}

TypeOK ==
  /\ disk \in Worlds
  /\ pc \in Places
  /\ i \in Nat /\ n \in Nat
  /\ ub \in DOMAIN disk.array \union {None}
  /\ mos \in {None, "mos", "other"}

\* The uberblock is chosen before a copy is opened.
SelectInv ==
  /\ SelectedIsRight
  /\ pc = "labels" => ub = None
  /\ pc = "copy" => i \in 0..3
  /\ pc = "scan" => i \in 0..2 /\ disk.copies[i] = IF mos = "mos" THEN "opens" ELSE "garbled"

\* What the variables say about the damage.
DamageInv ==
  /\ mos = "other" => \E c \in 0..2 : disk.copies[c] = "garbled"
  /\ pc \in {"scan", "root", "children", "done"} => mos # None
  /\ pc = "copy" /\ mos = None => \A c \in 0..2 : c < i => disk.copies[c] # "opens"
  /\ disk.lost = {} /\ (\A c \in 0..2 : disk.copies[c] # "garbled") =>
       None \notin Range(datasets)
  /\ EndsOnDamageOnly

Good(o) == o \in DOMAIN Datasets /\ Readable(o)
AllKnown == \A o \in Objects : Good(o) => o \in DOMAIN datasets
AllRight == \A o \in Objects : Good(o) => o \in DOMAIN datasets /\ datasets[o] = "mos"
\* A copy that opens is behind the program.
OpenedBefore == \E c \in 0..2 : disk.copies[c] = "opens" /\ (pc \in {"copy", "scan"} => c < i)

\* What the scans before, and the scan that is under way, have found.
ScanInv ==
  /\ pc \in {"copy", "scan", "root", "children", "done"} /\ OpenedBefore => AllKnown
  /\ pc = "scan" /\ mos = "mos" =>
       \A o \in Objects : Good(o) /\ o < n => o \in DOMAIN datasets /\ datasets[o] = "mos"
  /\ ((pc = "copy" /\ i > 2) \/ pc \in {"root", "children"}) /\ disk.copies[2] = "opens" =>
       mos = "mos" /\ AllRight
  /\ AllDatasetsFound

Inv == TypeOK /\ SelectInv /\ DamageInv /\ ScanInv

-----------------------------------------------------------------------------
\* What the disks may hold.
LEMMA WorldType ==
  ASSUME disk \in Worlds
  PROVE  /\ disk.array \in Seq([valid : BOOLEAN, txg : Nat])
         /\ Len(disk.array) \in Nat
         /\ DOMAIN disk.array = 1..Len(disk.array)
         /\ \A k \in DOMAIN disk.array : disk.array[k].txg \in Nat
         /\ disk.labeltxg \in Nat
         /\ disk.copies \in [0..2 -> OpenKinds]
         /\ disk.lost \subseteq Objects
         /\ None \notin Nat
<1>1. /\ disk.array \in Seq([valid : BOOLEAN, txg : Nat])
      /\ disk.labeltxg \in Nat
      /\ disk.copies \in [0..2 -> OpenKinds]
      /\ disk.lost \subseteq Objects
      /\ None \notin Nat
  BY ConstantsAssumption
<1>2. Len(disk.array) \in Nat /\ DOMAIN disk.array = 1..Len(disk.array)
  BY <1>1
<1>3. ASSUME NEW k \in DOMAIN disk.array PROVE disk.array[k].txg \in Nat
  <2> DEFINE R == [valid : BOOLEAN, txg : Nat]
  <2>1. disk.array[k] \in R
    <3> HIDE DEF R
    <3>1. disk.array \in Seq(R)
      BY <1>1 DEF R
    <3> QED BY <3>1, <1>2
  <2> QED BY <2>1
<1> QED BY <1>1, <1>2, <1>3

\* The search by txg gives an uberblock that was asked for.
LEMMA FindTxgRight ==
  ASSUME disk \in Worlds
  PROVE  IF Requested = {} THEN FindTxg = 0 ELSE FindTxg \in Requested
<1>1. FindTxg = First(Requested)
  BY DEF FindTxg, Requested, Valid
<1>2. CASE Requested # {}
  <2>1. Requested \subseteq Nat
    BY WorldType DEF Requested
  <2>2. \E k \in Requested : \A l \in Requested : k <= l
    BY <1>2, <2>1, NatLeast
  <2> QED BY <1>1, <1>2, <2>2 DEF First
<1> QED BY <1>1, <1>2 DEF First

\* u is the uberblock find_active_ub is for.
IsActive(u) ==
  /\ u \in Candidates
  /\ \A k \in Candidates : \/ disk.array[k].txg < disk.array[u].txg
                           \/ disk.array[k].txg = disk.array[u].txg /\ k <= u

\* What the loop over the array has found after its first k blocks.
BestOf(r, k) ==
  /\ r.id = None => r.txg = disk.labeltxg /\ \A j \in Candidates : j > k
  /\ r.id # None =>
       /\ r.id \in Candidates /\ r.id <= k /\ r.txg = disk.array[r.id].txg
       /\ \A j \in Candidates : \/ j > k
                                \/ disk.array[j].txg < r.txg
                                \/ disk.array[j].txg = r.txg /\ j <= r.id

Takes(k, r) == disk.array[k].valid /\ disk.array[k].txg >= r.txg
Better(k, r) == IF Takes(k, r) THEN Found(k, disk.array[k].txg) ELSE r

\* One round of the loop keeps the best.
LEMMA RoundKeepsBest ==
  ASSUME disk \in Worlds, NEW m \in Nat, NEW k, k = m + 1, k \in DOMAIN disk.array,
         NEW r \in [id : Nat \union {None}, txg : Nat], BestOf(r, m)
  PROVE  BestOf(Better(k, r), k)
<1>1. /\ r.txg \in Nat /\ disk.array[k].txg \in Nat /\ disk.labeltxg \in Nat
      /\ k \in Nat /\ None \notin Nat
  BY WorldType
<1>2. \A j \in Candidates : j \in Nat /\ disk.array[j].txg \in Nat
  BY WorldType DEF Candidates
<1>3. r.txg >= disk.labeltxg
  <2>1. CASE r.id = None
    BY <1>1, <2>1 DEF BestOf
  <2>2. CASE r.id # None
    <3>1. r.id \in Candidates /\ r.txg = disk.array[r.id].txg
      BY <2>2, Zenon DEF BestOf
    <3> QED BY <3>1 DEF Candidates
  <2> QED BY <2>1, <2>2
<1>4. CASE Takes(k, r)
  <2> DEFINE z == disk.array[k].txg
             s == Found(k, z)
  <2>1. s.id = k /\ s.txg = z /\ z \in Nat /\ z >= r.txg /\ z >= disk.labeltxg
    <3>1. s.id = k /\ s.txg = z
      BY DEF Found
    <3>2. z >= r.txg
      BY <1>4, Zenon DEF Takes
    <3>3. z \in Nat
      BY <1>1
    <3> HIDE DEF s, z
    <3> QED BY <1>1, <1>3, <3>1, <3>2, <3>3
  <2>2. k \in Candidates
    <3>1. Valid(k)
      BY <1>4, Zenon DEF Valid, Takes
    <3> QED BY <2>1, <3>1 DEF Candidates
  <2> HIDE DEF s
  <2>3. ASSUME NEW j \in Candidates
        PROVE  \/ j > k
               \/ disk.array[j].txg < z
               \/ disk.array[j].txg = z /\ j <= k
    <3> DEFINE y == disk.array[j].txg
    <3>1. j > m \/ y < r.txg \/ y = r.txg
      <4>1. CASE r.id = None
        BY <4>1, Zenon DEF BestOf
      <4>2. CASE r.id # None
        BY <4>2, Zenon DEF BestOf
      <4> QED BY <4>1, <4>2
    <3>2. j \in Nat /\ y \in Nat
      BY <1>2
    <3>3. j > m => j > k \/ (j = k /\ y = z)
      BY <1>1, <3>2
    <3>4. ~(j > m) => j <= k
      BY <3>2
    <3> HIDE DEF y, z
    <3>5. j > k \/ y < z \/ (y = z /\ j <= k)
      BY <1>1, <2>1, <3>1, <3>2, <3>3, <3>4
    <3> QED BY <3>5 DEF y, z
  <2>4. BestOf(s, k)
    <3>1. k # None /\ k <= k
      BY <1>1
    <3> QED BY <2>1, <2>2, <2>3, <3>1 DEF BestOf
  <2>5. Better(k, r) = s
    BY <1>4, Zenon DEF Better, s
  <2> QED BY <2>4, <2>5
<1>5. CASE ~Takes(k, r)
  <2>1. k \in Candidates => disk.array[k].txg < r.txg
    BY <1>1, <1>5 DEF Candidates, Valid, Takes
  <2>2. k \in Candidates => r.id # None
    BY <1>1, <2>1 DEF BestOf, Candidates
  <2>3. \A j \in Candidates : j > m => j > k \/ j = k
    BY <1>1, <1>2
  <2>4. r.id \in Candidates /\ r.id <= m => r.id <= k
    BY <1>1, <1>2
  <2>5. BestOf(r, k)
    BY <2>1, <2>2, <2>3, <2>4 DEF BestOf
  <2>6. Better(k, r) = r
    BY <1>5, Zenon DEF Better
  <2> QED BY <2>5, <2>6
<1> QED BY <1>4, <1>5

\* The search for the active uberblock gives the newest, of two the later.
LEMMA FindActiveRight ==
  ASSUME disk \in Worlds
  PROVE  IF Candidates = {} THEN FindActive = None ELSE IsActive(FindActive)
<1> DEFINE N == Len(disk.array)
           D == [id : Nat \union {None}, txg : Nat]
           a == Found(None, disk.labeltxg)
           G == [k \in Nat |-> [r \in D |-> IF k \in 1..N THEN Better(k, r) ELSE r]]
           Round(b) == [k \in 0..N |->
                   IF k = 0 THEN Found(None, disk.labeltxg)
                   ELSE IF disk.array[k].valid /\ disk.array[k].txg >= b[k - 1].txg
                          THEN Found(k, disk.array[k].txg) ELSE b[k - 1]]
           best == CHOOSE b : b = Round(b)
<1>1. N \in Nat /\ a \in D /\ DOMAIN disk.array = 1..N
  BY WorldType DEF Found
<1>2. \A k \in 1..N, r \in D : Better(k, r) \in D
  <2>1. \A k \in 1..N : disk.array[k].txg \in Nat
    BY WorldType
  <2>2. \A k \in 1..N : Found(k, disk.array[k].txg) \in D
    BY <2>1 DEF Found
  <2> HIDE DEF D, N
  <2> QED BY <2>2, Zenon DEF Better
<1>3. G \in [Nat -> [D -> D]]
  <2> HIDE DEF D, N
  <2> QED BY <1>2
<1>4. PICK f \in [0..N -> D] : Solves(f, N, a, G)
  <2> HIDE DEF G, N, D, a
  <2> QED BY <1>1, <1>3, RecursionUpTo
<1>5. ASSUME NEW k \in 1..N PROVE f[k] = Better(k, f[k - 1])
  <2>1. k \in Nat /\ f[k - 1] \in D /\ f[k] = G[k][f[k - 1]]
    <3> HIDE DEF G, D, N
    <3> QED BY <1>1, <1>4 DEF Solves
  <2> HIDE DEF D, N
  <2> QED BY <2>1
<1>6. f = Round(f)
  <2>1. f[0] = a
    BY <1>4 DEF Solves
  <2>2. \A k \in 0..N : f[k] = Round(f)[k]
    <3> HIDE DEF N, D
    <3> QED BY <1>1, <2>1, <1>5 DEF Better, Takes
  <2> HIDE DEF D, N
  <2> QED BY <2>2
<1>7. FindActive = best[N].id
  BY DEF FindActive
<1>8. best = Round(best)
  <2> HIDE DEF Round
  <2> QED BY <1>6
<1> HIDE DEF best, G
<1>9. best[0] = a
  BY <1>1, <1>8
<1>10. ASSUME NEW k \in 1..N PROVE best[k] = Better(k, best[k - 1])
  <2>1. best[k] = Round(best)[k]
    <3> HIDE DEF Round
    <3> QED BY <1>8
  <2>2. k # 0 /\ k \in 0..N
    BY <1>1
  <2> QED BY <2>1, <2>2, Zenon DEF Better, Takes
<1> HIDE DEF Round, D, N
<1> DEFINE S == {k \in 0..N : best[k] \in D /\ BestOf(best[k], k)}
<1>11. Candidates \subseteq 1..N /\ N \in Nat /\ None \notin Nat
  BY <1>1, WorldType DEF Candidates
<1>12. 0 \in S
  <2>1. a.id = None /\ a.txg = disk.labeltxg
    BY DEF Found
  <2>2. \A j \in Candidates : j > 0
    BY <1>11
  <2>3. BestOf(a, 0)
    BY <2>1, <2>2 DEF BestOf
  <2> HIDE DEF a
  <2> QED BY <1>1, <1>9, <2>3
<1>13. ASSUME NEW m \in Nat, m < N, m \in S PROVE m + 1 \in S
  <2> DEFINE k == m + 1
             r == best[m]
  <2>1. k \in 1..N /\ k - 1 = m /\ r \in D /\ BestOf(r, m)
    BY <1>1, <1>13
  <2> HIDE DEF r, k
  <2>2. best[k] = Better(k, r)
    BY <2>1, <1>10 DEF r
  <2>3. BestOf(Better(k, r), k)
    <3>1. k = m + 1 /\ k \in DOMAIN disk.array
      BY <1>1, <2>1 DEF k
    <3> QED BY <2>1, <3>1, RoundKeepsBest DEF D
  <2>4. Better(k, r) \in D /\ k \in 0..N
    BY <1>1, <1>2, <2>1
  <2>5. k \in S
    BY <2>2, <2>3, <2>4
  <2> QED BY <2>5 DEF k
<1>14. N \in S
  <2> HIDE DEF S, N
  <2>1. N \in Nat
    BY <1>11
  <2>2. \A m \in Nat : m < N /\ m \in S => m + 1 \in S
    BY <1>13
  <2>3. 0..N \subseteq S
    BY <2>1, <2>2, <1>12, UpToInduction
  <2> QED BY <2>1, <2>3
<1>15. best[N] \in D /\ BestOf(best[N], N)
  BY <1>14
<1>16. \A j \in Candidates : ~(j > N)
  BY <1>11
<1> QED BY <1>7, <1>15, <1>16 DEF BestOf, IsActive

-----------------------------------------------------------------------------
\* The invariant

USE ConstantsAssumption

LEMMA InitInv == Init => Inv
<1> SUFFICES ASSUME Init PROVE Inv
  OBVIOUS
<1> USE DEF Init
<1>1. TypeOK
  BY DEF TypeOK, Places
<1>2. SelectInv
  BY DEF SelectInv, SelectedIsRight
<1>3. DamageInv
  <2>1. Range(datasets) = {}
    BY DEF Range
  <2> QED BY <2>1 DEF DamageInv, EndsOnDamageOnly
<1>4. ScanInv
  BY DEF ScanInv, AllDatasetsFound
<1> QED BY <1>1, <1>2, <1>3, <1>4 DEF Inv

\* What has to be wrong with the disks for the program to end early.
Damage ==
  \/ disk.bad # {}
  \/ Candidates = {} /\ Requested = {}
  \/ \E c \in 0..2 : disk.copies[c] \in {"garbled", "lost"}
  \/ \A c \in 0..2 : disk.copies[c] = "raises"
  \/ disk.lost # {}

\* A step that leaves the disks alone changes none of what is said of them.
LEMMA SameDisk ==
  ASSUME disk' = disk
  PROVE  /\ Candidates' = Candidates /\ Requested' = Requested
         /\ \A o : Good(o)' <=> Good(o)
         /\ Damage' <=> Damage
         /\ ub' = ub /\ SelectedIsRight => SelectedIsRight'
         /\ datasets' = datasets /\ AllKnown => AllKnown'
         /\ datasets' = datasets /\ AllRight => AllRight'
<1>1. Candidates' = Candidates /\ Requested' = Requested
  BY DEF Candidates, Requested, Valid
<1>2. \A o : Good(o)' <=> Good(o)
  BY DEF Good, Readable
<1>3. Damage' <=> Damage
  BY <1>1 DEF Damage
<1>4. ub' = ub /\ SelectedIsRight => SelectedIsRight'
  BY <1>1 DEF SelectedIsRight, Valid
<1>5. datasets' = datasets /\ AllKnown => AllKnown'
  BY DEF AllKnown, Good, Readable
<1>6. datasets' = datasets /\ AllRight => AllRight'
  BY DEF AllRight, Good, Readable
<1> QED BY <1>1, <1>2, <1>3, <1>4, <1>5, <1>6

\* The program may end early when something is wrong with the disks.
LEMMA RaiseInv ==
  ASSUME Inv, disk' = disk, Raise, Damage
  PROVE  Inv'
<1> USE DEF Inv, Raise
<1>1. TypeOK'
  BY DEF TypeOK, Places
<1>2. SelectInv'
  <2>1. SelectedIsRight'
    BY SameDisk DEF SelectInv
  <2> QED BY <2>1 DEF SelectInv
<1>3. DamageInv'
  <2>1. EndsOnDamageOnly'
    BY SameDisk DEF EndsOnDamageOnly, Damage
  <2> QED BY <2>1 DEF DamageInv
<1>4. ScanInv'
  BY DEF ScanInv, AllDatasetsFound
<1> QED BY <1>1, <1>2, <1>3, <1>4

LEMMA ReadLabelsInv == ASSUME Inv, disk' = disk, ReadLabels PROVE Inv'
<1> USE DEF Inv, ReadLabels, Goto
<1>1. TypeOK'
  BY DEF TypeOK, Places
<1>2. SelectInv'
  <2>1. SelectedIsRight'
    BY SameDisk DEF SelectInv
  <2> QED BY <2>1 DEF SelectInv
<1>3. DamageInv'
  BY DEF DamageInv, EndsOnDamageOnly
<1>4. ScanInv'
  BY DEF ScanInv, AllDatasetsFound
<1> QED BY <1>1, <1>2, <1>3, <1>4

\* The uberblock asked for or the active one.
LEMMA SelectStepInv == ASSUME Inv, disk' = disk, Select PROVE Inv'
<1> USE DEF Inv
<1> DEFINE chosen == IF FindTxg > 0 THEN FindTxg ELSE FindActive
<1>1. /\ disk \in Worlds /\ ub' = chosen
      /\ pc = "labels" /\ UNCHANGED <<n, mos, datasets>>
      /\ \/ ub' = None /\ pc' = "raised" /\ i' = i
         \/ ub' # None /\ pc' = "copy" /\ i' = 0
  BY DEF TypeOK, Select, Goto
<1>2. /\ Requested # {} => chosen \in Requested
      /\ Requested = {} /\ Candidates # {} => IsActive(chosen)
      /\ Requested = {} /\ Candidates = {} => chosen = None
  <2>1. \A k \in Requested : k > 0
    BY <1>1, WorldType DEF Requested
  <2> QED BY <1>1, <2>1, FindTxgRight, FindActiveRight
<1> HIDE DEF chosen
<1>3. Requested \subseteq DOMAIN disk.array /\ Candidates \subseteq DOMAIN disk.array
  BY DEF Requested, Candidates
<1>4. None \notin DOMAIN disk.array
  BY <1>1, WorldType
<1>5. TypeOK'
  BY <1>1, <1>2, <1>3 DEF TypeOK, Places, IsActive
<1>6. SelectInv'
  <2>1. chosen # None =>
          /\ Valid(chosen)
          /\ IF Requested # {} THEN chosen \in Requested ELSE IsActive(chosen)
    BY <1>2 DEF IsActive, Requested, Candidates
  <2>2. SelectedIsRight'
    BY <1>1, <2>1, SameDisk DEF SelectedIsRight, IsActive, Valid
  <2> QED BY <1>1, <2>2 DEF SelectInv
<1>7. DamageInv'
  <2>1. ub' = None => Requested = {} /\ Candidates = {}
    BY <1>1, <1>2, <1>3, <1>4 DEF IsActive
  <2>2. EndsOnDamageOnly'
    BY <1>1, <2>1, SameDisk DEF EndsOnDamageOnly
  <2>3. i' = 0 => \A c \in 0..2 : ~(c < i')
    OBVIOUS
  <2> QED BY <1>1, <2>2, <2>3 DEF DamageInv
<1>8. ScanInv'
  <2>1. pc' = "copy" => ~OpenedBefore' /\ ~(i' > 2)
    BY <1>1 DEF OpenedBefore
  <2> QED BY <1>1, <2>1 DEF ScanInv, AllDatasetsFound
<1> QED BY <1>5, <1>6, <1>7, <1>8

\* An object set is constructed from copy i, or nothing comes of it.
LEMMA OpenInv ==
  ASSUME Inv, disk' = disk, OpenCopy \/ OpenGarbled
  PROVE  Inv'
<1> USE DEF Inv
<1>1. /\ pc = "copy" /\ i \in 0..2 /\ pc' = "scan" /\ n' = 0
      /\ UNCHANGED <<i, ub, datasets>>
      /\ \/ mos' = "mos" /\ disk.copies[i] = "opens"
         \/ mos' = "other" /\ disk.copies[i] = "garbled"
  BY DEF OpenCopy, OpenGarbled, Opens, TypeOK
<1>2. TypeOK'
  BY <1>1 DEF TypeOK, Places
<1>3. SelectInv'
  <2>1. SelectedIsRight'
    BY <1>1, SameDisk DEF SelectInv
  <2> QED BY <1>1, <2>1 DEF SelectInv
<1>4. DamageInv'
  <2>1. mos' # None /\ pc' # "raised"
    BY <1>1
  <2> QED BY <1>1, <2>1 DEF DamageInv, EndsOnDamageOnly
<1>5. ScanInv'
  <2>1. OpenedBefore' => OpenedBefore
    BY <1>1 DEF OpenedBefore
  <2>2. OpenedBefore' => AllKnown'
    BY <1>1, <2>1, SameDisk DEF ScanInv
  <2>3. \A o \in Objects : ~(o < n')
    BY <1>1
  <2> QED BY <1>1, <2>2, <2>3 DEF ScanInv, AllDatasetsFound
<1> QED BY <1>2, <1>3, <1>4, <1>5

LEMMA OpenRaisesInv == ASSUME Inv, disk' = disk, OpenRaises PROVE Inv'
<1> USE DEF Inv
<1>1. /\ pc = "copy" /\ i \in 0..2 /\ pc' = "copy" /\ i' = i + 1
      /\ UNCHANGED <<n, ub, mos, datasets>>
      /\ disk.copies[i] # "opens"
  <2>1. /\ pc = "copy" /\ i \in Nat /\ i <= 2 /\ disk.copies[i] \in {"raises", "garbled"}
        /\ pc' = "copy" /\ i' = i + 1 /\ UNCHANGED <<n, ub, mos, datasets>>
    BY Zenon DEF OpenRaises, Goto, TypeOK
  <2>2. i \in 0..2
    BY <2>1, SMTT(30)
  <2>3. disk.copies[i] # "opens"
    <3> DEFINE x == disk.copies[i]
    <3>1. x \in {"raises", "garbled"}
      BY <2>1
    <3> HIDE DEF x
    <3>2. x # "opens"
      BY <3>1
    <3> QED BY <3>2 DEF x
  <2> QED BY <2>1, <2>2, <2>3
<1>2. TypeOK'
  BY <1>1 DEF TypeOK
<1>3. SelectInv'
  <2>1. SelectedIsRight'
    BY <1>1, SameDisk DEF SelectInv
  <2> QED BY <1>1, <2>1 DEF SelectInv
<1>4. \A c \in 0..2 : c < i' => c < i \/ c = i
  BY <1>1
<1>5. DamageInv'
  BY <1>1, <1>4 DEF DamageInv, EndsOnDamageOnly
<1>6. ScanInv'
  <2>1. OpenedBefore' => OpenedBefore
    BY <1>1, <1>4 DEF OpenedBefore
  <2>2. OpenedBefore' => AllKnown'
    BY <1>1, <2>1, SameDisk DEF ScanInv
  <2>3. i' > 2 => i = 2
    BY <1>1
  <2> QED BY <1>1, <2>2, <2>3 DEF ScanInv, AllDatasetsFound
<1> QED BY <1>2, <1>3, <1>5, <1>6

\* What the scan puts into datasets.
LEMMA Added ==
  ASSUME NEW k, NEW v, datasets' = With(k, v)
  PROVE  /\ DOMAIN datasets' = {k} \union DOMAIN datasets
         /\ datasets'[k] = v
         /\ \A x \in DOMAIN datasets : x # k => datasets'[x] = datasets[x]
         /\ \A w : w \in Range(datasets') => w = v \/ w \in Range(datasets)
<1>1. /\ DOMAIN datasets' = {k} \union DOMAIN datasets
      /\ datasets'[k] = v
      /\ \A x \in DOMAIN datasets : x # k => datasets'[x] = datasets[x]
  BY DEF With
<1> QED BY <1>1 DEF Range

LEMMA ScanObjectInv == ASSUME Inv, disk' = disk, ScanObject PROVE Inv'
<1> USE DEF Inv
<1>1. /\ pc = "scan" /\ n \in Objects /\ mos = "mos" /\ n' = n + 1
      /\ UNCHANGED <<pc, i, ub, mos>>
      /\ i \in 0..2 /\ disk.copies[i] = "opens"
  BY DEF ScanObject, SelectInv
<1>2. \/ Good(n) /\ datasets' = With(n, "mos")
      \/ ~Good(n) /\ datasets' = datasets
  BY DEF ScanObject, IsDataset, Good
<1>3. /\ Good(n) => n \in DOMAIN datasets' /\ datasets'[n] = "mos"
      /\ \A o \in DOMAIN datasets :
           o \in DOMAIN datasets' /\ datasets'[o] \in {datasets[o], "mos"}
      /\ None \in Range(datasets') => None \in Range(datasets)
  <2>1. CASE ~Good(n) /\ datasets' = datasets
    BY <2>1
  <2>2. CASE Good(n) /\ datasets' = With(n, "mos")
    <3>1. /\ DOMAIN datasets' = {n} \union DOMAIN datasets
          /\ datasets'[n] = "mos"
          /\ \A x \in DOMAIN datasets : x # n => datasets'[x] = datasets[x]
          /\ \A w : w \in Range(datasets') => w = "mos" \/ w \in Range(datasets)
      BY <2>2, Added
    <3>2. None # "mos"
      OBVIOUS
    <3>3. ASSUME NEW o \in DOMAIN datasets
          PROVE  o \in DOMAIN datasets' /\ datasets'[o] \in {datasets[o], "mos"}
      BY <3>1
    <3> QED BY <3>1, <3>2, <3>3
  <2> QED BY <1>2, <2>1, <2>2
<1>4. TypeOK'
  BY <1>1 DEF TypeOK
<1>5. SelectInv'
  <2>1. SelectedIsRight'
    BY <1>1, SameDisk DEF SelectInv
  <2> QED BY <1>1, <2>1 DEF SelectInv
<1>6. DamageInv'
  BY <1>1, <1>3 DEF DamageInv, EndsOnDamageOnly
<1>7. ScanInv'
  <2>1. OpenedBefore' => OpenedBefore
    BY <1>1 DEF OpenedBefore
  <2>2. OpenedBefore' => AllKnown'
    <3>1. OpenedBefore => AllKnown
      BY <1>1 DEF ScanInv
    <3>2. AllKnown => AllKnown'
      BY <1>3, SameDisk DEF AllKnown
    <3> QED BY <2>1, <3>1, <3>2
  <2>3. ASSUME NEW o \in Objects, Good(o), o < n'
        PROVE  o \in DOMAIN datasets' /\ datasets'[o] = "mos"
    <3>1. o < n \/ o = n
      BY <1>1, <2>3
    <3>2. o < n => o \in DOMAIN datasets /\ datasets[o] = "mos"
      BY <1>1, <2>3 DEF ScanInv
    <3> QED BY <1>3, <2>3, <3>1, <3>2
  <2> QED BY <1>1, <2>2, <2>3, SameDisk DEF ScanInv, AllDatasetsFound
<1> QED BY <1>4, <1>5, <1>6, <1>7

LEMMA ScanOtherInv == ASSUME Inv, disk' = disk, ScanOther PROVE Inv'
<1> USE DEF Inv
<1>1. /\ pc = "scan" /\ mos = "other" /\ n' = n + 1 /\ n \in Nat
      /\ UNCHANGED <<pc, i, ub, mos>>
  BY DEF ScanOther, TypeOK
<1>2. \/ datasets' = datasets
      \/ datasets' = With(n, "other")
  BY DEF ScanOther
<1>3. DOMAIN datasets \subseteq DOMAIN datasets'
  BY <1>2, Added
<1>4. TypeOK'
  BY <1>1 DEF TypeOK
<1>5. SelectInv'
  <2>1. SelectedIsRight'
    BY <1>1, SameDisk DEF SelectInv
  <2> QED BY <1>1, <2>1 DEF SelectInv
<1>6. DamageInv'
  BY <1>1 DEF DamageInv, EndsOnDamageOnly
<1>7. ScanInv'
  <2>1. OpenedBefore' => OpenedBefore
    BY <1>1 DEF OpenedBefore
  <2>2. OpenedBefore' => AllKnown'
    <3>1. OpenedBefore => AllKnown
      BY <1>1 DEF ScanInv
    <3>2. AllKnown => AllKnown'
      BY <1>3, SameDisk DEF AllKnown
    <3> QED BY <2>1, <3>1, <3>2
  <2> QED BY <1>1, <2>2 DEF ScanInv, AllDatasetsFound
<1> QED BY <1>4, <1>5, <1>6, <1>7

\* The scan ends: all objects are below n.
LEMMA ScanEndsInv == ASSUME Inv, disk' = disk, ScanEnds PROVE Inv'
<1> USE DEF Inv
<1>1. /\ pc = "scan" /\ n \notin Objects /\ n \in Nat /\ pc' = "copy" /\ i' = i + 1
      /\ UNCHANGED <<n, ub, mos, datasets>> /\ i \in 0..2
      /\ mos # None /\ mos \in {None, "mos", "other"}
      /\ disk.copies[i] = IF mos = "mos" THEN "opens" ELSE "garbled"
  BY DEF ScanEnds, Goto, TypeOK, SelectInv, DamageInv
<1>2. TypeOK'
  BY <1>1 DEF TypeOK, Places
<1>3. SelectInv'
  <2>1. SelectedIsRight'
    BY <1>1, SameDisk DEF SelectInv
  <2> QED BY <1>1, <2>1 DEF SelectInv
<1>4. DamageInv'
  BY <1>1 DEF DamageInv, EndsOnDamageOnly
<1>5. ASSUME NEW o \in Objects PROVE o < n
  <2>1. o \in Nat /\ 0..o \subseteq Objects
    OBVIOUS
  <2>2. n \notin 0..o
    BY <1>1, <2>1
  <2> QED BY <1>1, <2>1, <2>2
<1>6. mos = "mos" => AllRight /\ AllKnown
  BY <1>1, <1>5 DEF ScanInv, AllRight, AllKnown
<1>7. ScanInv'
  <2>1. OpenedBefore' => OpenedBefore \/ mos = "mos"
    <3>1. ASSUME NEW c \in 0..2, c < i', disk.copies[c] = "opens"
          PROVE  c < i \/ mos = "mos"
      BY <1>1, <3>1
    <3> QED BY <1>1, <3>1 DEF OpenedBefore
  <2>2. OpenedBefore => AllKnown
    BY <1>1 DEF ScanInv
  <2>3. OpenedBefore' => AllKnown'
    BY <1>1, <1>6, <2>1, <2>2, SameDisk
  <2>4. i' > 2 /\ disk.copies[2] = "opens" => mos' = "mos" /\ AllRight'
    <3>1. i' > 2 => i = 2
      BY <1>1
    <3> QED BY <1>1, <1>6, <3>1, SameDisk
  <2> QED BY <1>1, <2>3, <2>4 DEF ScanInv, AllDatasetsFound
<1> QED BY <1>2, <1>3, <1>4, <1>7

LEMMA CopiesEndInv == ASSUME Inv, disk' = disk, CopiesEnd PROVE Inv'
<1> USE DEF Inv
<1>1. pc = "copy" /\ i > 2 /\ i = 3
  BY DEF CopiesEnd, TypeOK, SelectInv
<1>2. CASE mos = None
  <2>1. disk.copies \in [0..2 -> OpenKinds]
    BY WorldType DEF TypeOK
  <2>2. \A c \in 0..2 : disk.copies[c] # "opens"
    BY <1>1, <1>2 DEF DamageInv
  <2>3. Damage
    BY <2>1, <2>2 DEF Damage, OpenKinds
  <2>4. Raise
    BY <1>2 DEF CopiesEnd
  <2> QED BY <2>3, <2>4, RaiseInv
<1>3. CASE mos # None
  <2>1. /\ pc' = "root" /\ i' = 1 /\ UNCHANGED <<n, ub, mos, datasets>>
    BY <1>3 DEF CopiesEnd, Goto
  <2>2. TypeOK'
    BY <2>1 DEF TypeOK, Places
  <2>3. SelectInv'
    <3>1. SelectedIsRight'
      BY <2>1, SameDisk DEF SelectInv
    <3> QED BY <2>1, <3>1 DEF SelectInv
  <2>4. DamageInv'
    BY <1>3, <2>1 DEF DamageInv, EndsOnDamageOnly
  <2>5. ScanInv'
    <3>1. OpenedBefore' => OpenedBefore
      BY <1>1, <2>1 DEF OpenedBefore
    <3>2. OpenedBefore' => AllKnown'
      BY <1>1, <2>1, <3>1, SameDisk DEF ScanInv
    <3>3. disk.copies[2] = "opens" => mos = "mos" /\ AllRight
      BY <1>1 DEF ScanInv
    <3> QED BY <2>1, <3>2, <3>3, SameDisk DEF ScanInv, AllDatasetsFound
  <2> QED BY <2>2, <2>3, <2>4, <2>5
<1> QED BY <1>2, <1>3

LEMMA RootDirectoryInv == ASSUME Inv, disk' = disk, RootDirectory PROVE Inv'
<1> USE DEF Inv
<1>1. CASE RootChain \intersect disk.lost # {}
  <2>1. Raise /\ Damage
    BY <1>1 DEF RootDirectory, Damage
  <2> QED BY <2>1, RaiseInv
<1>2. CASE RootChain \intersect disk.lost = {}
  <2>1. /\ pc = "root" /\ mos = "mos" /\ pc' = "children" /\ i' = 1
        /\ UNCHANGED <<n, ub, mos, datasets>>
    BY <1>2 DEF RootDirectory, Goto
  <2>2. TypeOK'
    BY <2>1 DEF TypeOK, Places
  <2>3. SelectInv'
    <3>1. SelectedIsRight'
      BY <2>1, SameDisk DEF SelectInv
    <3> QED BY <2>1, <3>1 DEF SelectInv
  <2>4. DamageInv'
    BY <2>1 DEF DamageInv, EndsOnDamageOnly
  <2>5. ScanInv'
    <3>1. OpenedBefore' => OpenedBefore
      BY <2>1 DEF OpenedBefore
    <3>2. OpenedBefore' => AllKnown'
      BY <2>1, <3>1, SameDisk DEF ScanInv
    <3>3. disk.copies[2] = "opens" => mos = "mos" /\ AllRight
      BY <2>1 DEF ScanInv
    <3> QED BY <2>1, <3>2, <3>3, SameDisk DEF ScanInv, AllDatasetsFound
  <2> QED BY <2>2, <2>3, <2>4, <2>5
<1> QED BY <1>1, <1>2

\* A child that can be read replaces what was there by the same, one that
\* cannot was no dataset of the scan.
LEMMA ChildInv == ASSUME Inv, disk' = disk, Child PROVE Inv'
<1> USE DEF Inv
<1>1. CASE ~Readable(Children[i])
  <2>1. Raise /\ Damage
    BY <1>1 DEF Child, Damage, Readable
  <2> QED BY <2>1, RaiseInv
<1>2. CASE Readable(Children[i])
  <2> DEFINE cds == Dirs[Children[i]].head
             v == IF Readable(cds) THEN "mos" ELSE None
  <2>1. /\ pc = "children" /\ mos = "mos" /\ pc' = "children" /\ i' = i + 1
        /\ UNCHANGED <<n, ub, mos>> /\ datasets' = With(cds, v)
    BY <1>2 DEF Child, Goto
  <2>2. /\ Readable(cds) => v = "mos"
        /\ ~Readable(cds) => disk.lost # {}
    BY DEF Readable
  <2> HIDE DEF cds, v
  <2>3. /\ DOMAIN datasets' = {cds} \union DOMAIN datasets
        /\ datasets'[cds] = v
        /\ \A x \in DOMAIN datasets : x # cds => datasets'[x] = datasets[x]
        /\ \A w : w \in Range(datasets') => w = v \/ w \in Range(datasets)
    BY <2>1, Added
  <2>4. TypeOK'
    BY <2>1 DEF TypeOK
  <2>5. SelectInv'
    <3>1. SelectedIsRight'
      BY <2>1, SameDisk DEF SelectInv
    <3> QED BY <2>1, <3>1 DEF SelectInv
  <2>6. DamageInv'
    <3>1. None # "mos"
      OBVIOUS
    <3>2. disk.lost = {} => v # None
      BY <2>2, <3>1
    <3> QED BY <2>1, <2>3, <3>2 DEF DamageInv, EndsOnDamageOnly
  <2>7. ScanInv'
    <3>1. AllKnown => AllKnown'
      BY <2>3, SameDisk DEF AllKnown
    <3>2. AllRight => AllRight'
      <4>1. ASSUME AllRight, NEW o \in Objects, Good(o)
            PROVE  o \in DOMAIN datasets' /\ datasets'[o] = "mos"
        <5>1. CASE o = cds
          BY <5>1, <4>1, <2>2, <2>3 DEF Good
        <5>2. CASE o # cds
          BY <5>2, <4>1, <2>3 DEF AllRight
        <5> QED BY <5>1, <5>2
      <4> QED BY <4>1, SameDisk DEF AllRight
    <3>3. OpenedBefore' => OpenedBefore
      BY <2>1 DEF OpenedBefore
    <3>4. OpenedBefore' => AllKnown'
      BY <2>1, <3>1, <3>3 DEF ScanInv
    <3>5. disk.copies[2] = "opens" => mos = "mos" /\ AllRight
      BY <2>1 DEF ScanInv
    <3> QED BY <2>1, <3>2, <3>4, <3>5 DEF ScanInv, AllDatasetsFound
  <2> QED BY <2>4, <2>5, <2>6, <2>7
<1> QED BY <1>1, <1>2

LEMMA OtherChildrenInv == ASSUME Inv, disk' = disk, OtherChildren PROVE Inv'
<1> USE DEF Inv
<1>1. /\ pc = "root" /\ mos = "other" /\ pc' = "children" /\ i' = Len(Children) + 1
      /\ UNCHANGED <<n, ub, mos>>
  BY DEF OtherChildren, Goto
<1>2. DOMAIN datasets \subseteq DOMAIN datasets'
  <2>1. CASE datasets' = datasets
    BY <2>1
  <2>2. ASSUME NEW o, NEW v, datasets' = With(o, v)
        PROVE  DOMAIN datasets \subseteq DOMAIN datasets'
    BY <2>2, Added
  <2> QED BY <2>1, <2>2 DEF OtherChildren
<1>3. TypeOK'
  <2>1. Len(Children) \in Nat
    OBVIOUS
  <2> QED BY <1>1, <2>1 DEF TypeOK, Places
<1>4. SelectInv'
  <2>1. SelectedIsRight'
    BY <1>1, SameDisk DEF SelectInv
  <2> QED BY <1>1, <2>1 DEF SelectInv
<1>5. DamageInv'
  BY <1>1 DEF DamageInv, EndsOnDamageOnly
<1>6. ScanInv'
  <2>1. AllKnown => AllKnown'
    BY <1>2, SameDisk DEF AllKnown
  <2>2. OpenedBefore' => OpenedBefore
    BY <1>1 DEF OpenedBefore
  <2>3. OpenedBefore' => AllKnown'
    BY <1>1, <2>1, <2>2 DEF ScanInv
  <2>4. disk.copies[2] # "opens"
    BY <1>1 DEF ScanInv
  <2> QED BY <1>1, <2>3, <2>4 DEF ScanInv, AllDatasetsFound
<1> QED BY <1>3, <1>4, <1>5, <1>6

LEMMA ReportInv == ASSUME Inv, disk' = disk, Report PROVE Inv'
<1> USE DEF Inv
<1>1. CASE None \in Range(datasets)
  <2>1. Raise /\ Damage
    BY <1>1 DEF Report, DamageInv, Damage
  <2> QED BY <2>1, RaiseInv
<1>2. CASE None \notin Range(datasets)
  <2>1. /\ pc = "children" /\ pc' = "done" /\ i' = 1
        /\ UNCHANGED <<n, ub, mos, datasets>>
    BY <1>2 DEF Report, Goto
  <2>2. TypeOK'
    BY <2>1 DEF TypeOK, Places
  <2>3. SelectInv'
    <3>1. SelectedIsRight'
      BY <2>1, SameDisk DEF SelectInv
    <3> QED BY <2>1, <3>1 DEF SelectInv
  <2>4. DamageInv'
    BY <2>1 DEF DamageInv, EndsOnDamageOnly
  <2>5. ScanInv'
    <3>1. OpenedBefore' => OpenedBefore
      BY <2>1 DEF OpenedBefore
    <3>2. OpenedBefore' => AllKnown'
      BY <2>1, <3>1, SameDisk DEF ScanInv
    <3>3. (\E c \in 0..2 : disk.copies[c] = "opens") => AllKnown
      BY <2>1 DEF ScanInv, OpenedBefore
    <3>4. disk.copies[2] = "opens" => AllRight
      BY <2>1 DEF ScanInv
    <3>5. AllDatasetsFound'
      <4>1. ASSUME NEW o \in DOMAIN Datasets, Readable(o),
                   \E c \in 0..2 : disk.copies[c] = "opens"
            PROVE  o \in DOMAIN datasets /\ (disk.copies[2] = "opens" => datasets[o] = "mos")
        <5>1. o \in Objects /\ Good(o)
          BY <4>1 DEF Good
        <5> QED BY <4>1, <5>1, <3>3, <3>4 DEF AllKnown, AllRight
      <4> QED BY <1>2, <2>1, <4>1 DEF AllDatasetsFound, Readable
    <3> QED BY <2>1, <3>2, <3>5 DEF ScanInv
  <2> QED BY <2>2, <2>3, <2>4, <2>5
<1> QED BY <1>1, <1>2

\* What ends the program in the middle of its work.
LEMMA DamageRaises ==
  ASSUME Inv, disk' = disk, LabelRaises \/ OpenLost \/ ScanRaises \/ OtherRaises
  PROVE  Inv'
<1>1. CASE LabelRaises
  BY <1>1, RaiseInv DEF LabelRaises, Damage
<1>2. CASE OpenLost
  <2>1. i \in 0..2
    BY <1>2 DEF OpenLost, Inv, TypeOK
  <2> QED BY <1>2, <2>1, RaiseInv DEF OpenLost, Damage
<1>3. CASE ScanRaises
  <2>1. ~ChildZap(n)
    BY <1>3 DEF ScanRaises
  <2>2. disk.lost # {}
    BY <2>1 DEF ChildZap, Readable
  <2> QED BY <1>3, <2>2, RaiseInv DEF ScanRaises, Damage
<1>4. CASE OtherRaises
  BY <1>4, RaiseInv DEF OtherRaises, Inv, DamageInv, Damage
<1> QED BY <1>1, <1>2, <1>3, <1>4

LEMMA NextInv == Inv /\ [Next]_vars => Inv'
<1> SUFFICES ASSUME Inv, [Next]_vars PROVE Inv'
  OBVIOUS
<1>1. CASE UNCHANGED vars
  <2> USE <1>1 DEF vars, Inv
  <2>1. TypeOK'
    BY DEF TypeOK
  <2>2. SelectInv'
    BY SameDisk DEF SelectInv
  <2>3. DamageInv'
    <3>1. EndsOnDamageOnly'
      BY SameDisk DEF EndsOnDamageOnly, DamageInv
    <3> QED BY <3>1 DEF DamageInv
  <2>4. ScanInv'
    <3>1. OpenedBefore' => OpenedBefore
      BY DEF OpenedBefore
    <3>2. AllDatasetsFound'
      BY DEF AllDatasetsFound, Readable, ScanInv
    <3> QED BY <3>1, <3>2, SameDisk DEF ScanInv
  <2> QED BY <2>1, <2>2, <2>3, <2>4
<1>2. CASE Next
  <2>1. disk' = disk /\ Step
    BY <1>2 DEF Next
  <2> QED BY <2>1, ReadLabelsInv, SelectStepInv, OpenInv, OpenRaisesInv, ScanObjectInv,
          ScanOtherInv, ScanEndsInv, CopiesEndInv, RootDirectoryInv, ChildInv,
          OtherChildrenInv, ReportInv, DamageRaises DEF Step
<1> QED BY <1>1, <1>2

LEMMA InvHolds == Spec => []Inv
  BY InitInv, NextInv, PTL DEF Spec

\* Whatever the array holds, the program goes on with a valid uberblock, that
\* of the txg asked for or the newest (label.py 79-92, zfs_rescue.py 125-131).
THEOREM UberblockIsRight == Spec => []SelectedIsRight
<1>1. Inv => SelectedIsRight
  BY DEF Inv, SelectInv
<1> QED BY <1>1, InvHolds, PTL

\* The program ends early for damage only: nothing the order of the copies or
\* of the objects does makes it give up (zfs_rescue.py 97-175).
THEOREM OnlyDamageEndsIt == Spec => []EndsOnDamageOnly
<1>1. Inv => EndsOnDamageOnly
  BY DEF Inv, DamageInv
<1> QED BY <1>1, InvHolds, PTL

\* Every readable dataset of a MOS of any size is known at the end, when one of
\* the three copies opened (zfs_rescue.py 138-157, 178-182).
THEOREM DatasetsAreKnown == Spec => []AllDatasetsFound
<1>1. Inv => AllDatasetsFound
  BY DEF Inv, ScanInv
<1> QED BY <1>1, InvHolds, PTL
=============================================================================
