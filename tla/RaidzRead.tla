----------------------------- MODULE RaidzRead ------------------------------
(***************************************************************************)
(* RaidzDevice._read_physical (zfs/zio.py 167-315) over BlockFiles: the    *)
(* columns of a block, their pieces read one after another, the parity     *)
(* check, the repair of one device, and the data put together.             *)
(*                                                                         *)
(* The unit is a sector, 1 << ashift bytes.  Its content is symbolic: the  *)
(* set of the data sectors of the block that are xored in it, {k} for data *)
(* sector k, and {-1} for what has nothing to do with the block.           *)
(***************************************************************************)
EXTENDS BlockFiles, SequencesExt, FiniteSetsExt

CONSTANTS
  Pools,       \* [devs, repair, bad, gone]: child_devs, the arguments repair
               \* and bad (a sequence), and the device whose content is lost
  NParity,     \* nparity
  Reserve,     \* the 4 MiB in front of a child device's first sector
  SwapUnit,    \* the sectors in 1 MiB
  OffsetLimit, \* the sector at 8 TiB
  Requests,    \* [b, s]: the first sector of a block and its number of sectors
  MaxReads,
  None, Raised

ASSUME RaidzAssumption ==
  /\ NParity = 1     \* "Raidz with parity != 1 is not supported!"
  /\ \A p \in Pools : /\ p.devs \in Seq(Range(p.devs)) /\ Len(p.devs) >= 2
                      /\ IsInjective(p.devs) /\ p.repair \in BOOLEAN
  /\ Reserve \in Nat /\ SwapUnit \in Nat \ {0} /\ OffsetLimit \in Nat
  /\ \A r \in Requests : r.b \in Nat /\ r.s \in Nat \ {0}
  /\ MaxReads \in Nat
  /\ None \notin Nat /\ Raised \notin Seq(SUBSET Int)

VARIABLES
  pool,
  req,     \* the request that is read, or None
  cols,    \* rm_cols
  pieces,  \* how many columns were read
  data,    \* what readv has, as <<file, sector>>
  result,  \* the last answer: [of, val], where val is the content, None or Raised
  reads

vars == <<files, pool, req, cols, pieces, data, result, reads>>

dcols == Len(pool.devs)

Init ==
  /\ FilesInit
  /\ pool \in Pools
  /\ req = None /\ cols = <<>> /\ pieces = 0 /\ data = <<>>
  /\ result = None /\ reads = 0

----------------------------------------------------------------------------
\* _map_alloc

Roundup(x, n) == n * ((x + n - 1) \div n)

Quotient(r)  == r.s \div (dcols - NParity)
Remainder(r) == r.s - Quotient(r) * (dcols - NParity)
BigCols(r)   == IF Remainder(r) > 0 THEN Remainder(r) + NParity ELSE 0
Total(r)     == r.s + NParity * (Quotient(r) + IF Remainder(r) > 0 THEN 1 ELSE 0)
AccessedCols(r) == IF Quotient(r) = 0 THEN BigCols(r) ELSE dcols
ScannedCols(r) ==
  IF Quotient(r) # 0 THEN dcols
  ELSE LET n == Roundup(BigCols(r), NParity + 1) IN IF dcols <= n THEN dcols ELSE n

ColSize(r, c) ==
  IF c >= AccessedCols(r) THEN 0
  ELSE Quotient(r) + (IF c < BigCols(r) THEN 1 ELSE 0)

\* Mutant: a column that wraps stays in its row.
ColumnInRow(r, c) ==
  [dev |-> ((r.b % dcols) + c) % dcols, off |-> r.b \div dcols, size |-> ColSize(r, c)]
\* Column c, from device f + c on; past the last device it is one row down.
Column(r, c) ==
  LET f == r.b % dcols IN
  [dev  |-> IF f + c >= dcols THEN f + c - dcols ELSE f + c,
   off  |-> (r.b \div dcols) + (IF f + c >= dcols THEN 1 ELSE 0),
   size |-> ColSize(r, c)]

Swapped(r) == NParity = 1 /\ (r.b \div SwapUnit) % 2 = 1

Swap(r, cs) ==
  IF Swapped(r)
    THEN [cs EXCEPT ![1].dev = cs[2].dev, ![1].off = cs[2].off,
                    ![2].dev = cs[1].dev, ![2].off = cs[1].off]
    ELSE cs

\* rm_cols takes the columns one after the other, those that have a size.
MapAlloc(r) ==
  LET kept[n \in 0..ScannedCols(r)] ==
        IF n = 0 THEN <<>>
        ELSE IF ColSize(r, n - 1) > 0 THEN Append(kept[n-1], Column(r, n - 1)) ELSE kept[n-1]
  IN  Swap(r, kept[ScannedCols(r)])

----------------------------------------------------------------------------
\* What the disks hold for the block of r, and the meaning of a cell

\* RAID-Z gives a block the sectors r.b, r.b + 1, ... of the whole device, which
\* count through the children, one sector each, row after row.  The first
\* column of a stripe is its parity.
Stripe(r, c) == {j \in 0..Total(r) : c + j * dcols < Total(r)}
DataIndex(r, c, j) ==
  j + MapThenSumSet(LAMBDA d : Cardinality(Stripe(r, d)), 1..(c - 1))
Content(r, c, j) ==
  IF c > 0 THEN {DataIndex(r, c, j)}
  ELSE {DataIndex(r, d, j) : d \in {e \in 1..(dcols - 1) : j \in Stripe(r, e)}}

\* Sector a of child d, the columns 0 and 1 changed over where they are
OnDisk(r, d, a) ==
  LET p == (a - Reserve) * dcols + d - r.b
      c == p % dcols
  IN  IF pool.gone = d \/ a < Reserve \/ p < 0 \/ p >= Total(r) THEN {-1}
      ELSE Content(r, IF Swapped(r) /\ c < 2 THEN 1 - c ELSE c, p \div dcols)

\* Cell <<file, n>> is sector n of the part of a child that file has.
PartsIn(file) ==
  UNION {LET of == table[pool.devs[d + 1]].files IN {<<d, k>> : k \in {k \in DOMAIN of : of[k] = file}} :
           d \in {d \in 0..(dcols - 1) : pool.devs[d + 1] \in DOMAIN table}}
Holds(r, cell) ==
  IF PartsIn(cell[1]) = {} THEN {-1}
  ELSE LET x == CHOOSE x \in PartsIn(cell[1]) : TRUE
       IN  OnDisk(r, x[1], (x[2] - 1) * Part + cell[2])

----------------------------------------------------------------------------
\* _read_physical

Issue(r) ==
  /\ req = None /\ reads < MaxReads
  /\ r.b <= OffsetLimit
  /\ req' = r /\ cols' = MapAlloc(r)
  /\ pieces' = 0 /\ data' = <<>> /\ result' = None
  /\ UNCHANGED <<files, pool, reads>>

TooFar(r) ==
  /\ req = None /\ reads < MaxReads
  /\ r.b > OffsetLimit
  /\ result' = [of |-> r, val |-> None] /\ reads' = reads + 1
  /\ UNCHANGED <<files, pool, req, cols, pieces, data>>

\* One turn of _readv_files
ReadPiece ==
  /\ req # None /\ pieces < Len(cols)
  /\ LET col == cols[pieces + 1] IN
     \E cells \in {CellsOf(file, col.off + Reserve, col.size) : file \in DOMAIN Length} :
       /\ ReadFile(pool.devs[col.dev + 1], col.off + Reserve, col.size, cells)
       /\ data' = data \o cells
  /\ pieces' = pieces + 1
  /\ UNCHANGED <<pool, req, cols, result, reads>>

Answer(value) ==
  /\ result' = [of |-> req, val |-> value] /\ reads' = reads + 1
  /\ req' = None /\ cols' = <<>> /\ pieces' = 0 /\ data' = <<>>
  /\ UNCHANGED pool

ReadPieceRaises ==
  /\ req # None /\ pieces < Len(cols)
  /\ LET col == cols[pieces + 1] IN
     ReadFileRaises(pool.devs[col.dev + 1], col.off + Reserve)
  /\ Answer(Raised)

\* piece = data[ptr:ptr+size], which may be past the end of the data
Piece(n) ==
  LET ptr  == FoldLeftDomain(LAMBDA x, k : IF k < n THEN x + cols[k].size ELSE x, 0, cols)
      last == IF ptr + cols[n].size <= Len(data) THEN ptr + cols[n].size ELSE Len(data)
  IN  [k \in 1..(IF last > ptr THEN last - ptr ELSE 0) |-> Holds(req, data[ptr + k])]

ColData == [n \in DOMAIN cols |-> Piece(n)]

\* _xor(p, d), an IndexError where d is the longer
Fits(p, d) == Len(d) <= Len(p)
Xor(p, d) == [k \in DOMAIN p |-> IF k <= Len(d) THEN SymDiff(p[k], d[k]) ELSE p[k]]

\* Mutant: the lost column is xored too.
AllColumns(n) == 2..Len(cols)
AllButBad(n) == (2..Len(cols)) \ {n}

\* The column of bad[0] when it has data, or 0
BadColumn ==
  LET n == SelectInSeq(cols, LAMBDA col : <<col.dev>> = pool.bad)
  IN  IF pool.repair /\ n > 1 THEN n ELSE 0

\* col_data[bad] = parity[:bad_size]
Repaired(cd, n) ==
  IF n = 0 THEN cd
  ELSE LET parity == FoldLeftDomain(
             LAMBDA p, k : IF k \in AllButBad(n) THEN Xor(p, cd[k]) ELSE p, cd[1], cd)
       IN  [cd EXCEPT ![n] = SubSeq(parity, 1, IF Len(parity) <= cols[n].size
                                                 THEN Len(parity) ELSE cols[n].size)]

\* The parity check and the repair raise alike; the check's outcome is unused.
ReadEnds ==
  /\ req # None /\ pieces = Len(cols)
  /\ LET cd == ColData IN
     IF \A n \in DOMAIN cols : Fits(cd[1], cd[n])
       THEN Answer(FlattenSeq(Tail(Repaired(cd, BadColumn))))
       ELSE Answer(Raised)
  /\ UNCHANGED files

Next ==
  \/ \E r \in Requests : Issue(r) \/ TooFar(r)
  \/ ReadPiece \/ ReadPieceRaises \/ ReadEnds

Spec == Init /\ [][Next]_vars

----------------------------------------------------------------------------
\* Properties

\* A file that stays open is read only for the part it holds, though device,
\* part and place all come from one number (proxy.py 148-161).
HandlesAreTheParts ==
  \A key \in DOMAIN handles : key[1] \in DOMAIN table =>
    handles[key] = PartOf(key[1], key[2] * Part)

\* The columns of a block are, sector for sector and each once, what RAID-Z
\* allocated for it: the sectors b, b + 1, ... of the whole device, at any
\* place, of any size, for any number of children; and what the C++ version of
\* the map asserts (extractor/zio.cpp 146, 189, 193, 229, 230) holds of the Python
\* one, which swaps columns 0 and 1 and xors into the first without a check
\* (zio.py 249-315).
ColumnsAreTheAllocation ==
  req # None =>
    LET sectors(n) == {(cols[n].off + j) * dcols + cols[n].dev : j \in 0..(cols[n].size - 1)}
    IN  /\ UNION {sectors(n) : n \in DOMAIN cols} = req.b..(req.b + Total(req) - 1)
        /\ MapThenSumSet(LAMBDA n : cols[n].size, DOMAIN cols) = Total(req)
        /\ AccessedCols(req) <= ScannedCols(req)
        /\ Roundup(Total(req), NParity + 1) - Total(req) <= NParity
        /\ Len(cols) >= 2 /\ cols[1].size = cols[2].size

\* The files hold all of a column, in one of them.
Whole(col) ==
  LET dev == pool.devs[col.dev + 1]
      a   == col.off + Reserve
  IN  /\ dev \in DOMAIN table
      /\ table[dev].kind = "parts" => a \div Part < Len(table[dev].files)
      /\ UseParts => table[dev].kind = "parts"
      /\ PartOf(dev, a) \in DOMAIN Length
      /\ (IF UseParts THEN a % Part ELSE a) + col.size <= Length[PartOf(dev, a)]

Answered == result # None
Columns  == MapAlloc(result.of)
Correct(n) == IsPrefix([k \in 1..n |-> {k - 1}], result.val)

\* A block none of whose columns is cut short comes back as it was written when
\* no disk is lost, when the lost disk is the one to repair, and when it has
\* only the parity of this block (zio.py 180-247).
ReadRestoresData ==
  Answered =>
    \/ result.of.b > OffsetLimit
    \/ \E n \in DOMAIN Columns : ~ Whole(Columns[n])
    \/ /\ pool.gone # None
       /\ ~ (pool.repair /\ pool.bad = <<pool.gone>>)
       /\ \/ \E n \in 2..Len(Columns) : Columns[n].dev = pool.gone
          \/ pool.repair /\ pool.bad # <<>> /\ Columns[1].dev = pool.gone
    \/ result.val # Raised /\ Len(result.val) = result.of.s /\ Correct(result.of.s)

\* A column cut short, at the end of a part or of a file, spoils no data of the
\* columns before it, while those after it are shifted; and a read raises, for a
\* file it has not or a parity that is too short, only when a column is cut
\* (proxy.py 157-170; zio.py 218-222, 244-247).
RightUpToTheCut ==
  Answered /\ result.val # None =>
    IF result.val = Raised THEN \E n \in DOMAIN Columns : ~ Whole(Columns[n])
    ELSE pool.gone = None /\ ~ pool.repair =>
           \A n \in DOMAIN Columns :
             (\A m \in 1..n : Whole(Columns[m])) =>
               Correct(MapThenSumSet(LAMBDA m : Columns[m].size, 2..n))
=============================================================================
