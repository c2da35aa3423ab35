----------------------------- MODULE BlockFiles -----------------------------
(***************************************************************************)
(* BlockProxy over local files (block_proxy/proxy.py 47-65, 147-170): a    *)
(* table says which file holds a device, or which files hold its parts of  *)
(* 1 TiB, and files stay open once they were read.  A cell of a file, its  *)
(* unit here, is a sector; reading gives the cells that were read.         *)
(***************************************************************************)
EXTENDS Integers, Sequences, FiniteSets, Functions

CONSTANTS
  Part,    \* the sectors in a part
  Length,  \* Length[file], for the files that exist
  Tables   \* what the JSON file may say: dev -> [kind, files]

\* kind "path": one file; "parts": a list.  _init_files looks at the sizes.
ASSUME FilesAssumption ==
  /\ Part \in Nat \ {0}
  /\ \A file \in DOMAIN Length : Length[file] \in Nat
  /\ \A t \in Tables : \A dev \in DOMAIN t :
       /\ t[dev].kind \in {"path", "parts"}
       /\ t[dev].files \in Seq(Range(t[dev].files)) /\ Len(t[dev].files) > 0
       /\ t[dev].kind = "path" => Len(t[dev].files) = 1
       /\ t[dev].kind = "parts" =>
            \A k \in DOMAIN t[dev].files :
              /\ t[dev].files[k] \in DOMAIN Length
              /\ Length[t[dev].files[k]] <= Part
              /\ k < Len(t[dev].files) => Length[t[dev].files[k]] = Part

\* No two parts are in one file.
ASSUME TablesAssumption ==
  \A t \in Tables : \A dev, other \in DOMAIN t :
    \A k \in DOMAIN t[dev].files, l \in DOMAIN t[other].files :
      t[dev].files[k] = t[other].files[l] => dev = other /\ k = l

VARIABLES
  table,   \* _trans_table
  handles  \* _device_files: key -> the file that is open under it

files == <<table, handles>>

FilesInit ==
  /\ table \in Tables
  /\ handles = <<>>

\* One list in the table makes all devices ones with parts.
UseParts == \E dev \in DOMAIN table : table[dev].kind = "parts"

\* Mutant: the number of the part is not in the key.
KeyOfDevice(dev, a) == <<dev, 0>>
\* dev_path_r: the path, with ".%d" of the part
Key(dev, a) == <<dev, IF UseParts THEN a \div Part ELSE 0>>

\* trans_path; a part that is not there, or a character of a path that is not
\* a list, is no file.
Translated(dev, a) ==
  CASE dev \notin DOMAIN table -> {dev}
    [] dev \in DOMAIN table /\ ~ UseParts -> {table[dev].files[1]}
    [] OTHER -> IF table[dev].kind = "parts" /\ a \div Part < Len(table[dev].files)
                  THEN {table[dev].files[a \div Part + 1]} ELSE {}

\* Mutant: the place in the device is taken for the place in the part.
SeekInDevice(a) == a
Seek(a) == IF UseParts THEN a % Part ELSE a

\* f.seek(offset); f.read(count): no cell past the end of the file.
CellsOf(file, a, n) ==
  LET last == IF Seek(a) + n <= Length[file] THEN Seek(a) + n ELSE Length[file]
  IN  [k \in 1..(IF last > Seek(a) THEN last - Seek(a) ELSE 0) |-> <<file, Seek(a) + k - 1>>]

\* _read_files(dev, a, n) gives cells and leaves its file open ...
ReadFile(dev, a, n, cells) ==
  \E file \in (IF Key(dev, a) \in DOMAIN handles THEN {handles[Key(dev, a)]}
               ELSE Translated(dev, a) \intersect DOMAIN Length) :
    /\ cells = CellsOf(file, a, n)
    /\ handles' = [key \in DOMAIN handles \union {Key(dev, a)} |->
                     IF key = Key(dev, a) THEN file ELSE handles[key]]
    /\ UNCHANGED table

\* ... or raises: there is no such part, or open() fails.
ReadFileRaises(dev, a) ==
  /\ Key(dev, a) \notin DOMAIN handles
  /\ Translated(dev, a) \intersect DOMAIN Length = {}
  /\ UNCHANGED files

----------------------------------------------------------------------------
\* What the table means

\* The file of the part of dev that sector a is in
PartOf(dev, a) ==
  IF table[dev].kind = "path" THEN table[dev].files[1]
  ELSE table[dev].files[a \div Part + 1]
=============================================================================
