------------------------------ MODULE Analyse ------------------------------
(***************************************************************************)
(* Dataset.analyse (zfs/dataset.py), SystemAttr (zfs/sa.py) and            *)
(* BonusSysAttr (zfs/dnode.py): four ZAPs are parsed one after the other,  *)
(* the master node, the object with the attribute tables, the registry and *)
(* the layouts; with these the bonus of every file is unpacked, and from   *)
(* it the archive takes the target of a link.                              *)
(*                                                                         *)
(* Bytes go in pairs, the unit of the lengths in a bonus.  Attributes go   *)
(* by their numbers.  What follows from a table whose contents were        *)
(* altered is left out.                                                    *)
(***************************************************************************)
EXTENDS FatZap

CONSTANTS
  Datasets,   \* [master, sa, registry, layouts: ZAPs; root: the root directory; files]
  ROOT, SA_ATTRS, LAYOUTS, REGISTRY,
  Registered, \* the pairs of bytes of each attribute, 0 if they vary
  Symlink,    \* the attribute "zpl_symlink",
  Size,       \* and "zpl_size"
  Room,       \* the pairs of bytes a dnode of 512 bytes has for its bonus
  MaxFaults   \* how many blocks and dnodes fail

ASSUME AnalyseAssumption ==
  /\ MaxFaults \in Nat /\ Room \in Nat
  /\ \A ds \in Datasets : \A t \in {ds.master, ds.sa, ds.registry, ds.layouts} :
       t.levels \in Nat \ {0} /\ t.blocks # <<>>
  /\ \A ds \in Datasets : \A f \in ds.files : Size \in Range(f.layout)

VARIABLES
  dataset,
  stage,    \* "open", "master", "tables", "sa", "registry", "layouts", "root",
            \* "analysed", "raised"
  faults,   \* those before the ZAP that is parsed now
  root,     \* _rootdir_id
  reg, lay, \* _reg, as the length of each attribute, and _lay; None without _sa
  read      \* the file that was asked for, its attributes and its link

vars == <<zapvars, dataset, stage, faults, root, reg, lay, read>>

----------------------------------------------------------------------------
\* What ZFS writes into a bonus: a header, the lengths of the variable
\* attributes, and the attributes in the order of the layout, each from a
\* whole word of four pairs on.

\* What a pair of bytes is of, beside the attributes.
Pad == 0
Header == -1
Length == -2

Variable(layout) == SelectSeq(layout, LAMBDA a : Registered[a] = 0)

\* SA_HDR_SIZE_MATCH_LAYOUT, in words: the first length has room in the first.
HeaderWords(layout) ==
  LET nvar == Len(Variable(layout)) IN IF nvar > 1 THEN 1 + (nvar + 2) \div 4 ELSE 1

AttrLen(f, a) == IF Registered[a] = 0 THEN f.len[a] ELSE Registered[a]
Cells(f, a) == [i \in 1..AttrLen(f, a) |-> [of |-> a, n |-> i]]
PadTo(s, unit) == s \o [i \in 1..((-Len(s)) % unit) |-> [of |-> Pad, n |-> 0]]

Bonus(f) ==
  LET var == Variable(f.layout)
      lengths == [i \in DOMAIN var |-> [of |-> Length, n |-> f.len[var[i]]]]
      header == [i \in 1..3 |-> [of |-> Header, n |-> i]] \o lengths
      first == header \o [i \in 1..(4 * HeaderWords(f.layout) - Len(header)) |->
                            [of |-> Pad, n |-> 0]]
      upto[k \in 0..Len(f.layout)] ==
        IF k = 0 THEN first ELSE upto[k-1] \o PadTo(Cells(f, f.layout[k]), 4)
      all == upto[Len(f.layout)] IN
  SubSeq(all, 1, IF Len(all) < Room THEN Len(all) ELSE Room)

----------------------------------------------------------------------------
\* Dataset.analyse and SystemAttr.__init__

Init ==
  /\ dataset \in Datasets
  /\ ZapIdle(dataset.master)
  /\ stage = "open" /\ faults = 0 /\ root = None /\ reg = None /\ lay = None /\ read = None

Spent == faults + Cardinality(Failed)
Fault == Spent < MaxFaults /\ faults' = faults + 1

Returned == pc = "done" /\ NotAltered
IsZap    == Returned /\ result \notin {None, Raised}
Has(x)   == <<x>> \in DOMAIN result
Word(x)  == result[<<x>>][1]    \* a value of eight bytes is one number

\* The dnode of the table is there, and its ZAP is parsed.
Parse(t, name) ==
  /\ ZapBegins(t, MaxFaults - Spent)
  /\ faults' = Spent /\ stage' = name

OpenMaster ==
  /\ stage = "open"
  /\ Parse(dataset.master, "master")
  /\ UNCHANGED <<dataset, root, reg, lay, read>>

\* "Master node missing/unreachable", or its read raises.
MasterLost(raises) ==
  /\ stage = "open" /\ Fault
  /\ stage' = IF raises THEN "raised" ELSE "analysed"
  /\ UNCHANGED <<zapvars, dataset, root, reg, lay, read>>

\* MicroZap.debug() of a ZAP that was never parsed prints hex(None).
DebugRaises == data = <<>>

TakeMaster ==
  /\ stage = "master" /\ IsZap
  /\ IF Has(ROOT) THEN root' = Word(ROOT) /\ stage' = "tables"
     ELSE root' = None /\ stage' = IF DebugRaises THEN "raised" ELSE "tables"
  /\ UNCHANGED <<zapvars, dataset, faults, reg, lay, read>>

\* zap_factory() is not in the try.
NoMaster ==
  /\ stage = "master" /\ Returned /\ ~IsZap
  /\ stage' = IF result = Raised THEN "raised" ELSE "analysed"
  /\ UNCHANGED <<zapvars, dataset, faults, root, reg, lay, read>>

OpenTables ==
  /\ stage = "tables" /\ Has(SA_ATTRS)
  /\ Parse(dataset.sa, "sa")
  /\ UNCHANGED <<dataset, root, reg, lay, read>>

TakeTables ==
  /\ stage = "sa" /\ IsZap /\ Has(LAYOUTS) /\ Has(REGISTRY)
  /\ Parse(dataset.registry, "registry")
  /\ UNCHANGED <<dataset, root, reg, lay, read>>

\* Mutant: an attribute without a length is no attribute.
RegistryOfFixed(z) ==
  LET rows == {z[x][1] : x \in {y \in DOMAIN z : z[y][1].len # 0}} IN
  [num \in {r.num : r \in rows} |-> (CHOOSE r \in rows : r.num = num).len]
RegistryOf(z) ==
  LET rows == {z[x][1] : x \in DOMAIN z} IN
  [num \in {r.num : r \in rows} |-> (CHOOSE r \in rows : r.num = num).len]

TakeRegistry ==
  /\ stage = "registry" /\ IsZap
  /\ reg' = RegistryOf(result)
  /\ Parse(dataset.layouts, "layouts")
  /\ UNCHANGED <<dataset, root, lay, read>>

\* Four attributes are eight bytes, which the ZAP gives as a number without
\* len(); an attribute that is not registered is a KeyError.
Unpacks(layout) == Len(layout) # 4 /\ Range(layout) \subseteq DOMAIN reg

TakeLayouts ==
  /\ stage = "layouts" /\ IsZap
  /\ \A x \in DOMAIN result : Unpacks(result[x])
  /\ lay' = result /\ stage' = "root"
  /\ UNCHANGED <<zapvars, dataset, faults, root, reg, read>>

\* "Unable to parse System Attribute tables": whatever raises in SystemAttr
\* leaves the dataset without _sa, a dnode that cannot be read among it.
Usable ==
  CASE stage = "tables"   -> Has(SA_ATTRS)
    [] stage = "sa"       -> IsZap /\ Has(LAYOUTS) /\ Has(REGISTRY)
    [] stage = "registry" -> IsZap
    [] stage = "layouts"  -> IsZap /\ \A x \in DOMAIN result : Unpacks(result[x])

NoTables ==
  /\ stage \in {"tables", "sa", "registry", "layouts"} /\ Returned
  /\ IF Usable THEN stage \in {"tables", "sa"} /\ Fault ELSE UNCHANGED faults
  /\ stage' = "root" /\ reg' = None
  /\ UNCHANGED <<zapvars, dataset, root, lay, read>>

\* The root directory's dnode is looked at and nothing is kept of it.
CheckRoot(raises) ==
  /\ stage = "root"
  /\ IF raises THEN root # None /\ Fault /\ stage' = "raised"
     ELSE stage' = "analysed" /\ UNCHANGED faults
  /\ UNCHANGED <<zapvars, dataset, root, reg, lay, read>>

----------------------------------------------------------------------------
\* BonusSysAttr.__init__ and the links of _archive

\* The byte of the layout has its low eight bits; the two others are in the
\* byte of the header's size.
LayoutId(f) == f.num % 256
\* Mutant: "skip sa_hdr_phys_t".
FirstHeader(f) == 4
HeaderSize(f) == 4 * HeaderWords(f.layout) + f.num \div 256

\* Attribute a of the bonus, after those in s; a slice past the end is short,
\* an unpack of one raises.
WithAttr(s, a, bonus) ==
  LET fixed == reg[a]
      hasLength == 4 + s.lengths <= Len(bonus)
      len == IF fixed = 0 THEN bonus[4 + s.lengths].n ELSE fixed
      end == IF s.ptr + len < Len(bonus) THEN s.ptr + len ELSE Len(bonus)
      slice == SubSeq(bonus, s.ptr + 1, end)
      unpacked == fixed \in {2, 4, 8}
      value == IF unpacked \/ a = Symlink THEN slice ELSE None IN
  IF \/ fixed = 0 /\ ~hasLength
     \/ unpacked /\ Len(slice) < len
  THEN [s EXCEPT !.ok = FALSE]
  ELSE [ok |-> TRUE, ptr |-> s.ptr + len,
        lengths |-> IF fixed = 0 THEN s.lengths + 1 ELSE s.lengths,
        attrs |-> [x \in DOMAIN s.attrs \union {a} |-> IF x = a THEN value ELSE s.attrs[x]]]

\* What the try got to before it raised, if it did.
Unpacked(f) ==
  LET bonus == Bonus(f)
      layout == lay[<<LayoutId(f)>>]
      after[k \in 0..Len(layout)] ==
        IF k = 0 THEN [ok |-> TRUE, ptr |-> HeaderSize(f), lengths |-> 0, attrs |-> <<>>]
        ELSE IF after[k-1].ok THEN WithAttr(after[k-1], layout[k], bonus) ELSE after[k-1]
      s == after[Len(layout)] IN
  [attrs |-> s.attrs,
   inline |-> IF s.ok THEN SubSeq(bonus, s.ptr + 1, Len(bonus)) ELSE None]

HasLayout(f) == lay # None /\ <<LayoutId(f)>> \in DOMAIN lay
Attributes(f) == IF HasLayout(f) THEN Unpacked(f) ELSE [attrs |-> <<>>, inline |-> None]

\* A link is written with zp_inline_content[:zp_size] if there is so much of
\* it. If not, a FileObj finds no block, and the link is left out.
LinkOf(f, b) ==
  IF b.inline = None \/ Size \notin DOMAIN b.attrs THEN Raised
  ELSE IF f.len[Symlink] > Len(b.inline) THEN None
  ELSE SubSeq(b.inline, 1, f.len[Symlink])

IsLink(f) == Symlink \in Range(f.layout)

ReadFile ==
  /\ stage = "analysed" /\ read = None
  /\ \E f \in dataset.files :
       LET b == Attributes(f) IN
       read' = [file |-> f, attrs |-> b.attrs,
                link |-> IF IsLink(f) /\ f.num < 256 THEN LinkOf(f, b) ELSE None]
  /\ UNCHANGED <<zapvars, dataset, stage, faults, root, reg, lay>>

----------------------------------------------------------------------------
AnalyseStep ==
  \/ OpenMaster \/ TakeMaster \/ NoMaster \/ OpenTables \/ TakeTables
  \/ TakeRegistry \/ TakeLayouts \/ NoTables \/ ReadFile
  \/ \E raises \in BOOLEAN : MasterLost(raises) \/ CheckRoot(raises)
Zap == ZapStep /\ UNCHANGED <<dataset, stage, faults, root, reg, lay, read>>
Program == AnalyseStep \/ Zap
Disk == (Alter \/ AlterIndirect) /\ UNCHANGED <<dataset, stage, faults, root, reg, lay, read>>

Next == Program \/ Disk

\* The program is one thread that runs until it returns or raises.
Spec == Init /\ [][Next]_vars /\ WF_vars(Program)

----------------------------------------------------------------------------
\* Properties

\* All attributes before a in the layout fill whole words.
Aligned(f, a) ==
  \A i, j \in DOMAIN f.layout : (i < j /\ f.layout[j] = a) => AttrLen(f, f.layout[i]) % 4 = 0

\* Whatever was lost of the tables, an attribute that a file has is the one ZFS
\* wrote, if its layout's number fits a byte and all attributes before it fill
\* whole words; of a bonus that is cut a link's target is a part
\* (dnode.py 203-247).
AttributesAreTrue ==
  (read # None /\ read.file.num < 256) =>
    \A a \in DOMAIN read.attrs :
      /\ a \in Range(read.file.layout)
      /\ (read.attrs[a] # None /\ Aligned(read.file, a)) =>
           IF a = Symlink THEN IsPrefix(read.attrs[a], Cells(read.file, a))
           ELSE read.attrs[a] = Cells(read.file, a)

Fits(f) == f.num < 256 /\ Len(Bonus(f)) < Room
Layouts(ds) == {e.value : e \in UNION {TrueEntries(b) : b \in Range(ds.layouts.blocks)}}
Supported(ds) ==
  /\ \A t \in {ds.master, ds.sa, ds.registry, ds.layouts} :
       t.levels <= 2 /\ SmallPointers(t)
  /\ \A layout \in Layouts(ds) : Len(layout) # 4

\* Only damage raises out of analyse() or costs the root directory, which is
\* never a wrong one. A file has all of its attributes or none, and has all of
\* them if nothing was lost and no layout has exactly four attributes
\* (dataset.py 219-255, sa.py 35-61, dnode.py 220-247).
AnalysisLosesToDamageOnly ==
  /\ root \in {None, dataset.root}
  /\ Spent = 0 => (stage # "raised" /\ (stage = "analysed" => root = dataset.root))
  /\ (read # None /\ Fits(read.file)) =>
       /\ DOMAIN read.attrs \in {{}, Range(read.file.layout)}
       /\ (Spent = 0 /\ Supported(dataset)) => DOMAIN read.attrs # {}

\* "Link target is inline in the bonus data" (dataset.py 478): a link of an
\* undamaged dataset is archived with the target it has.
LinkTargetIsTrue ==
  (read # None /\ Spent = 0 /\ IsLink(read.file) /\ Fits(read.file) /\ Supported(dataset)) =>
    read.link = Cells(read.file, Symlink)
=============================================================================
