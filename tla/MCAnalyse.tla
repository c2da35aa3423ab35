----------------------------- MODULE MCAnalyse -----------------------------
(***************************************************************************)
(* Datasets with micro and fat ZAPs: tables of two leaves with a chain of  *)
(* two entries, chunks numbered from either end, a block of the pointer    *)
(* table among the leaves, too many levels, a layout of four attributes.   *)
(***************************************************************************)
EXTENDS Analyse

CONSTANTS mode, zsize, time, acl, link, xattr, stamp, rootdir, tables, f1, g1

Entry(name, value) == [name |-> <<name>>, value |-> value]
Micro(list) == [levels |-> 1, blocks |-> <<[kind |-> "micro", list |-> list]>>]
Fat(levels, leaves) == [levels |-> levels, blocks |-> <<[kind |-> "header"]>> \o leaves]
Leaf(chains, backward) == [kind |-> "leaf", chains |-> chains, backward |-> backward]
Pointers(word, type) ==
  [kind |-> "pointers", words |-> <<word, 0>>, types |-> <<"free", type, "array", "free">>]

\* mode 1, size 2, time 3, acl 4, link 5, xattr 6, stamp 7
MCRegistered == <<4, 4, 8, 0, 0, 4, 16>>
Row(name, num) == Entry(name, <<[num |-> num, len |-> MCRegistered[num]]>>)

Master   == Micro(<<Entry(ROOT, <<rootdir>>), None, Entry(SA_ATTRS, <<tables>>)>>)
Master2  == Fat(1, <<Leaf(<< <<Entry(ROOT, <<rootdir>>)>> >>, FALSE),
                     Leaf(<< <<Entry(SA_ATTRS, <<tables>>)>> >>, TRUE)>>)
TablesObj == Micro(<<Entry(REGISTRY, <<rootdir>>), Entry(LAYOUTS, <<tables>>)>>)
Rows1    == Leaf(<< <<Row(mode, 1), Row(acl, 4)>>, <<>>, <<Row(zsize, 2), Row(time, 3)>> >>, TRUE)
Rows2    == Leaf(<< <<Row(link, 5), Row(xattr, 6), Row(stamp, 7)>> >>, FALSE)
Rows     == Fat(1, <<Rows1, Rows2>>)

Plain    == <<1, 2, 3>>
Linked   == <<1, 2, 3, 4, 5>>
Ragged   == <<2, 5, 6>>
Cut      == <<1, 7, 2>>
Many     == <<1, 2>>
Four     == <<1, 2, 3, 6>>

Leaf1 == Leaf(<< <<Entry(2, Plain), Entry(3, Linked)>>, <<>>, <<Entry(4, Ragged)>> >>, FALSE)
Leaf2 == Leaf(<< <<Entry(9, Cut)>>, <<Entry(258, Many)>> >>, TRUE)

File(num, layout, lens) == [num |-> num, layout |-> layout, len |-> lens]
Files ==
  {File(2, Plain, <<>>), File(9, Cut, <<>>), File(258, Many, <<>>)}
  \union {File(3, Linked, (4 :> a) @@ (5 :> l)) : a \in {4, 8}, l \in {1, 5}}
  \union {File(3, Linked, (4 :> 8) @@ (5 :> 20)), File(4, Ragged, 5 :> 3)}

Layouts1 == Fat(2, <<Leaf1, Leaf2>>)
Layouts2 == Fat(2, <<Leaf2, Pointers(3, "entry"), Leaf1>>)
DatasetOf(master, layouts) ==
  [master |-> master, sa |-> TablesObj, registry |-> Rows, layouts |-> layouts,
   root |-> rootdir, files |-> Files]
MCDatasets ==
  {DatasetOf(Master, Layouts1), DatasetOf(Master2, Layouts2),
   DatasetOf(Master, Fat(2, <<Leaf2, Pointers(20, "free")>>)),
   DatasetOf(Master, Fat(2, <<Pointers(1, "entry"), Leaf2>>)),
   DatasetOf(Master, Fat(3, <<Leaf1>>)),
   DatasetOf(Master, Fat(2, <<Leaf2, Leaf(<< <<Entry(5, Four)>> >>, FALSE)>>))}
MCFragile == {Master2, Layouts2}
MCForeign == Leaf(<< <<Entry(f1, <<g1>>)>> >>, FALSE)
=============================================================================
