------------------------------ MODULE MCRescue ------------------------------
(***************************************************************************)
(* Two disks and a MOS of eight objects: 1 the object directory, 2 the     *)
(* root dataset's directory with the ZAP 3, 4 the root dataset, 5 a child  *)
(* dataset with its directory 6 (ZAP 7).  Uberblock arrays of two or       *)
(* three entries.                                                          *)
(***************************************************************************)
EXTENDS Rescue, TLC

CONSTANTS d1, d2, MaxTxg

MCDisks == <<d1, d2>>
MCDatasets == 4 :> [children |-> 1, dir |-> 2] @@ 5 :> [children |-> 0, dir |-> 6]
MCDirs == 2 :> [zap |-> 3, head |-> 4] @@ 6 :> [zap |-> 7, head |-> 5]
MCChildren == <<6>>

\* A disk without damage, but for what is given
World(bads, ubs, txg, cs, ls) ==
  [bad |-> bads, array |-> ubs, labeltxg |-> txg, copies |-> cs, lost |-> ls]
Whole == [c \in 0..2 |-> "opens"]
UberArrays == [1..3 -> [valid : BOOLEAN, txg : 1..MaxTxg]]
Newest == <<[valid |-> TRUE, txg |-> MaxTxg], [valid |-> FALSE, txg |-> 1]>>

\* Any array of uberblocks and any bad label over a whole MOS; any MOS with up
\* to one object lost under a good label.
MCWorlds ==
  {World(bads, ubs, txg, Whole, {}) :
     bads \in {{}} \union {{<<d, which>>} : d \in {d1, d2}, which \in 0..1},
     ubs \in UberArrays, txg \in 1..MaxTxg}
  \union
  {World({}, Newest, 1, cs, ls) :
     cs \in [0..2 -> OpenKinds], ls \in {{}} \union {{o} : o \in 1..7}}
=============================================================================
