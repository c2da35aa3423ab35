----------------------------- MODULE MCZfsFuse ------------------------------
\* A small dataset: a directory in the root, and in it two names of one file and
\* another file. The ZAP of the directory has two blocks.
EXTENDS ZfsFuse, TLC

CONSTANTS a, b, sub, c

MCEntries == {a, b, sub, c}
MCParent == [e \in MCEntries |-> IF e = sub THEN Root ELSE sub]
MCDnode == a :> 2 @@ b :> 2 @@ sub :> 3 @@ c :> 4
MCName == a :> 1 @@ b :> 3 @@ sub :> 1 @@ c :> 2
MCKind == [e \in MCEntries |-> IF e = sub THEN "d" ELSE "f"]
MCLeaf == [e \in MCEntries |-> IF e \in {b, c} THEN 2 ELSE 1]
HandlesAreAlike == Permutations(Handles)
=============================================================================
