---------------------------- MODULE MCObjectSet -----------------------------
\* Instances of ObjectSet for TLC: trees of one to four levels, two pointers
\* to an indirect block, two dnodes to a block.
EXTENDS ObjectSet

Stored == [kind |-> "stored", checked |-> TRUE, comp |-> "known"]

\* A node whose checksum is not fletcher4 and that is not compressed, an
\* embedded block, a gang block and a hole.
MCPtr == [b \in Blocks |->
  CASE b = <<1>>       -> [Stored EXCEPT !.checked = FALSE, !.comp = "off"]
    [] b = <<0, 0>>    -> [Stored EXCEPT !.kind = "embedded"]
    [] b = <<1, 0>>    -> [Stored EXCEPT !.kind = "gang"]
    [] b = <<1, 1>>    -> [Stored EXCEPT !.kind = "hole"]
    [] OTHER -> Stored]

\* Of a tree of four levels: two neighbours in block 3, one dnode behind the
\* gang block, and one past the end of all trees.
MCIds == {6, 7, 9, 33}
\* Damage in the set's own dnode, in the root, and on the way to block 3.
MCFaulty == {OsBlock, <<>>, <<0>>, <<0, 1, 1>>}
MCDvaChoices == {<<0, 1>>, <<1>>}
=============================================================================
