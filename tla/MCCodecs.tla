------------------------------ MODULE MCCodecs ------------------------------
(***************************************************************************)
(* Digits of base 4 (bytes of base 16) for LZ4, so that run lengths go on  *)
(* in further bytes; bytes of two bits for LZJB, with matches of three or  *)
(* four bytes at up to seven bytes distance.                               *)
(***************************************************************************)
EXTENDS Codecs

CONSTANTS MaxBlock

MCHash(a, b, d) == (2 * a + b + d) % LempelSize

Seq1 == [lit : {0, 2, 3, 9, 19}, off : 1..9, match : {4, 7, 8, 13, 23}]
Seq2 == [lit : {2, 8}, off : {1, 8}, match : {4, 13}]
Reaches(s, before) == s.off <= before + s.lit

OneSequence == {<<s>> : s \in {t \in Seq1 : Reaches(t, 0)}}
TwoSequences ==
  {<<s, t>> : s \in {r \in Seq2 : Reaches(r, 0)}, t \in {r \in Seq1 : r.lit \in {0, 2, 9} /\ Reaches(r, 6)}}
FragilePlan ==
  [seqs |-> << [lit |-> 3, off |-> 2, match |-> 7], [lit |-> 0, off |-> 8, match |-> 13] >>,
   last |-> 5]
MCPlans ==
  [seqs : OneSequence \union TwoSequences, last : {5, 12}]
  \union [seqs : {<<>>}, last : {5, 9, 20}]
  \union {FragilePlan}

FragileBlock == <<1, 1, 1, 1, 1, 0, 1, 0, 1, 0, 0, 1>>
MCFragilePlans == {FragilePlan}
MCFragileBlocks == {FragileBlock}

\* Short blocks, and longer ones that repeat at distances around the largest.
Repeating(gap) == {w \o gap \o w : w \in [1..7 -> {0, 1}]}
MCBlocks ==
  UNION {[1..n -> {0, 1}] : n \in 1..MaxBlock}
  \union Repeating(<<>>) \union Repeating(<<2>>) \union Repeating(<<3, 2>>)
  \union {FragileBlock}
=============================================================================
