---------------------------- MODULE MCRaidzRead -----------------------------
(***************************************************************************)
(* Pools of two to four children, held in one file each, in parts of four  *)
(* sectors, or in a table that mixes the two; one device has a short file  *)
(* and one lacks its second part.                                          *)
(***************************************************************************)
EXTENDS RaidzRead

CONSTANTS d0, d1, d2, d3, f0, f1, f2, f3, a0, a1, b0, b1, c0, c1, e0, e1

OneFile(f) == [kind |-> "path", files |-> <<f>>]
InParts(f, g) == [kind |-> "parts", files |-> <<f, g>>]

MCTables ==
  { d0 :> OneFile(f0) @@ d1 :> OneFile(f1) @@ d2 :> OneFile(f2) @@ d3 :> OneFile(f3),
    d0 :> InParts(a0, a1) @@ d1 :> InParts(b0, b1) @@ d2 :> InParts(c0, c1)
      @@ d3 :> InParts(e0, e1),
    d0 :> InParts(a0, a1) @@ d1 :> [kind |-> "parts", files |-> <<b0>>]
      @@ d2 :> OneFile(f2) }

MCLength ==
  f0 :> 9 @@ f1 :> 9 @@ f2 :> 9 @@ f3 :> 9
  @@ a0 :> 4 @@ a1 :> 4 @@ b0 :> 4 @@ b1 :> 3 @@ c0 :> 4 @@ c1 :> 4 @@ e0 :> 4 @@ e1 :> 4

Devs(n) == SubSeq(<<d0, d1, d2, d3>>, 1, n)
MCPools ==
  [devs : {Devs(3)}, repair : {TRUE}, bad : {<<0>>, <<1>>, <<2>>}, gone : {None, 0, 1, 2}]
  \union [devs : {Devs(3)}, repair : {TRUE, FALSE}, bad : {<<>>}, gone : {None, 1}]
  \union [devs : {Devs(2), Devs(4)}, repair : {TRUE}, bad : {<<1>>}, gone : {None, 1}]
MCRequests == [b : 0..7, s : 1..5] \union {[b |-> 9, s |-> 1]}
=============================================================================
