----------------------------- MODULE MCArchive ------------------------------
(***************************************************************************)
(* Two trees.  Under root there are a file of two blocks, a subdirectory   *)
(* and a link; under the subdirectory a file that is one hole, a directory *)
(* to skip, a socket, another name of the first file and, in deep, a file  *)
(* with a hole; its ZAP has two blocks.  Under loop a directory is its own *)
(* grandchild, as in a damaged tree.                                       *)
(***************************************************************************)
EXTENDS Archive, TLC

CONSTANTS top, sub, deep, unwanted, loop, back, f, g, h, link, sock

It(obj, kind) == [obj |-> obj, kind |-> kind]

MCEntries ==
  top :> (1 :> It(f, "f") @@ 2 :> It(sub, "d") @@ 3 :> It(link, "l"))
  @@ sub :> (1 :> It(g, "f") @@ 2 :> It(unwanted, "d") @@ 3 :> It(deep, "d")
             @@ 4 :> It(sock, "s") @@ 5 :> It(f, "f"))
  @@ deep :> (1 :> It(h, "f") @@ 2 :> It(unwanted, "d"))
  @@ unwanted :> (1 :> It(f, "f"))
  @@ loop :> (1 :> It(f, "f") @@ 2 :> It(back, "d"))
  @@ back :> (1 :> It(loop, "d") @@ 2 :> It(h, "f"))

MCLeaf ==
  [d \in DOMAIN MCEntries |->
     [x \in DOMAIN MCEntries[d] |-> IF d = sub /\ x \in {2, 5} THEN 2 ELSE 1]]

MCBlocks == f :> <<"data", "data">> @@ g :> <<"hole">> @@ h :> <<"hole", "data">>
=============================================================================
