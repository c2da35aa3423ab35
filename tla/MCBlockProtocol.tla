-------------------------- MODULE MCBlockProtocol --------------------------
(***************************************************************************)
(* Small instances of BlockProtocol: six disks of a raidz vdev, of which   *)
(* "bad" has a sector that cannot be read, "gone" no device node, and      *)
(* "short" ends before what is asked of it.  The columns of a raidz row    *)
(* have sizes that differ by at most one sector, the larger ones first,    *)
(* and those past the wrap lie one sector further on.                      *)
(***************************************************************************)
EXTENDS BlockProtocol

CONSTANTS c1, c2

MCDevs == {"d1", "d2", "d3", "bad", "gone", "short"}
MCLength == [d \in MCDevs |-> IF d = "short" THEN 2 ELSE 8]
Ext(d, o, n) == [dev |-> d, off |-> o, cnt |-> n]
Read(e)   == [op |-> "r", blockv |-> <<e>>]
Readv(bv) == [op |-> "v", blockv |-> bv]

Row  == Readv(<<Ext("d1", 1, 3), Ext("bad", 1, 3), Ext("short", 1, 3),
                Ext("d2", 1, 3), Ext("d3", 2, 2), Ext("d1", 2, 2)>>)
Narrow == Readv(<<Ext("bad", 1, 2), Ext("d2", 1, 2), Ext("d3", 1, 1)>>)
Gone == Readv(<<Ext("d2", 1, 1), Ext("gone", 1, 1), Ext("d1", 1, 1), Ext("d3", 1, 1)>>)
Wide == Readv([k \in 1..7 |-> Ext("d1", 1, 1)])

JobsFaults == {Row, Narrow, Gone, Wide, Read(Ext("bad", 1, 1))}
BadSector  == {<<"bad", 1>>}

JobsLive   == {Readv(<<Ext("d2", 1, 2), Ext("short", 1, 2), Ext("d1", 2, 1)>>),
               Narrow, Gone, Read(Ext("bad", 1, 1))}
JobsChunks == {Read(Ext("d1", 0, 4))}
=============================================================================
