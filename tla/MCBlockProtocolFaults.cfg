SPECIFICATION Spec
CONSTANTS
  c1 = c1
  c2 = c2
  Calls = {c1, c2}
  Devs <- MCDevs
  Length <- MCLength
  Openable = {"d1", "d2", "d3", "bad", "short"}
  BadCells <- BadSector
  Chunk = 2
  MaxByte = 6
  Jobs <- JobsFaults
  MayDie = {c1}
  MaxRestarts = 1
  Zero = Zero
  NoCall = NoCall
INVARIANTS TypeOK DataIsData PrefixExact HonestToFirstError InStep OnlyLostClientsSpinTheServer
CHECK_DEADLOCK FALSE
