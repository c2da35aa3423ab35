SPECIFICATION Spec
CONSTANTS
  c1 = c1
  c2 = c2
  Calls = {c1, c2}
  Devs <- MCDevs
  Length <- MCLength
  Openable = {"d1", "d2", "d3", "bad", "short"}
  BadCells <- BadSector
  Chunk = 2
  MaxByte = 4
  Jobs <- JobsChunks
  MayDie = {}
  MaxRestarts = 0
  Zero = Zero
  NoCall = NoCall
INVARIANT ReadReturnsTheDisk
CHECK_DEADLOCK FALSE
