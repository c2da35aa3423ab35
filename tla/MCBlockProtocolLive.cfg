SPECIFICATION FairSpec
CONSTANTS
  c1 = c1
  c2 = c2
  Calls = {c1, c2}
  Devs <- MCDevs
  Length <- MCLength
  Openable = {"d1", "d2", "d3", "bad", "short"}
  BadCells <- BadSector
  Chunk = 2
  MaxByte = 4
  Jobs <- JobsLive
  MayDie = {}
  MaxRestarts = 0
  Zero = Zero
  NoCall = NoCall
PROPERTIES ImplementsBlockRead EveryReadEnds ServerIsFreed
CHECK_DEADLOCK FALSE
