SPECIFICATION Spec
CONSTANTS
  top = top
  sub = sub
  deep = deep
  unwanted = unwanted
  loop = loop
  back = back
  f = f
  g = g
  h = h
  link = link
  sock = sock
  None = None
  Roots = {top, loop}
  Entries <- MCEntries
  Blocks <- MCBlocks
  Leaf <- MCLeaf
  Leaves = {1, 2}
  SkipObjs = {unwanted}
  Modes = {"archive", "export", "traverse"}
  Depth = 1
  RecursionLimit = 4
  MaxFaults = 3
CHECK_DEADLOCK FALSE
INVARIANTS MemberIsItsObject MarkedIffZeroed InWalkOrder PathsAreTrue NothingElseIsLost
