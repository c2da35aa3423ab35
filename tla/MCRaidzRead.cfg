SPECIFICATION Spec
CONSTANTS
  d0 = d0
  d1 = d1
  d2 = d2
  d3 = d3
  f0 = f0
  f1 = f1
  f2 = f2
  f3 = f3
  a0 = a0
  a1 = a1
  b0 = b0
  b1 = b1
  c0 = c0
  c1 = c1
  e0 = e0
  e1 = e1
  None = None
  Raised = Raised
  Part = 4
  Length <- MCLength
  Tables <- MCTables
  Pools <- MCPools
  NParity = 1
  Reserve = 1
  SwapUnit = 3
  OffsetLimit = 8
  Requests <- MCRequests
  MaxReads = 2
CHECK_DEADLOCK FALSE
INVARIANTS HandlesAreTheParts ColumnsAreTheAllocation ReadRestoresData RightUpToTheCut
