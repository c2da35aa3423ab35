SPECIFICATION Spec
CONSTANTS
  None = None
  Pending = Pending
  RunMask = 3
  ByteBits = 2
  MatchBits = 1
  LempelSize = 3
  Hash <- MCHash
  MaxBlock = 8
  Plans <- MCPlans
  Blocks <- MCBlocks
  Pads = {0, 1, 2}
  FragilePlans <- MCFragilePlans
  FragileBlocks <- MCFragileBlocks
  NewBytes = {0, 1, 2, 3, 7, 8, 12, 15}
  NewSizes = {0, 1, 4, 6, 9, 12, 14, 15, 16, 20, 22, 24, 25, 26, 30}
CHECK_DEADLOCK FALSE
INVARIANTS BlockIsRestored DecodersAgree NothingOutside
