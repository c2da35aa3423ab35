SPECIFICATION Spec
CONSTANTS
  MaxLevels = 4
  Bpl = 2
  PerBlock = 2
  Copies = 2
  MaxFaults = 1
  Ids <- MCIds
  Ptr <- MCPtr
  Faulty <- MCFaulty
  DvaChoices <- MCDvaChoices
  Junk = Junk
  None = None
  Unread = Unread
  Raised = Raised
PROPERTIES GoodDnodeCopyIsUsed
