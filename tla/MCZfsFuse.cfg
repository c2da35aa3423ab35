SPECIFICATION Spec
CONSTANTS
  a = a
  b = b
  sub = sub
  c = c
  Root = Root
  None = None
  Raises = Raises
  Name <- MCName
  Entries <- MCEntries
  Parent <- MCParent
  Dnode <- MCDnode
  Kind <- MCKind
  Leaf <- MCLeaf
  RootInode = 1
  Handles = {h1, h2}
  MaxOpens = 3
  PageSize = 1
CHECK_DEADLOCK FALSE
INVARIANTS ReadIsOwnData OpenHandleReads NoTempFileLost MountEndsOnDamageOnly ListingIsGivenInFull
SYMMETRY HandlesAreAlike
