SPECIFICATION Spec
CONSTANTS
  mode = mode
  zsize = zsize
  time = time
  acl = acl
  link = link
  xattr = xattr
  stamp = stamp
  rootdir = rootdir
  tables = tables
  f1 = f1
  g1 = g1
  ROOT = ROOT
  SA_ATTRS = SA_ATTRS
  LAYOUTS = LAYOUTS
  REGISTRY = REGISTRY
  None = None
  Raised = Raised
  Pending = Pending
  Fragile <- MCFragile
  Foreign <- MCForeign
  NoChunk = 99
  RecursionLimit = 30
  Datasets <- MCDatasets
  Registered <- MCRegistered
  Symlink = 5
  Size = 2
  Room = 40
  MaxFaults = 2
CHECK_DEADLOCK FALSE
INVARIANTS EntriesAreTrue RaisesOnDamageOnly AttributesAreTrue AnalysisLosesToDamageOnly
PROPERTY ZapEnds
