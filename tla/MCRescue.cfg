SPECIFICATION Spec
CONSTANTS
  d1 = d1
  d2 = d2
  None = None
  MaxTxg = 3
  Disks <- MCDisks
  TXG = 1
  Objects = {0, 1, 2, 3, 4, 5, 6, 7}
  Datasets <- MCDatasets
  Dirs <- MCDirs
  RootDataset = 2
  Children <- MCChildren
  Strays = {0, 4, 5}
  Worlds <- MCWorlds
CHECK_DEADLOCK FALSE
INVARIANTS SelectedIsRight EndsOnDamageOnly AllDatasetsFound
PROPERTY ProgramEnds
