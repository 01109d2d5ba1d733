CONSTANTS
  Proc = {p}
  NrInodes = 4
  NrBlocks = 8
  SyncInodes = 3
  SyncBlocks = 8
  NDIRECT = 2
  DirSlots = 3
  TabLen = 3
  Units = 2
  Dirty = Dirty
  NULL = NULL
  MkdirPaths <- TreeMkdir
  ChdirPaths <- TreeChdir
  OpenPaths <- TreeOpen
  Creat = {TRUE, FALSE}
  MaxRef = 1
  Data = {x,y}
  WriteCounts = {3}
  ReadCounts = {3}
  NrFiles = 1
  MaxSize = 12
  MaxResets = 1
SPECIFICATION Spec
INVARIANTS AtRestSynced ReadsTrue CacheTrue StructureHolds
PROPERTY ImplementsFiles
CHECK_DEADLOCK FALSE
