CONSTANTS
  Proc = {p, q}
  NrInodes = 3
  NrBlocks = 4
  SyncInodes = 3
  SyncBlocks = 4
  NDIRECT = 1
  DirSlots = 4
  TabLen = 2
  Units = 2
  Dirty = Dirty
  NULL = NULL
  MkdirPaths <- TreeMkdir
  ChdirPaths = {}
  OpenPaths <- RaceOpen
  Creat = {TRUE}
  MaxRef = 2
  Data = {x}
  WriteCounts = {3}
  ReadCounts = {}
  NrFiles = 2
  MaxSize = 3
  MaxResets = 1
SYMMETRY Symmetry
SPECIFICATION Spec
INVARIANTS BlocksOwnedOnce EntriesDistinct
CHECK_DEADLOCK FALSE
