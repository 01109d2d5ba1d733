CONSTANTS
  t1 = t1
  t2 = t2
  NULL = NULL
  Thread = {t1, t2}
  Disk = {0, 1}
  NrSectors = 3
  MaxOp = 2
SPECIFICATION FairSpec
INVARIANTS
  NothingLeftOver
  WaiterWillBePosted
  NoPanic
PROPERTY ImplementsDisk
