CONSTANTS
  MAX_ORDER = 2
  NrMax = 4
  Reserved = 0
  MaxHeld = 3
  MaxRefs = 2
VIEW View
SPECIFICATION Spec
INVARIANTS
  EachPageOnce
  BitmapTells
PROPERTY ImplementsAllocator
