CONSTANTS
  j = j
  k = k
  Kthread = {j, k}
  NrPages = 3
  PageUnits = 7
  mem_block_size <- Sizes
  mem_block_count <- Counts
  Lens = {1, 3, 13}
  NULL = NULL
SYMMETRY Symmetry
SPECIFICATION Spec
INVARIANT ListsTell
PROPERTY ImplementsHeap
