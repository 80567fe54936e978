SPECIFICATION Spec
CONSTANTS
  Allocations <- MCAllocations
  Epochs = {0, 1}
  MaxLeaves = 5
  MaxProof = 2
  MaxMixed = 3
INVARIANTS AllottedGetsThrough OnlyAllottedGetsThrough
CHECK_DEADLOCK FALSE
