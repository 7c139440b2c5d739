CONSTANTS
  v1 = v1
  v2 = v2
  v3 = v3
  leaf = leaf
  Leaf <- MCLeaf
  Validators <- MCValidators
  Power <- MCPower
  MaxAttempts = 2
  Timeout = 1
  MaxHeight = 3
SPECIFICATION Spec
INVARIANTS
  ReconstructSucceeds
CHECK_DEADLOCK FALSE
