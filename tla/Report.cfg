SPECIFICATION Spec
CONSTANTS
  Indexes = {1, 2, 3}
  MaxCount = 1
INVARIANTS
  Conserved
  WalkIsComplete
