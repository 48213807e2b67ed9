SPECIFICATION MCSpec
CONSTANTS
  Workers = {w1}
  ChunkCount = 2
  ReportTypes = {base, rtag}
  MaxPending = 2
INVARIANTS
  TypeOK
  OneOwner
  ListsConverge
PROPERTIES
  ReportsStable
  CycleSpec
