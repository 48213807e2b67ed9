SPECIFICATION MergerFairSpec
CONSTANTS
  WorkerCount = 2
  ChunkCount = 2
  ReportTypes = {base}
  Requests = {1}
  Indexes = {0, 1}
  Index <- MCIndex
  NoType = NoType
INVARIANTS
  TypeOK
  CountedOnce
  NoRequestDropped
PROPERTIES
  ContainerSpec
  FullListsReturn
