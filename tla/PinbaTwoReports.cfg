SPECIFICATION FairSpec
CONSTANTS
  WorkerCount = 1
  ChunkCount = 2
  ReportTypes = {base, rtag}
  Requests = {1, 2}
  Indexes = {0, 1}
  Index <- MCIndex
  NoType = NoType
INVARIANTS
  MissingOnlyWhileCreated
  NoReportTwice
PROPERTIES
  AccountingSpec
  TrafficIsMerged
  ReportReachesLists
