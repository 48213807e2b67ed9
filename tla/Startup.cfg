\* The code's own number of workers.
CONSTANTS
  WORKER_CNT = 5
  NULL = NULL

SPECIFICATION FairStartupSpec

INVARIANTS
  WorkersHaveOwnContainer
  SocketIsBound
  NullMeansClosed

PROPERTIES
  EveryThreadStarts

\* main goes on as the console, or the process has ended.
CHECK_DEADLOCK FALSE
