CONSTANTS
  Threads = {w1, w2}
  PoolMin = 1
  PoolMax = 2
  Retries = 1
  ValidateOnBorrow = TRUE
  RollbackOnReturn = TRUE
  OpenMayFail = TRUE
  MaxRequests = 2
SPECIFICATION WSpec
INVARIANTS PinnedSessionsDistinct EveryDequeuedAnsweredOnce AllBackAtJoin
PROPERTIES QueuedRequestsAnswered ShutdownCompletes
