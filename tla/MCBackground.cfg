CONSTANTS
  Workers = {w1, w2}
  Depth = 1
  PerWrite = 2
  MaxRequests = 1
  MaxPasses = 1
SPECIFICATION Spec
INVARIANTS TypeOK EveryItemSettled NoUseAfterFree PoolsOutliveBorrowers
PROPERTIES ItemsHandled StopCompletes
