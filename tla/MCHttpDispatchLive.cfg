CONSTANTS
  Handlers = {h1, h2}
  Writes = {w1, w2}
  Reads = {r1}
  Asyncs = {a1}
  Q = 2
  Depth = 1
  Rejectable = {a1}
  WorkersMayFail = TRUE
  NoHandler = NoHandler
  NoRequest = NoRequest
SPECIFICATION DSpec
PROPERTIES ImplementsService EveryDispatchReturns StopCompletes
