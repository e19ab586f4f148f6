CONSTANTS
  Handlers = {h1, h2, h3}
  Writes = {w1, w2}
  Reads = {r1}
  Asyncs = {a1}
  Q = 3
  Depth = 1
  Rejectable = {w1, w2, r1, a1}
  WorkersMayFail = TRUE
  NoHandler = NoHandler
  NoRequest = NoRequest
SPECIFICATION DSpec
SYMMETRY RequestSymmetry
INVARIANTS DTypeOK CompletionAlive NoLostWakeup
