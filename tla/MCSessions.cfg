CONSTANTS
  w1 = w1
  w2 = w2
  rn = rn
  Readers <- MCReaders
  Runner = rn
  Keys = {s1}
  Docs <- MCDocs
  Tags = {}
  MaxEntries = 2
  TTL = 1
  TimeBits = 8
  MaxInserts = 4
  MaxTime = 4
  QueueDepth = 1
  MaxRequests = 3
  MaxEnds = 1
  MaxCrashes = 1
SPECIFICATION SSpec
INVARIANT AcceptedSessionsAreActive
PROPERTY ReportsReachTable
