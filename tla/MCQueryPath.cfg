CONSTANTS
  plain = plain
  ins = ins
  del = del
  tab = tab
  Readers = {r1, r2}
  Keys = {plain}
  Tags = {tab}
  Writes = {ins, del}
  Docs <- MCDocs
  Target <- MCTarget
  Delta <- MCDelta
  Reads <- MCReads
  Named <- MCNamed
  MaxEntries = 1
  TTL = 1
  TimeBits = 8
  MaxInserts = 3
  MaxTime = 3
  BaseRows = 2
  MaxRecords = 2
  Batch = 1
  MaxSelects = 3
SPECIFICATION QSpec
SYMMETRY WorkerSymmetry
INVARIANTS QTypeOK TableConsistent SoleReaderSafe CalmResultsCurrent DeliversSnapshot
