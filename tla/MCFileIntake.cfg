CONSTANTS
  Names = {f, g, h}
  WriteNames = {f}
  LongNames = {h}
  Workers = {w0, w1}
  Writer = w0
  SingleWriter = TRUE
  Depth = 1
  MaxDeliveries = 2
  MaxFaults = 1
  MaxCrashes = 1
SPECIFICATION Spec
INVARIANTS ExecutedOnce NothingForgotten OriginalsArchived
PROPERTY EveryFileHandled
CHECK_DEADLOCK FALSE
