CONSTANTS
  Threads = {t1, t2, t3, t4}
  PoolMin = 1
  PoolMax = 3
  Retries = 1
  ValidateOnBorrow = TRUE
  RollbackOnReturn = TRUE
  OpenMayFail = TRUE
SPECIFICATION Spec
INVARIANTS TypeOK SlotsOpenCorrect ExclusiveSessions FreeSlotsClean NoSleepBesideFreeSlot
PROPERTIES BorrowedFresh FreeSlotsGetTaken
