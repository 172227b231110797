SPECIFICATION ProgramsFairSpec
CONSTANTS
  NULL = NULL
  MainThread = main
  Threads = {0, 1, 2, main}
  Semaphores = {}
  Devices = {}
  Locks = {lock}
  Conditions = {0, 1, 2, cv}
  InitialValue <- NoValue
  MaxValue = 1
  N = 3
  Meals = 2
  Rounds = 2
  InitialCounts <- HeapHeld
  Producers = {main, 0}
  Consumers = {1, 2}
  MaxItems = 2
  lock = lock
  cv = cv
INVARIANTS
  NeighboursApart
  BarrierHolds
  NoStrandedItem
  ExactlyOnceInOrder
PROPERTY
  EverythingDone
\* A machine with nothing to run stands still.
CHECK_DEADLOCK FALSE
