SPECIFICATION FairSpec
CONSTANTS
  NULL = NULL
  MainThread = main
  Threads = {main, t1, t2}
  Semaphores = {sem}
  Devices = {sem}
  Locks = {lock}
  Conditions = {c1, c2}
  InitialValue <- MCInitial
  MaxValue = 2
INVARIANTS
  OnePlace
  NoDanglingThread
  LockExclusion
  NoLostWakeup
PROPERTIES
  MonitorSpec
  ReadyRuns
  WakeupsUsed
CHECK_DEADLOCK FALSE
