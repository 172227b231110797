SPECIFICATION MachineSpec
CONSTANTS
  NULL = NULL
  MainThread = main
  Threads = {main, t1, echo}
  Echo = echo
  DiskDone = diskDone
  ReadAvail = readAvail
  WriteDone = writeDone
  DiskLock = diskLock
  Semaphores = {diskDone, readAvail, writeDone}
  Devices = {diskDone, readAvail, writeDone}
  Locks = {diskLock}
  Conditions = {}
  InitialValue <- MCInitial
  MaxValue = 2
  SystemTick = 1
  ConsoleTime = 2
  TimerDelays = {2, 3}
  Latencies = {1, 3}
  MaxChars = 2
INVARIANTS
  DeviceProtocol
  EchoInOrder
  HaltLeavesNobody
PROPERTY
  DiskAnswers
\* The machine halts when there is nothing left to do.
CHECK_DEADLOCK FALSE
