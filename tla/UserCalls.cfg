SPECIFICATION CallsSpec
CONSTANTS
  NULL = NULL
  a1 = a1
  a2 = a2
  b1 = b1
  spaceA = spaceA
  spaceB = spaceB
  UserThreads = {a1, a2, b1}
  Spaces = {spaceA, spaceB}
  SpaceOf <- MCSpaceOf
  Files = {f, g, h}
  Present = {f, g}
  MaxOpenFiles = 3
  MaxSockets = 1
  MagicNumber = 5
  MaxSemaphores = 5
  MaxDescriptors = 5
  Ops = {"Open", "Create", "Write", "Read", "Close", "SemCreate", "SemDestroy", "SemWait", "SemSignal", "Socket", "Use", "Accept", "Exit"}
  Cost <- MCCost
  MaxCost = 12
INVARIANTS
  OneOwner
  OnlyOwnFiles
  SystemSemaphores
PROPERTY
  CallsReturn
\* Programs end.
CHECK_DEADLOCK FALSE
