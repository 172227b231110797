SPECIFICATION SimSpec
CONSTANTS
  p1 = p1
  p2 = p2
  ByteBits = 1
  Threads = {p1, p2}
  Reg = {0, 1, 2, 31}
  JumpRegion = 8
  Program <- MCProgram
  Start <- MCStart
  Memory <- MCMemory
  MaxExecuted <- MCExecuted
  MaxFaults <- MCFaults
PROPERTY
  IsMips
CHECK_DEADLOCK FALSE
