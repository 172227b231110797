SPECIFICATION PostSpec
CONSTANTS
  A = A
  B = B
  mainA = mainA
  mainB = mainB
  penA = penA
  Machine = {A, B}
  Main <- MCMain
  Pen <- MCPen
  NULL = NULL
INVARIANTS
  AckMeansDelivered
PROPERTIES
  LossyMailSpec
  SendReturns
\* After a loss both machines may wait for ever, and both halt in the end.
CHECK_DEADLOCK FALSE
