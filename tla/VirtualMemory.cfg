SPECIFICATION VMSpec
CONSTANTS
  NULL = NULL
  Main = p1
  Processes = {p1, p2, p3}
  Addresses = {a1, a2}
  NumFrames = 3
  IptLength = 4
  NumSlots = 2
  ImagePages = 2
  StackPages = 1
INVARIANTS
  TablesAgree
  OnlyOwnTranslations
  OwnContents
CHECK_DEADLOCK FALSE
