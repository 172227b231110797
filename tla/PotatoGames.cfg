SPECIFICATION GamesFairSpec
CONSTANTS
  argv <- Left5
  RandomValues <- Values
  ForkFails = TRUE
INVARIANTS
  OneToken
  NoUseAfterDestroy
  OnePotato
  MainReadsInOrder
PROPERTIES
  GamesSpec
  GameEnds
\* The program ends, or a failed fork leaves its players waiting.
CHECK_DEADLOCK FALSE
