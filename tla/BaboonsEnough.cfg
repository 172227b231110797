SPECIFICATION BaboonsSpec
CONSTANTS
  Baboon = {b1, b2, b3, b4}
  numberOfRopes = 2
  maxWaitingBaboons = 2
  NULL = NULL
SYMMETRY Symmetry
\* A finite flow of baboons may leave some waiting (README.MD).
CHECK_DEADLOCK FALSE
INVARIANT
  EnoughAreLetCross
