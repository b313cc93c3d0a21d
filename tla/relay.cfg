SPECIFICATION RelaySpec
CONSTANTS
  nP = 3
  RingSize = 2
  Clang = FALSE
  WORDBITS = 4
  BYTEBITS = 2
  Lengths <- WordEdges
INVARIANTS
  BitsArrive
  RingGoesOn
  LayoutsAgree
PROPERTIES
  EveryoneEnds
CHECK_DEADLOCK FALSE
