SPECIFICATION Spec
CONSTANTS
  nP = 3
  RingSize = 2
  Threads = {1, 4}
INVARIANTS RightPeer
PROPERTIES AllConstructed
