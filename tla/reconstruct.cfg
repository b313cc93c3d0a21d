SPECIFICATION FairSpec
CONSTANTS
  nP = 3
  RingSize = 2
  Clang = FALSE
  numCalls = 3
  viaKing <- KingDirectKing
  numShares <- OneEach
INVARIANTS NoDeadlock RightCall OneCallAhead TwoListsAtMost NothingLeft IInv
PROPERTIES ImplementsAllReduce Terminates
