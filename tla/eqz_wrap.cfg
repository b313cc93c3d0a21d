SPECIFICATION Spec
CONSTANTS
  nP = 2
  RINGSIZEBITS = 2
  RingSize = 4
  gates <- OneTest
  outputs <- TestOutput
  Cases <- OneOwner
  Streams <- SomeStreams
INVARIANTS OutputsCorrect
