SPECIFICATION Spec
CONSTANTS
  nP = 3
  RINGSIZEBITS = 2
  RingSize = 4
  gates <- MulThenEqz
  Streams <- SomeStreams
INVARIANTS TypeOK DealerAgrees ReadyWhenSynced RightMessage
PROPERTIES AllGetThrough
