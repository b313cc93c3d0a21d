SPECIFICATION Spec
CONSTANTS
  nP = 3
  RINGSIZEBITS = 2
  RingSize = 4
  gates <- TwoInputs
  outputs <- NoOutput
  Cases <- TwoOwners
  Streams <- SomeStreams
INVARIANTS InputsShared
