SPECIFICATION Spec
CONSTANTS
  nP = 3
  RINGSIZEBITS = 2
  RingSize = 4
  gates <- EveryGate
  outputs <- EveryOutputs
  Cases <- AllCases
  Streams <- SomeStreams
INVARIANTS InputsShared WiresShareMeaning OutputsCorrectUnlessWrap
PROPERTIES Finishes
