SPECIFICATION OnlineSpec
CONSTANTS
  nP = 3
  RINGSIZEBITS = 2
  RingSize = 4
  Clang = FALSE
  use_pking = TRUE
  gates <- TestOfProduct
  outputs <- BothOutputs
  Cases <- OneOwner
  Streams <- TwoStreams
INVARIANTS CleanWhenReturned
PROPERTIES ImplementsSecureEval
