SPECIFICATION ExchangeSpec
CONSTANTS
  nP = 3
  numCalls = 2
  RingBytes = 4
  IntMax = 31
  MinRequest = 4
  FixedRequest = 8
  Cases <- AroundTheLimits
INVARIANTS NeverStuck NothingLeft
PROPERTIES EndsWhenPromised
CHECK_DEADLOCK FALSE
