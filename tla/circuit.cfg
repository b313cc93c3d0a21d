SPECIFICATION BuilderSpec
CONSTANTS
  RingSize = 3
  MaxGates = 4
  MaxOutputs = 1
  Constants = {2}
INVARIANTS CircuitOK LevelOrdered InteractiveReadBelow EvaluateIsMeaning
CHECK_DEADLOCK FALSE
