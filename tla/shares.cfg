SPECIFICATION Spec
CONSTANTS
  nP = 2
  RingSize = 4
  Var = {x, y}
  Consts = {1, 3}
  Amounts = {1}
INVARIANTS
  SlotsAgree
  SharesAddUp
