SPECIFICATION Spec
CONSTANTS
  e1 = e1
  e2 = e2
  none = none
  Egresses = {e1}
  NoEgress = none
  MaxTries = 2
  EnqueueCap = 2
  FaultSets = {{}}
INVARIANTS
  OrderDefended
CHECK_DEADLOCK FALSE
