SPECIFICATION Spec
CONSTANTS
  r1 = r1
  r2 = r2
  c1 = c1
  c2 = c2
  enforcer = enforcer
  Rooms = {r1}
  Callers = {c1, c2}
  Enforcer = enforcer
  SessionMins = 3
  RowDefault = 3
  TokenBuffer = 1
  AgeCap = 6
  FaultSets = {{}}
INVARIANTS
  ExtendedOnce
