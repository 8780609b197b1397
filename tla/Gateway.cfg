CONSTANTS
  Requests = {r1, r2, r3}
  Ops = {o1, o2}
  Principals = {p1}
  Keys = {k1}
  Expiries = {1, 4}
  None = None
  Limit = 1
  Window = 2
  KeyTtl = 3
  MaxTime = 3
  MaxCrashes = 1
SPECIFICATION Spec
SYMMETRY Sym
CONSTRAINT Focus
INVARIANTS
  
  RefusedOverLimit
  CountersExpire
  VoidNeverAccepted
  RefusalsAreErrors
CHECK_DEADLOCK FALSE
