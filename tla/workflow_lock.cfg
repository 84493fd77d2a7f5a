CONSTANTS
  a1 = a1
  a2 = a2
  x1 = x1
  s1 = s1
  k1 = k1
  k2 = k2
  Calls = {a1, a2, x1, s1}
  KindOf <- MCKindOf
  Steps = 2
  Conns = {k1, k2}
SPECIFICATION Spec
CHECK_DEADLOCK FALSE
INVARIANT AdvanceExclusive
