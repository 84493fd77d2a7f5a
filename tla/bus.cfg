CONSTANTS
  e1 = e1
  e2 = e2
  h1 = h1
  thing = thing
  Events = {e1, e2}
  Handlers = {h1}
  EntityOf <- MCEntityOf
  NoEntity = NoEntity
  MaxFaults = 2
  MaxCrashes = 1
SPECIFICATION Spec
CHECK_DEADLOCK FALSE
INVARIANT BusTypeOK
INVARIANT LossHasCause
INVARIANT NoOvertaking
INVARIANT OnceHasCause
