CONSTANTS
  e1 = e1
  e2 = e2
  e3 = e3
  k1 = k1
  noKey = noKey
  r1 = r1
  r2 = r2
  NoEvent = noEvent
  Events <- ThreeEvents
  Keys = {k1}
  NoKey = noKey
  KeyOf <- SharedKey
  Poison <- OnlyE3
  Relays <- TwoRelays
  BatchSize = 2
  MaxAttempts = 2
  MaxCopies = 2
  FaultKinds <- AllFaults
  MaxFaults = 2
  PromptRelays = FALSE
  ArbiterExists = TRUE
SPECIFICATION Spec
SYMMETRY RelaySymmetry
CHECK_DEADLOCK FALSE
INVARIANT DedupNeverLosesEvent
INVARIANT PublishedIsStored
PROPERTY ImplementsDelivery
