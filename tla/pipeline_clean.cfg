CONSTANTS
  e1 = e1
  e2 = e2
  noKey = noKey
  r1 = r1
  r2 = r2
  p1 = p1
  p2 = p2
  NoEvent = noEvent
  Events = {e1, e2}
  Keys = {}
  NoKey = noKey
  KeyOf <- NoKeys
  Poison = {}
  Relays = {r1, r2}
  BatchSize = 2
  MaxAttempts = 2
  MaxCopies = 2
  FaultKinds = {"stop", "refused"}
  MaxFaults = 1
  PromptRelays = TRUE
  ArbiterExists = TRUE
  KindOf <- MCKindOf
  Consumers = {p1}
  Prefetch = 1
  MaxDeliver = 2
  ConsumerFaults = {"close", "insertFails", "insertUnknown"}
  MaxConsumerFaults = 1
  PromptConsumers = TRUE
SPECIFICATION PSpec
CHECK_DEADLOCK FALSE
INVARIANT LeaseIsHeld
INVARIANT OneAlertPerEvent
