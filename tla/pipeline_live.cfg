CONSTANTS
  e1 = e1
  e2 = e2
  noKey = noKey
  r1 = r1
  r2 = r2
  p1 = p1
  p2 = p2
  NoEvent = noEvent
  Events = {e1, e2}
  Keys = {}
  NoKey = noKey
  KeyOf <- NoKeys
  Poison = {e2}
  Relays = {r1, r2}
  BatchSize = 1
  MaxAttempts = 2
  MaxCopies = 2
  FaultKinds = {"pickUnknown", "refused", "ackLost", "markFails", "requeueFails", "crash", "stop"}
  MaxFaults = 1
  PromptRelays = TRUE
  ArbiterExists = TRUE
  KindOf <- MCKindOf
  Consumers = {p1}
  Prefetch = 1
  MaxDeliver = 2
  ConsumerFaults = {"ackLost", "crash"}
  MaxConsumerFaults = 1
  PromptConsumers = TRUE
SPECIFICATION FairPSpec
CHECK_DEADLOCK FALSE
PROPERTY EventuallySettled
PROPERTY CommittedIsAlerted
INVARIANT Exclusive
INVARIANT HealthyNotDead
INVARIANT DeadOnlyAfterMaxAttempts
INVARIANT AlertHasCause
PROPERTY SettledIsFinal
