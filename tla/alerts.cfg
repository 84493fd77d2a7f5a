CONSTANTS
  m1 = m1
  m2 = m2
  c1 = c1
  c2 = c2
  Messages <- TwoMessages
  NoMessage = none
  EventOf <- OneEach
  KindOf <- MCKindOf
  Consumers = {c1, c2}
  Prefetch = 2
  MaxDeliver = 3
  ConsumerFaults <- AllConsumerFaults
  MaxConsumerFaults = 2
  PromptConsumers = FALSE
SPECIFICATION FairASpec
CHECK_DEADLOCK FALSE
INVARIANT ATypeOK
INVARIANT AckedIsPromoted
INVARIANT AlertsWithinDeliveries
PROPERTY AllHandled
