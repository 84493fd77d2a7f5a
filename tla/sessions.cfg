CONSTANTS
  c1 = c1
  c2 = c2
  c3 = c3
  c4 = c4
  w1 = w1
  w2 = w2
  Calls <- FourCalls
  ExpiresAt <- MCExpiresAt
  Clients = 2
  Limit = 1
  Sweepers <- TwoSweepers
  Batch = 1
  ArbiterExists = TRUE
  Horizon = 2
  MaxFaults = 1
SPECIFICATION FairSpec
CHECK_DEADLOCK FALSE
INVARIANT OverrunBounded
INVARIANT ReportedOnce
INVARIANT ExpireHasCause
PROPERTY EventuallyClosed
