CONSTANTS
  h1 = h1
  job = job
  route = route
  single = single
  Rows = {1, 2}
  HandlerOf <- MCHandlerOf
  Passes = {job, route}
  Redos = {single}
  Limit = 1
  MaxRetries = 2
  PayloadIsText = TRUE
  MaxFaults = 1
  MaxCrashes = 1
SPECIFICATION Spec
CHECK_DEADLOCK FALSE
INVARIANT SettledByTries
PROPERTY SettledStays
