CONSTANTS
  r1 = r1
  r2 = r2
  a1 = a1
  a2 = a2
  a3 = a3
  x1 = x1
  ann = ann
  bob = bob
  Requests = {r1, r2}
  Approvals = {a1, a2, a3}
  Rejections = {x1}
  NoRow = NoRow
  ActorOf <- MCActorOf
  TargetOf <- MCTargetOf
  IdsComparable = TRUE
SPECIFICATION Spec
CHECK_DEADLOCK FALSE
INVARIANT ForkHasCause
INVARIANT ApprovedByAnother
PROPERTY BreaksStay
