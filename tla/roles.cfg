CONSTANTS
  g1 = g1
  g2 = g2
  g3 = g3
  g4 = g4
  v1 = v1
  approver = approver
  requester = requester
  tenant = tenant
  module = module
  apart = apart
  Grants <- FourGrants
  Revokes = {v1}
  Roles = {approver, requester}
  Scopes = {tenant, module}
  NoScopeId = tenant
  RoleOf <- MCRoleOf
  ScopeOf <- MCScopeOf
  Rules = {apart}
  Conflicts <- ApartConflicts
  RulesAtStart <- BlockAtStart
  MaxRuleEdits = 2
SPECIFICATION Spec
CHECK_DEADLOCK FALSE
INVARIANT CoheldHasCause
INVARIANT GrantedIsHeldOrRevoked
INVARIANT RevokeReachesAll
SYMMETRY TwinSymmetry
