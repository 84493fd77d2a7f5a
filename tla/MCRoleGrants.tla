---------------------------- MODULE MCRoleGrants ----------------------------
(* RoleGrants on small instances.                                          *)
EXTENDS RoleGrants, TLC

CONSTANTS g1, g2, g3, g4, v1, approver, requester, tenant, module, apart

FourGrants == {g1, g2, g3, g4}
TwoGrants == {g1, g2}
\* g1 and g4 are the same tenant-wide grant, whose scope_id is NULL; g2 and g3
\* are the same grant on a module.
MCRoleOf == [c \in Grants \union Revokes |-> IF c \in {g1, g4, v1} THEN approver ELSE requester]
MCScopeOf == [c \in Grants \union Revokes |-> IF c \in {g1, g4, v1} THEN tenant ELSE module]
ApartConflicts == [r \in Rules |-> {approver, requester}]
TwinSymmetry == Permutations({g1, g4}) \union Permutations({g2, g3})
BlockAtStart == [r \in Rules |-> "block"]
==============================================================================
