------------------------------ MODULE MCWorkflow ------------------------------
(* A chain of two steps; two approvals, an escalation and a rejection.  *)
EXTENDS Workflow, TLC

CONSTANTS a1, a2, x1, s1, k1, k2

MCKindOf == (a1 :> "approve") @@ (a2 :> "approve") @@ (x1 :> "reject") @@ (s1 :> "escalate")
==============================================================================
