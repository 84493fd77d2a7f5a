------------------------------ MODULE MCAdminLog ------------------------------
(* Two administrators, two requests, three approvals (two of one request,  *)
(* one of the approver's own) and a rejection.                             *)
EXTENDS AdminLog, TLC

CONSTANTS r1, r2, a1, a2, a3, x1, ann, bob

MCActorOf == (r1 :> ann) @@ (r2 :> bob) @@ (a1 :> bob) @@ (a2 :> bob) @@ (a3 :> bob) @@ (x1 :> ann)
MCTargetOf == (a1 :> r1) @@ (a2 :> r1) @@ (a3 :> r2)
==============================================================================
