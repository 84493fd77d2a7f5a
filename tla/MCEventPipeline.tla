---------------------------- MODULE MCEventPipeline ----------------------------
(* EventPipeline on small instances.                                        *)
EXTENDS EventPipeline

CONSTANTS e1, e2, noKey, r1, r2, p1, p2

NoKeys == [e \in Events |-> noKey]
Revoked == [parses |-> TRUE, tenant |-> TRUE, dauth |-> TRUE, type |-> "session.revoked", risky |-> FALSE]
MCKindOf == [e \in Events |-> IF e = e1 THEN Revoked ELSE [Revoked EXCEPT !.type = "other", !.risky = TRUE]]
==============================================================================
