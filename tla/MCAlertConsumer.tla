---------------------------- MODULE MCAlertConsumer ----------------------------
(* AlertConsumer on small instances.                                        *)
EXTENDS AlertConsumer

CONSTANTS m1, m2, c1, c2

Plain == [parses |-> TRUE, tenant |-> TRUE, dauth |-> TRUE, type |-> "session.revoked", risky |-> FALSE]
Risky == [Plain EXCEPT !.risky = TRUE]

TwoMessages == {m1, m2}
OneEach == [m \in Messages |-> m]

\* m1 is worth two alerts, the others one.
MCKindOf == [e \in {EventOf[m] : m \in Messages} |-> IF e = m1 THEN Risky ELSE Plain]
==============================================================================
