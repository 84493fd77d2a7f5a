----------------------------- MODULE MCSessions -----------------------------
(* Sessions on small instances.                                            *)
EXTENDS Sessions

CONSTANTS c1, c2, c3, c4, w1, w2

FourCalls == {c1, c2, c3, c4}
TwoSweepers == {w1, w2}
\* c1 is created expired, c3 and c4 expire together.
MCExpiresAt == [c \in Calls |-> IF c = c1 THEN 0 ELSE IF c = c2 THEN 1 ELSE 2]
==============================================================================
