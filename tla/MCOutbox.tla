------------------------------- MODULE MCOutbox -------------------------------
(* Outbox on small instances.                                              *)
EXTENDS Outbox, TLC

CONSTANTS e1, e2, e3, k1, noKey, r1, r2

ThreeEvents == {e1, e2, e3}
\* e1 and e2 share a dedup key, the others have none.
SharedKey == [e \in Events |-> IF e \in {e1, e2} THEN k1 ELSE noKey]
OnlyE3 == {e3}
TwoRelays == {r1, r2}
RelaySymmetry == Permutations(Relays)
==============================================================================
