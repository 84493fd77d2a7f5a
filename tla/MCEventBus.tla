------------------------------ MODULE MCEventBus ------------------------------
(* Two events of one entity and a handler.                              *)
EXTENDS EventBus, TLC

CONSTANTS e1, e2, h1, thing

MCEntityOf == (e1 :> thing) @@ (e2 :> thing)
==============================================================================
