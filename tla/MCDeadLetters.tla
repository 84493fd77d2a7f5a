---------------------------- MODULE MCDeadLetters ----------------------------
(* Two dead letters of a handler.                                       *)
EXTENDS DeadLetters, TLC

CONSTANTS h1, job, route, single

MCHandlerOf == (1 :> h1) @@ (2 :> h1)
==============================================================================
