---------------------------- MODULE EventDelivery ----------------------------
(***************************************************************************)
(* What the event outbox promises to the routes that enqueue and to the    *)
(* consumers of the DOGAN_EVENTS stream, with no table, lease or relay in  *)
(* sight.  An event whose transaction committed is never forgotten: it is  *)
(* delivered at least once or written off as dead, and what was delivered  *)
(* stays delivered.                                                        *)
(***************************************************************************)
CONSTANT Events                 \* the events the routes may enqueue

VARIABLES accepted,             \* committed by the transaction that enqueued them
          delivered,            \* stored at least once in the stream
          writtenOff            \* given up: their outbox row is dead

dvars == <<accepted, delivered, writtenOff>>

Accept(e) ==
  /\ e \notin accepted
  /\ accepted' = accepted \union {e}
  /\ UNCHANGED <<delivered, writtenOff>>

\* Only an accepted event reaches the stream.
Deliver(e) ==
  /\ e \in accepted \ delivered
  /\ delivered' = delivered \union {e}
  /\ UNCHANGED <<accepted, writtenOff>>

WriteOff(e) ==
  /\ e \in accepted \ writtenOff
  /\ writtenOff' = writtenOff \union {e}
  /\ UNCHANGED <<accepted, delivered>>

\* A dead row goes back to work: an operator requeues it, or a relay that
\* still had it in hand writes its own outcome over the dead one.
Reopen(e) ==
  /\ e \in writtenOff
  /\ writtenOff' = writtenOff \ {e}
  /\ UNCHANGED <<accepted, delivered>>

DInit == accepted = {} /\ delivered = {} /\ writtenOff = {}

DNext == \E e \in Events : Accept(e) \/ Deliver(e) \/ WriteOff(e) \/ Reopen(e)

DSpec == DInit /\ [][DNext]_dvars
==============================================================================
