------------------------------- MODULE Outbox -------------------------------
(***************************************************************************)
(* The transactional outbox: platform.event_outbox, the enqueue a route    *)
(* makes inside its own transaction, and the relay loops (one per kernel   *)
(* process) that lease rows, publish them to JetStream and write back the  *)
(* outcome.  A relay's transaction is one step; between two transactions,  *)
(* and around the publish, anything may happen to the row.                 *)
(*                                                                         *)
(* Events are outbox rows by name.  locked_until is abstracted to "is the  *)
(* lease running" (leased); that a lease runs out is an action.            *)
(***************************************************************************)
EXTENDS Naturals, FiniteSets

CONSTANTS
  Events, NoEvent, \* the enqueue calls that may happen, each naming its row
  Keys, NoKey,     \* dedup keys, and the absent one
  KeyOf,           \* the dedup key an event is enqueued with
  Poison,          \* events JetStream refuses whenever they are published
  Relays,          \* the processes that run a relay loop
  BatchSize,       \* opts.batchSize
  MaxAttempts,     \* opts.maxAttempts
  MaxCopies,       \* bound: copies of a message before its dedup window stays open
  FaultKinds,      \* the faults a run allows
  MaxFaults,       \* bound: faults in a behaviour
  PromptRelays,    \* TRUE: a batch is drained before its leases run out
  ArbiterExists    \* TRUE: event_outbox has the CONSTRAINT enqueue names

AllFaults == {"pickUnknown", "refused", "ackLost", "markFails", "markUnknown",
              "requeueFails", "crash", "stop", "operator"}

ASSUME OutboxAssumption ==
  /\ KeyOf \in [Events -> Keys \union {NoKey}] /\ NoKey \notin Keys
  /\ Poison \subseteq Events
  /\ BatchSize \in Nat \ {0} /\ MaxAttempts \in Nat \ {0} /\ MaxCopies \in Nat \ {0}
  /\ FaultKinds \subseteq AllFaults /\ MaxFaults \in Nat
  /\ PromptRelays \in BOOLEAN /\ ArbiterExists \in BOOLEAN
  /\ NoEvent \notin Events

VARIABLES
  tx,        \* the caller's transaction of each event
  status,    \* the row: absent, inserted (not committed yet), or its status column
  older,     \* occurred_at: the rows inserted before a row
  attempts,  \* the attempts column (MaxAttempts stands for anything above it too)
  leased,    \* locked_until is in the future
  pc,        \* where a relay is in relayBatch
  batch,     \* the picked rows a relay has not finished with
  seen,      \* the attempts value the pick returned for each of them
  cur,       \* the row a relay is working on, NoEvent between rows
  stopped,   \* startRelay's stop function was called
  copies,    \* messages of the event stored in the stream
  window,    \* msgIds JetStream still remembers
  faults     \* faults so far

rows  == <<tx, status, older, attempts, leased>>
relay == <<pc, batch, seen, cur, stopped>>
nats  == <<copies, window>>
vars  == <<rows, relay, nats, faults>>

Fault(k) == k \in FaultKinds /\ faults < MaxFaults /\ faults' = faults + 1
NoFault  == UNCHANGED faults

Visible(e) == status[e] \in {"pending", "published", "dead"}
SameKey(e, f) == KeyOf[e] # NoKey /\ KeyOf[f] = KeyOf[e]

OTypeOK ==
  /\ tx \in [Events -> {"none", "open", "committed", "aborted", "failed"}]
  /\ status \in [Events -> {"absent", "inserted", "pending", "published", "dead"}]
  /\ older \in [Events -> SUBSET Events]
  /\ attempts \in [Events -> 0 .. MaxAttempts]
  /\ leased \in [Events -> BOOLEAN]
  /\ pc \in [Relays -> {"idle", "publish", "mark", "fail"}]
  /\ batch \in [Relays -> SUBSET Events]
  /\ seen \in [Relays -> [Events -> 0 .. MaxAttempts]]
  /\ cur \in [Relays -> Events \union {NoEvent}]
  /\ stopped \in [Relays -> BOOLEAN]
  /\ copies \in [Events -> 0 .. MaxCopies]
  /\ window \in SUBSET Events
  /\ faults \in 0 .. MaxFaults

Init ==
  /\ tx = [e \in Events |-> "none"]
  /\ status = [e \in Events |-> "absent"]
  /\ older = [e \in Events |-> {}]
  /\ attempts = [e \in Events |-> 0]
  /\ leased = [e \in Events |-> FALSE]
  /\ pc = [r \in Relays |-> "idle"]
  /\ batch = [r \in Relays |-> {}]
  /\ seen = [r \in Relays |-> [e \in Events |-> 0]]
  /\ cur = [r \in Relays |-> NoEvent]
  /\ stopped = [r \in Relays |-> FALSE]
  /\ copies = [e \in Events |-> 0]
  /\ window = {}
  /\ faults = 0

------------------------------------------------------------------------------
(* The caller's transaction.                                               *)

\* Rows that hold the dedup key of e, committed or not.
Rivals(e) == {f \in Events : SameKey(e, f) /\ status[f] # "absent"}

\* The unique index makes an insert wait for an open transaction that inserted
\* the same key; only then is the conflict decided.
NeverWaits(e) == FALSE
MustWait(e) == \E f \in Rivals(e) : status[f] = "inserted"

\* enqueue: insert the row, or nothing when its key is taken.  Without the
\* constraint the ON CONFLICT clause names, the statement fails and takes the
\* caller's transaction with it.
Enqueue(e) ==
  /\ tx[e] = "none"
  /\ \/ /\ ~ArbiterExists
        /\ tx' = [tx EXCEPT ![e] = "failed"]
        /\ UNCHANGED <<status, older>>
     \/ /\ ArbiterExists /\ ~MustWait(e)
        /\ tx' = [tx EXCEPT ![e] = "open"]
        /\ \/ Rivals(e) # {} /\ UNCHANGED <<status, older>>
           \/ /\ Rivals(e) = {}
              /\ status' = [status EXCEPT ![e] = "inserted"]
              /\ older' = [older EXCEPT ![e] = {f \in Events : status[f] # "absent"}]
  /\ UNCHANGED <<attempts, leased, relay, nats, faults>>

Commit(e) ==
  /\ tx[e] = "open"
  /\ tx' = [tx EXCEPT ![e] = "committed"]
  /\ status' = [status EXCEPT ![e] = IF @ = "inserted" THEN "pending" ELSE @]
  /\ UNCHANGED <<older, attempts, leased, relay, nats, faults>>

Abort(e) ==
  /\ tx[e] = "open"
  /\ tx' = [tx EXCEPT ![e] = "aborted"]
  /\ status' = [status EXCEPT ![e] = "absent"]
  /\ older' = [f \in Events |-> IF f = e THEN {} ELSE older[f] \ {e}]
  /\ UNCHANGED <<attempts, leased, relay, nats, faults>>

------------------------------------------------------------------------------
(* The relay loop.                                                         *)

AvailableLeased    == {e \in Events : status[e] = "pending"}
AvailableDirtyRead == {e \in Events : status[e] \in {"inserted", "pending"} /\ ~leased[e]}
AvailableToTheLast == {e \in Events : status[e] = "pending" /\ ~leased[e] /\ attempts[e] < MaxAttempts}
Available == {e \in Events : status[e] = "pending" /\ ~leased[e]}

\* order by occurred_at limit n
Oldest(S, n) == {e \in S : Cardinality(S \intersect older[e]) < n}

\* The first transaction of relayBatch.  An empty pick only sleeps.  If the
\* commit's answer is lost the rows stay leased and nobody works on them.
Pick(r) ==
  /\ pc[r] = "idle" /\ ~stopped[r]
  /\ Available # {}
  /\ LET picked == Oldest(Available, BatchSize)
         tries  == [e \in Events |-> IF e \in picked /\ attempts[e] < MaxAttempts
                                     THEN attempts[e] + 1 ELSE attempts[e]]
     IN  /\ leased' = [e \in Events |-> e \in picked \/ leased[e]]
         /\ attempts' = tries
         /\ \/ /\ batch' = [batch EXCEPT ![r] = picked]
               /\ seen' = [seen EXCEPT ![r] = [e \in Events |-> IF e \in picked THEN tries[e] ELSE 0]]
               /\ pc' = [pc EXCEPT ![r] = "publish"]
               /\ NoFault
            \/ Fault("pickUnknown") /\ UNCHANGED <<batch, seen, pc>>
  /\ UNCHANGED <<tx, status, older, cur, stopped, nats>>

\* JetStream stores a message unless it still remembers its msgId.
Store(e) ==
  \/ e \in window /\ UNCHANGED nats
  \/ /\ e \notin window
     /\ copies' = [copies EXCEPT ![e] = @ + 1]
     /\ window' = window \union {e}

\* The awaited publish was refused: on to the catch block.
RefusalIgnored(r) == pc' = [pc EXCEPT ![r] = "mark"]
Refused(r) == pc' = [pc EXCEPT ![r] = "fail"]

\* One turn of the loop over the batch: RETURNING fixes no order, so any row of
\* the batch is next.  The publish is acknowledged, refused, or stored with the
\* acknowledgement lost.
Publish(r) ==
  /\ pc[r] = "publish"
  /\ \E e \in batch[r] :
       /\ cur' = [cur EXCEPT ![r] = e]
       /\ \/ /\ e \notin Poison
             /\ Store(e)
             /\ \/ NoFault /\ pc' = [pc EXCEPT ![r] = "mark"]
                \/ Fault("ackLost") /\ pc' = [pc EXCEPT ![r] = "fail"]
          \/ /\ (e \in Poison /\ NoFault) \/ (e \notin Poison /\ Fault("refused"))
             /\ Refused(r)
             /\ UNCHANGED nats
  /\ UNCHANGED <<rows, batch, seen, stopped>>

\* The relay is through with its current row.
NextRow(r) ==
  /\ batch' = [batch EXCEPT ![r] = @ \ {cur[r]}]
  /\ seen' = [seen EXCEPT ![r][cur[r]] = 0]
  /\ cur' = [cur EXCEPT ![r] = NoEvent]
  /\ pc' = [pc EXCEPT ![r] = IF batch[r] = {cur[r]} THEN "idle" ELSE "publish"]

\* The relay gives its batch up where it stands.
Drop(r) ==
  /\ batch' = [batch EXCEPT ![r] = {}]
  /\ seen' = [seen EXCEPT ![r] = [e \in Events |-> 0]]
  /\ cur' = [cur EXCEPT ![r] = NoEvent]
  /\ pc' = [pc EXCEPT ![r] = "idle"]

SetRowKeepLease(e, s) == status' = [status EXCEPT ![e] = s] /\ UNCHANGED leased
SetRow(e, s) ==
  /\ status' = [status EXCEPT ![e] = s]
  /\ leased' = [leased EXCEPT ![e] = FALSE]

\* The transaction that marks the row published, whatever its status is by now;
\* it may fail, or commit with its answer lost, and the catch block follows.
Mark(r) ==
  /\ pc[r] = "mark"
  /\ \/ SetRow(cur[r], "published") /\ NextRow(r) /\ NoFault
     \/ /\ UNCHANGED <<status, leased>> /\ Fault("markFails")
        /\ pc' = [pc EXCEPT ![r] = "fail"] /\ UNCHANGED <<batch, seen, cur>>
     \/ /\ SetRow(cur[r], "published") /\ Fault("markUnknown")
        /\ pc' = [pc EXCEPT ![r] = "fail"] /\ UNCHANGED <<batch, seen, cur>>
  /\ UNCHANGED <<tx, older, attempts, stopped, nats>>

OutcomeTooEarly(r) == IF seen[r][cur[r]] >= MaxAttempts - 1 THEN "dead" ELSE "pending"
Outcome(r) == IF seen[r][cur[r]] >= MaxAttempts THEN "dead" ELSE "pending"

\* The catch block: dead or back to pending, by the attempts the pick returned.
\* An error in its own transaction ends relayBatch with the batch unfinished.
HandleError(r) ==
  /\ pc[r] = "fail"
  /\ \/ SetRow(cur[r], Outcome(r)) /\ NextRow(r) /\ NoFault
     \/ /\ Fault("requeueFails") /\ Drop(r)
        /\ SetRow(cur[r], Outcome(r)) \/ UNCHANGED <<status, leased>>
  /\ UNCHANGED <<tx, older, attempts, stopped, nats>>

------------------------------------------------------------------------------
(* What happens around the relay.                                          *)

\* The process dies and comes back with an empty loop.
Crash(r) ==
  /\ pc[r] # "idle" /\ Fault("crash") /\ Drop(r)
  /\ UNCHANGED <<rows, stopped, nats>>

\* stop() lets the loop finish its batch; the next process takes over.
Stop(r) ==
  /\ ~stopped[r] /\ Fault("stop")
  /\ stopped' = [stopped EXCEPT ![r] = TRUE]
  /\ UNCHANGED <<rows, pc, batch, seen, cur, nats>>

Restart(r) ==
  /\ stopped[r] /\ pc[r] = "idle"
  /\ stopped' = [stopped EXCEPT ![r] = FALSE]
  /\ UNCHANGED <<rows, pc, batch, seen, cur, nats, faults>>

\* locked_until passes.  A prompt relay is through with the row by then.
LeaseRunsOut(e) ==
  /\ leased[e]
  /\ PromptRelays => \A r \in Relays : e \notin batch[r]
  /\ leased' = [leased EXCEPT ![e] = FALSE]
  /\ UNCHANGED <<tx, status, older, attempts, relay, nats, faults>>

\* JetStream forgets the msgId.
WindowEnds(e) ==
  /\ e \in window /\ copies[e] < MaxCopies
  /\ window' = window \ {e}
  /\ UNCHANGED <<rows, relay, copies, faults>>

\* The dead-letter runbook: status = 'pending', attempts = 0.
OperatorRequeue(e) ==
  /\ status[e] = "dead" /\ Fault("operator")
  /\ status' = [status EXCEPT ![e] = "pending"]
  /\ attempts' = [attempts EXCEPT ![e] = 0]
  /\ UNCHANGED <<tx, older, leased, relay, nats>>

RelayStep(r) == Pick(r) \/ Publish(r) \/ Mark(r) \/ HandleError(r)

Next ==
  \/ \E e \in Events : Enqueue(e) \/ Commit(e) \/ Abort(e)
  \/ \E r \in Relays : RelayStep(r) \/ Crash(r) \/ Stop(r) \/ Restart(r)
  \/ \E e \in Events : LeaseRunsOut(e) \/ WindowEnds(e) \/ OperatorRequeue(e)

Spec == Init /\ [][Next]_vars

\* Transactions end, the relay loops run, a restarted process comes back and
\* leases run out with time; nothing makes a fault, or an enqueue, happen.
Fairness ==
  /\ \A e \in Events : WF_vars(Commit(e) \/ Abort(e)) /\ WF_vars(LeaseRunsOut(e))
  /\ \A r \in Relays : WF_vars(RelayStep(r)) /\ WF_vars(Restart(r))

FairSpec == Spec /\ Fairness
------------------------------------------------------------------------------
(* Properties.                                                             *)

\* What enqueue promises a route: once its transaction committed, a row with
\* its event, or with the same dedup key, is there to be relayed; a duplicate
\* is never decided against a row that a rollback takes away.
DedupNeverLosesEvent ==
  \A e \in Events : tx[e] = "committed" =>
    Visible(e) \/ \E f \in Events : SameKey(e, f) /\ Visible(f)

\* A row says published only if its message is in the stream, whatever failed,
\* crashed or overlapped between the publish and the update.
PublishedIsStored == \A e \in Events : status[e] = "published" => copies[e] > 0

\* The lease does what it is for while relays are prompt: no two relays have
\* the same row in hand, through crashes, lost answers and failed updates.
Exclusive ==
  \A r, s \in Relays : r # s => batch[r] \intersect batch[s] = {}

\* A row is written off only after MaxAttempts picks since it was last queued.
DeadOnlyAfterMaxAttempts ==
  \A e \in Events : status[e] = "dead" => attempts[e] = MaxAttempts

\* An event JetStream accepts is not written off by fewer than MaxAttempts
\* faults (runs with MaxFaults < MaxAttempts).
HealthyNotDead == \A e \in Events \ Poison : status[e] # "dead"

\* A settled row stays as it is: no relay writes its own outcome over another's.
SettledIsFinal ==
  [][\A e \in Events : status[e] \in {"published", "dead"} => status'[e] = status[e]]_vars

\* Without faults a leased row is always in some relay's hands: a stopped relay
\* drains its batch instead of leaving rows to wait for their lease.
LeaseIsHeld == \A e \in Events : leased[e] => \E r \in Relays : e \in batch[r]

\* Every row is eventually published or dead for good, poison rows included.
EventuallySettled == \A e \in Events : <>[](status[e] \notin {"inserted", "pending"})

\* The outbox implements the delivery contract.
Delivery == INSTANCE EventDelivery WITH
  accepted   <- {e \in Events : tx[e] = "committed" /\ Visible(e)},
  delivered  <- {e \in Events : copies[e] > 0},
  writtenOff <- {e \in Events : status[e] = "dead"}

ImplementsDelivery == Delivery!DSpec
==============================================================================
