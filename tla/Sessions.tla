------------------------------- MODULE Sessions -------------------------------
(***************************************************************************)
(* The sessions of one tenant: the quota preflight and the insert of the   *)
(* create route (two transactions of one request), the revoke route, and   *)
(* the sweeper each kernel process runs, which revokes expired sessions    *)
(* and reports each of them once through the outbox's dedup key.           *)
(*                                                                         *)
(* A create call names the session it may insert.  Time is counted in      *)
(* ticks; the route takes any expires_at, one in the past included.        *)
(***************************************************************************)
EXTENDS Naturals, FiniteSets

CONSTANTS
  Calls,       \* the create calls that may happen
  ExpiresAt,   \* the expires_at a call asks for
  Clients,     \* how many create requests are served at the same time
  Limit,       \* max_sessions of the tenant's tier
  Sweepers,    \* the processes that run a sweeper
  Batch,       \* opts.batch
  ArbiterExists, \* TRUE: event_outbox has the CONSTRAINT enqueue names
  Horizon,     \* bound: the last tick
  MaxFaults    \* bound: failed transactions of sweepers and of the create route

ASSUME SessionsAssumption ==
  /\ IsFiniteSet(Calls) /\ ExpiresAt \in [Calls -> Nat]
  /\ Clients \in Nat \ {0} /\ Limit \in Nat /\ Batch \in Nat \ {0}
  /\ ArbiterExists \in BOOLEAN
  /\ Horizon \in Nat /\ MaxFaults \in Nat

VARIABLES
  now,        \* the tick of now()
  call,       \* a create call: idle, through the preflight, refused, failed or created
  revoked,    \* the sessions with revoked_at set
  spc, hit,   \* where a sweeper is, and the ids its subselect returned
  expires,    \* how many session.expire events the outbox has for a session
  told,       \* the sessions a session.revoked event names
  faults

vars == <<now, call, revoked, spc, hit, expires, told, faults>>

Created == {c \in Calls : call[c] = "created"}

STypeOK ==
  /\ now \in 0 .. Horizon
  /\ call \in [Calls -> {"idle", "passed", "refused", "failed", "created"}]
  /\ revoked \in SUBSET Created /\ told \in SUBSET Created
  /\ spc \in [Sweepers -> {"idle", "update"}]
  /\ hit \in [Sweepers -> SUBSET Created]
  /\ expires \in [Calls -> 0 .. 2]
  /\ faults \in 0 .. MaxFaults

Init ==
  /\ now = 0
  /\ call = [c \in Calls |-> "idle"]
  /\ revoked = {} /\ told = {}
  /\ spc = [w \in Sweepers |-> "idle"]
  /\ hit = [w \in Sweepers |-> {}]
  /\ expires = [c \in Calls |-> 0]
  /\ faults = 0

Fault == faults < MaxFaults /\ faults' = faults + 1

\* Each transaction below enqueues an event; without the constraint the enqueue
\* fails it, every time.
Fails == IF ArbiterExists THEN Fault ELSE UNCHANGED faults

InFlight == {c \in Calls : call[c] = "passed"}
Open == {c \in Created : c \notin revoked /\ ExpiresAt[c] > now}

Tick ==
  /\ now < Horizon
  /\ now' = now + 1
  /\ UNCHANGED <<call, revoked, spc, hit, expires, told, faults>>

------------------------------------------------------------------------------
(* The routes.                                                             *)

BelowLimitLate == Cardinality(Open) <= Limit
BelowLimit == Cardinality(Open) < Limit

\* The preflight counts in a transaction of its own.
Preflight(c) ==
  /\ call[c] = "idle" /\ Cardinality(InFlight) < Clients
  /\ \/ BelowLimit /\ call' = [call EXCEPT ![c] = "passed"]
     \/ ~BelowLimit /\ call' = [call EXCEPT ![c] = "refused"]
  /\ UNCHANGED <<now, revoked, spc, hit, expires, told, faults>>

\* The handler inserts without looking again.
Create(c) ==
  /\ call[c] = "passed"
  /\ \/ ArbiterExists /\ call' = [call EXCEPT ![c] = "created"] /\ UNCHANGED faults
     \/ call' = [call EXCEPT ![c] = "failed"] /\ Fails
  /\ UNCHANGED <<now, revoked, spc, hit, expires, told>>

\* The event is enqueued whether the update found an unrevoked session or not.
Revoke(c) ==
  /\ call[c] = "created" /\ ArbiterExists
  /\ revoked' = revoked \union {c}
  /\ told' = told \union {c}
  /\ UNCHANGED <<now, call, spc, hit, expires, faults>>

------------------------------------------------------------------------------
(* The sweeper: one update whose subselect picks the rows.                 *)

DueRevokedToo == {c \in Created : ExpiresAt[c] <= now}
DueOpenToo == Created \ revoked
Due == {c \in Created : c \notin revoked /\ ExpiresAt[c] <= now}

\* order by expires_at limit Batch
OldestDue(S) ==
  /\ S \subseteq Due
  /\ Cardinality(S) = IF Cardinality(Due) < Batch THEN Cardinality(Due) ELSE Batch
  /\ \A c \in S, d \in Due \ S : ExpiresAt[c] <= ExpiresAt[d]

\* The subselect reads what is committed; the rows it returns may be locked by
\* another sweeper or by the revoke route, whose commit the update waits for.
Select(w) ==
  /\ spc[w] = "idle" /\ Due # {}
  /\ \E S \in SUBSET Due : OldestDue(S) /\ hit' = [hit EXCEPT ![w] = S]
  /\ spc' = [spc EXCEPT ![w] = "update"]
  /\ UNCHANGED <<now, call, revoked, expires, told, faults>>

\* enqueue with the key session.expire:<id>.
ReportAgain(S) == expires' = [c \in Calls |-> IF c \in S /\ expires[c] < 2 THEN expires[c] + 1 ELSE expires[c]]
Report(S) == expires' = [c \in Calls |-> IF c \in S THEN 1 ELSE expires[c]]

\* The update does not look at revoked_at again: a row another transaction
\* revoked meanwhile is revoked once more and returned once more.
Sweep(w) ==
  /\ spc[w] = "update" /\ ArbiterExists
  /\ revoked' = revoked \union hit[w]
  /\ Report(hit[w])
  /\ spc' = [spc EXCEPT ![w] = "idle"]
  /\ hit' = [hit EXCEPT ![w] = {}]
  /\ UNCHANGED <<now, call, told, faults>>

\* An update, one of the enqueues or the commit fails, or the process dies, and takes
\* the whole sweep back; the loop, or the next process, goes on with the next.
SweepFails(w) ==
  /\ spc[w] = "update" /\ Fails
  /\ spc' = [spc EXCEPT ![w] = "idle"]
  /\ hit' = [hit EXCEPT ![w] = {}]
  /\ UNCHANGED <<now, call, revoked, expires, told>>

Next ==
  \/ Tick
  \/ \E c \in Calls : Preflight(c) \/ Create(c) \/ Revoke(c)
  \/ \E w \in Sweepers : Select(w) \/ Sweep(w) \/ SweepFails(w)

Spec == Init /\ [][Next]_vars

\* Time passes and every sweeper comes back after its interval; nobody has to
\* call a route.
Fairness == WF_vars(Tick) /\ \A w \in Sweepers : WF_vars(Select(w) \/ Sweep(w))

FairSpec == Spec /\ Fairness
------------------------------------------------------------------------------
(* Properties.                                                             *)

\* The preflight's count is stale when the insert happens, so the limit can be
\* overrun, but by no more than the requests served at the same time.
OverrunBounded == Cardinality(Open) <= Limit + Clients - 1

\* A session revoked without a revoke call is reported as expired, and no
\* session is reported twice, however many sweepers pick it up and fail.
ReportedOnce ==
  \A c \in Calls : /\ expires[c] <= 1
                   /\ c \in revoked \ told => expires[c] = 1

\* Only a session that did expire is reported as expired.
ExpireHasCause == \A c \in Calls : expires[c] > 0 => c \in Created \intersect revoked /\ ExpiresAt[c] <= now

\* Every session is closed in the end, whatever the batch size: the rows a sweep
\* leaves behind come up later.
EventuallyClosed == \A c \in Calls : call[c] = "created" ~> c \in revoked
==============================================================================
