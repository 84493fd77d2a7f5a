# Verification of the DOGAN platform

TLA+ models of the parts of this repository in which several processes, database
transactions and messages have to agree, the TLC runs that check them on small
instances, and TLAPS proofs of the main results for every instance. All paths
below are relative to the repository's root.

The repository holds many programs. Two of them are modelled, each in part:

- the *platform kernel*: `packages/` (libraries), `src/` (the pillars DAuth, DSOC,
  DNOC, DOS and the composer that joins them), `products/` and
  `migrations/platform/` (the schema, with triggers). One or more kernel processes
  serve HTTP requests against one PostgreSQL database and one NATS JetStream account;
- the back end of *`platform-package/`*, an Express program of several hundred
  services around an event bus, a workflow engine and an approval engine, each an
  object of one process over PostgreSQL tables. It shares nothing with the kernel.

## 1. Inventory

| Component | Where | State it keeps | Operations | Module |
|---|---|---|---|---|
| Event outbox and relay | `packages/events/src/outbox.ts`, `nats.ts` | rows of `platform.event_outbox`: status, attempts, lease; a relay's batch in memory | enqueue, pick, publish, mark, requeue or dead-letter, start/stop | `Outbox`, `EventDelivery` |
| DSOC alert consumer | `src/DSOC/src/alert-consumer.ts`, `nats.ts` | JetStream delivery state, fetched messages, `platform.security_alerts` | hand out, handle, insert, ack, close | `AlertConsumer` |
| Both joined | the DOGAN_EVENTS stream | | | `EventPipeline` |
| Role grants and SoD | `src/DAuth/src/provisioning.ts`, `migrations/platform/0002`, `0005`, rule routes | `role_assignments`, `sod_rules`, `sod_violations` | grant, revoke, edit and delete rules, the trigger | `RoleGrants` |
| Sessions | `src/DAuth/src/sessions.ts`, `quotas.ts`, `session-sweeper.ts` | `platform.sessions` | quota preflight, create, revoke, sweep | `Sessions` |
| Administrators' log | `src/DOS/src/admin/audit-chain.ts`, `admin-actions.routes.ts` | `admin_action_log`, a hash chain | request, approve, reject, append, verify | `AdminLog` |
| Event bus (platform-package) | `platform/dos/events/event-bus.ts`, `event-idempotency.service.ts`, `event-ordering.service.ts` | event log, idempotency log, dead letters; tasks and subscriptions in memory | publish, emit, handle, dead-letter, recover | `EventBus` |
| Dead letters (platform-package) | `event-bus.ts`, its job and routes | `agrc_event_dlq` | retry pass, abandon, publish anew | `DeadLetters` |
| Approval engine (platform-package) | `approval-engine.service.ts` | requests, their log | submit, approve, reject, delegate, escalate | `Approvals` |
| Workflow engine (platform-package) | `workflow-engine.service.ts` | executions, instance steps, an advisory lock | ask for approval, resolve, advance, complete | `Workflow` |
| Tenants and users | `provisioning.ts`, `keycloak-admin.ts`, `openfga-admin.ts` | Keycloak, database and OpenFGA, one after the other | provision | planned |
| API keys, Keycloak events | `api-keys.ts`, `kc-events.ts` | `api_keys`, `auth_events` | create, revoke, webhook | planned |
| Evaluators | `packages/authz/src/abac.ts`, `sod.ts`, `risk.ts` | none | evaluate | planned (pure) |
| Registries | `src/DOS/src/admin/*.routes.ts`, `jit-elevation.ts` | plugins, schema changes, agent graphs, endpoints, JIT grants | register, apply, revoke | planned |
| Product loader | `packages/kernel/src/product-loader.ts` | `platform.products` | load at start | planned |
| Migration runner | `packages/db/src/migrate-cli.ts` | `schema_migrations` | migrate | planned |
| Idempotency keys | `src/DOS/src/admin/idempotency.ts` | `idempotency_keys` | a library no route calls | no |
| DNOC, telemetry, config, contracts, SDK, Consult product | `src/DNOC`, `packages/*`, `products/consult` | none, or one-statement CRUD | probes, wrappers | no |
| Rest of `platform-package` | `modules/`, `platform/` | tenant tables, one service each | CRUD and calls to it | no |
| Front ends, `dogan-consult-backend`, `openclaw`, specifications, ops | top-level directories | separate or vendored programs, documents, configuration | | no |

How they interact. In the kernel a DAuth route changes its tables and *enqueues* an
event in the same transaction. A relay in each process leases pending rows,
publishes them to JetStream with the row id as msgId, and writes the outcome back.
JetStream hands the message to one of the processes that share DSOC's durable
consumer, whose handler promotes some events into alerts. The session sweeper is one
more producer. Kernel processes share nothing but the database and the stream.
In `platform-package` a service *publishes* to the bus of its own process, which
stores the event and calls the handlers without waiting for them; a handler that
throws leaves a dead letter, which a job and two routes try again. The workflow
engine stops at an approval step and asks the approval engine; the call that
decides the request starts the engine again, and does not wait for it.

What makes it hard, by part (each hazard, with its line, is in `PROJECT.json`):

- *Outbox.* Three transactions and one network call per row, with a lease that
  can end meanwhile; an answer that is lost leaves two outcomes possible; the
  catch block runs for a publish that succeeded; attempts are decided by a value
  read earlier; a dedup key is decided against transactions still open.
  Correct when: what committed is delivered at least once or written off, in the
  end one of the two happens, and a row says published only if the stream has it.
- *Alert consumer.* At-least-once delivery, an acknowledgement nobody waits for,
  an error that is swallowed. Correct when: an acknowledged message was promoted,
  but for an insert that failed.
- *Role grants.* A trigger under READ COMMITTED looks at other rows without
  locking them. Correct when: roles a rule keeps apart are not held together,
  and grants, revokes and violations are what the tables say.
- *Sessions.* A quota checked in one transaction and used in another; sweepers
  that pick the same rows. Correct when: the overrun is bounded, every expiry is
  reported once, and every session is closed in the end.
- *Administrators' log.* The last hash is read without a lock; approving is two
  transactions. Correct when: a fork tells of an overlap and nothing else, an
  rows stay linked as they were, and nobody approves what he asked for.
- *Event bus.* Handlers nobody waits for, turns kept in memory, a log of what was
  handled that is written afterwards, a recovery beside the publishing. Correct when:
  a call is lost, overtaken or repeated only for a reason one can name.
- *Dead letters.* Passes that overlap and write from what they read; a failure ends a
  whole pass. Correct when: rows are settled by what was tried, and stay settled unless two
  had them in hand.
- *Approvals and workflows.* Statements without a transaction around them; a
  session's lock used through a pool; a decision that may come before the engine has
  finished asking. Correct when: a chain is not skipped, and an approval takes the
  workflow on, once.

## 2. Modules

**`EventDelivery`** is the contract of the outbox: sets of accepted, delivered and
written-off events. No table, lease or relay appears in it.

**`Outbox`** details it. An event names its row. `Enqueue`, `Commit` and `Abort`
are the caller's transaction (outbox.ts 46-60); `Pick`, `Publish`, `Mark` and
`HandleError` are the transactions and the awaited publish of `relayBatch`
(62-128), each one step, since READ COMMITTED statements on locked rows serialise
and a process can stop between any two of them. `Crash`, `Stop`, `Restart`,
`LeaseRunsOut`, `WindowEnds` (JetStream forgets a msgId) and `OperatorRequeue`
(`ops/runbooks/outbox-deadletter.md` 22) happen around them. A fault is a branch
of the step it strikes: the answer of the pick, the publish or an update is lost
(`pickUnknown`, `ackLost`, `markUnknown`), a publish is refused, an update fails
(`markFails`, `requeueFails`). `locked_until` is abstracted to "is it in the
future". `attempts` saturates at `MaxAttempts`, above which the code treats all
values alike. `occurred_at` is the order of inserts (`older`).

**`AlertConsumer`** has JetStream's side (`HandOut`, `AckWaitEnds`, max_deliver)
and the process's: `Begin`, one `Insert` per alert, `Ack`, `CrashConsumer`,
`Close`, `Reopen`. `Route` maps an event to the alerts it is worth. The nak branch
of nats.ts 158 has no action: the handler catches everything, so it is never
taken; `swallowed` is the history of the inserts that failed and were caught.

**`EventPipeline`** composes them: the consumer's stream is the outbox's copies.

**`RoleGrants`** covers one user of one tenant, which is the extent of the trigger's
queries. A grant is `StartGrant` (the trigger reads the rules), one `CheckRule` per
rule (each with the snapshot of its own query), `Insert` (on conflict do nothing,
after waiting for an open rival), and `CommitGrant` or `FailGrant`. A revoke is its
update and its commit. `UpsertRule` and `DeleteRule` are the administrators. A rule
that is disabled, or not static, is "off". `read` and `since` are history variables
and guard nothing. An edit of `conflict_set` is left out.

**`Sessions`** counts time in ticks. `Preflight` and `Create` are the two
transactions of one request, of which `Clients` are served at a time. A sweep is
`Select` (the subselect) and `Sweep` (the update, the enqueues, the commit), because
between them the update may wait for a row another transaction has locked; after
that wait PostgreSQL re-evaluates the outer condition `id in (...)` only, with the
subselect's row, so a row revoked meanwhile is updated and returned again.

**`AdminLog`**: a call names the row it may append. `ReadLastHash`, `Insert` and
`Commit` are one transaction, in which the row takes its id from a sequence when it is
inserted and is seen when it commits; approving starts with another (`FindRequest`).
A hash covers a fresh UUID, so a row's call stands for its hash. Of `verifyChain`, which
is one query, the module has the check of the links: `Unlinked` are the rows that do not
carry the hash of the row before them. The hashes it computes again are left out
(section 4).

**`EventBus`** has one tenant and one type of event. `Persist`, `Emit` and
`MarkDispatched` are publish; `StartRecovery`, `Recover` and `MarkRecovered` are the
recovery, which reads once what is pending and then emits and marks one event at a
time; its limits (five attempts, a day, a hundred rows) are abstracted to reading any part
of the pending rows, and a row may be abandoned when marking it fails. An event whose
COMMIT is not answered has a row, yet is published, as one that could not be stored is,
under a made-up id. A call of a handler is a task: `Begin` (its turn among the events of its
entity, then the idempotency check), `Complete` or `Throw`, `Mark` or `Bury`. The
tables of marks and dead letters take UUIDs and refuse a made-up id (`Accepts`), which a
call remembers as not being `named`. `Restart` empties the memory and may bring a build with
other handlers. `RetryDeadLetter` is a pass of `DeadLetters` seen from here: the
handler runs without check, mark or turn.

**`DeadLetters`**: a pass is `StartPass` (its one query), then for each row `Look`,
`CallHandler`, and `Resolve` or `CountTry`, written from what the query returned.
`Abandon`, and `Republish` with `ResolveRepublished`, are the routes of a single row; the
latter does not look at what `publish()` answers, so its row goes on whether the event was
taken or `refused`.
The delay between tries is abstracted: a pass may find any part of the pending rows
due. `shared` is the history of rows in the hands of two, `spent` of what was called.

**`Approvals`** is one request and the calls on it, three statements each: read, log,
write. **`Workflow`** extends it with the engine: `Ask`, `Link` and `Pause` are
`createApprovalForStep`; the program counter `res` of a call that decided goes through
`onApprovalResolved`, `advanceStep` and `completeStep` statement by statement.
`pg_try_advisory_lock` belongs to a connection, so `held` counts per connection of the
pool and each statement takes any of them. A statement that fails or an advance that
is refused is `Break`; it and a crash are noted in `trouble`.

**`MC*`** give the constants small values. **`*Proofs`** hold the theorems, one module
per component; `EventPipelineProofs` has the outbox and the pipeline.

A module that enqueues through the outbox without modelling it (`RoleGrants`,
`Sessions`) takes what `Outbox` shows: the enqueue commits with its transaction, and
a second enqueue with the same key is skipped. That an enqueue succeeds at all is the
constant `ArbiterExists` of `Outbox` and `Sessions`, which the schema of the migrations
makes FALSE (section 4): with it FALSE a session is never created by a
route and no sweep commits. `RoleGrants` takes it to be TRUE.

## 3. Runs

| Run | Shows |
|---|---|
| `outbox_faults` | 2 relays, 3 events (two share a dedup key, one is poison), every fault, leases that end at any time: `DedupNeverLosesEvent`, `PublishedIsStored`, and the outbox implements `EventDelivery` |
| `alerts` | 2 processes, 2 messages (one worth two alerts), failing inserts, crashes, lost acknowledgements, ack_wait ending at any time: `AckedIsPromoted` (but for a swallowed insert), `AlertsWithinDeliveries`, `AllHandled` |
| `pipeline_live` | both joined, a batch of 1 beside a poison event, batches drained within the lease, one relay and one consumer fault: every row settles (`EventuallySettled`) for good (`SettledIsFinal`), every committed event raises its alerts (`CommittedIsAlerted`) and no other does (`AlertHasCause`), rows are not shared (`Exclusive`), a healthy event is not written off, none before its attempts are used up |
| `pipeline_clean` | refused publishes, failing inserts and restarts of both sides, but no crash and no lost answer, a dedup window that may end at once: `OneAlertPerEvent`, `LeaseIsHeld` |
| `roles` | 4 grants of two conflicting roles (two pairs of duplicates, one with a NULL scope), 1 revoke, 2 rule edits: `CoheldHasCause`, `GrantedIsHeldOrRevoked`, `RevokeReachesAll` |
| `roles_coexist` | *violated*: `NeverCoexist`, two overlapping grants |
| `sessions` | limit 1, 2 requests at a time, 2 sweepers with a batch of 1, 1 failed transaction: `OverrunBounded`, `ReportedOnce`, `ExpireHasCause`, `EventuallyClosed` |
| `admin` | 2 administrators, 2 requests, 3 approvals, 1 rejection, rollbacks, expiries: only an overlap forks the chain (`ForkHasCause`), no fork is hidden again (`BreaksStay`), `ApprovedByAnother` |
| `bus` | 2 events of one entity, 1 handler, 2 failing statements (an unanswered COMMIT among them), a restart with or without the handler, recovery and dead letters: `LossHasCause`, `NoOvertaking`, `OnceHasCause` |
| `dead_letters` | 2 rows, the job and a route one row a pass, one call of the single-row route, a failing statement, a restart, the payload taken to be text: `SettledByTries`, `SettledStays` |
| `workflow` | a chain of 2, 2 approvals, an escalation, a rejection, 2 pooled connections, failures and crashes at any time: `EveryStepDecided`, `DecisionsOverlap`, `AdvancesAreApprovals`, `EndedStays`, `ApprovedAdvances` |
| `workflow_lock` | *violated*: `AdvanceExclusive`, two calls on one pooled connection |

`alerts` and `bus` also check their module's type invariant; every module's is proved.

**Bounds.** Two relays, processes, sweepers or passes are the smallest number that can
overlap, and their properties are about pairs. Three events give a dedup pair and a
third that competes for the batch; `BatchSize` 2 of 3 leaves one behind.
`MaxFaults` 2 lets a fault strike the recovery from another one; where it is 1,
`MaxAttempts` 2 is what a healthy event must survive.
`MaxCopies` 2 tells one copy from more; at the bound the dedup window stays open.
`MaxDeliver` 2 or 3 lets a message be given up. Four grants are two overlapping pairs of
both roles; two rule edits switch a rule off and on, or delete a newly made one.
In `sessions` one call asks for an expiry in the past and two expire together, more than
a batch. In `admin` the third approval lets two approve one request while another is
approved by its own administrator. In `bus` two failing statements are a failed check
beside a failed mark, one restart splits publishing from recovery, and `runs`
counts to 2, the second call being the question. In `dead_letters` a `Limit` of 1 leaves a
row behind each pass, and `MaxRetries` 2 lets two passes count the same try. In
`workflow` two approvals and an escalation are one more than the chain has steps, and
two connections are what a lock taken on one and given back on another needs. The violated
runs use the smallest instance that shows the matter, with no fault where none is needed.
Relays (outbox) and twin grants (`roles`) are interchangeable
constants, hence the symmetry; runs with liveness use none.
`CHECK_DEADLOCK FALSE` is set throughout because the environment may stop making
calls: the system then rests, which is no error.

**Fairness.** Weak, and only for what the code schedules itself: open transactions
end; a relay loop (`while (!stopped)`) takes its next step, whichever it is; leases,
ack_wait and the clock pass; JetStream hands out waiting messages; handlers run to
their end; sweepers come back after their interval; a stopped process is replaced, as
its systemd or pm2 unit does; the resolution of an approval goes on while its process is up. No call and no fault is ever forced, and
a dedup window need not end. Relays are not fair to a particular row: `RETURNING`
fixes no order, and the properties hold whichever order the batch has.

**Every property has a mutant**, a plausible mistake in the mapped code that breaks
it under the same cfg; the mutated operators stand beside the originals in the
modules (`AvailableLeased` forgets the lease, `ReportAgain` the dedup key, `LastHashFirst`
reads the hash chain from the wrong end, `MayApproveOwn` forgets who asked, and so on). A
few change what PostgreSQL does for the code, where the code's part is one clause: an
insert that does not wait for an open rival stands for a check followed by an insert
(`DedupNeverLosesEvent`, `GrantedIsHeldOrRevoked`), a read of uncommitted rows for an
enqueue outside the caller's transaction (`ImplementsDelivery`, `AlertHasCause`) or, in
`BreaksStay`, for a last hash read from another session's open append.

## 4. What the runs found

- **Conflicting roles** (`roles_coexist`). Two overlapping grants both pass the
  trigger of migration 0005 (line 122); `CoheldHasCause` and its proof show that, beside
  rules that were not blocking when read, this is the only way.
- **The engine's lock** (`workflow_lock`). workflow-engine.service.ts 463 takes a
  *session's* advisory lock through the pool. A second call that is handed the same
  connection gets it again, so two calls advance one instance at a time, which
  line 458 says the lock prevents. Given back on another connection (which does
  nothing), it stays with the first and turns later advances away: the approval then
  completes its step and the workflow goes no further. `ApprovedAdvances` has to except
  this (`Left`).

Also noticed, and left without a run, because one step shows it or because nothing in
the repository promises otherwise:

- *Enqueue.* outbox.ts 56 names `on constraint uq_event_outbox_dedup`; migration 0003 line 56
  creates that name as a partial unique *index*. PostgreSQL accepts only a constraint
  there, so the statement fails, and with it the transaction of each route that enqueues
  and of each sweep of expired sessions (session-sweeper.ts 40). The comment of
  outbox.ts 35 has the enqueue inside the caller's transaction, to guarantee its
  delivery. All runs
  and theorems that need an enqueue to succeed are about the intended schema
  (`ArbiterExists = TRUE`), a migration away; the theorems of `Outbox` and `Sessions` hold for
  both values, with nothing enqueued where it is FALSE.
- *Records of violations.* Migration 0005 calls them immutable (72) and the table
  append-only (102), but declares `rule_id` on delete cascade (79): deleting a rule
  (`crud-routes.ts` 300) deletes the records of what was granted against it.
  `WarnedIsRecorded` is therefore false of the code as it stands, and
  `WarningsAreRecorded` proves it of the behaviours in which no rule is deleted. The record of
  a blocked grant (131) is undone by the exception that blocks it (139), so the runbook
  (`ops/runbooks/sod-blocked.md` 10) finds none, for all that line 83 has a decision
  `blocked`.
- *Verifying the administrators' log.* The append hashes a fresh UUID and its own clock, the
  verifier the stored bigserial and timestamp (audit-chain.ts 63-71, 99, 106): every chain
  is reported broken at its first row, against 91 ("or null if intact"). What
  `ForkHasCause` and `BreaksStay` say of the links holds regardless.
- *Retrying dead letters.* A pass parses the payload (event-bus.ts 711), which a JSONB
  column (667) returns as an object: each pass ends at its first row, against 690 ("Retry
  failed events from the dead letter queue with exponential backoff") and the job's "every
  30 minutes" (grc-engine-jobs.ts 90), so no pass settles anything. The route of a single
  row does the same (event-dlq.routes.ts 124). `dead_letters` asks what overlapping passes
  are worth once that is mended (`PayloadIsText = TRUE`), since with FALSE no pass gets past
  its first `Look`; its theorems hold for both. That every row is settled in the end is not
  claimed.
- *Alerts.* A failed insert is logged and swallowed (alert-consumer.ts 45), so its message
  is acknowledged without that alert. A failed update after a successful publish
  (outbox.ts 111), with JetStream's window over, yields a second message and, since
  `security_alerts` has no unique key, a second alert; the comments of outbox.ts 34-37 and
  alert-consumer.ts 24-26 promise otherwise. A failed row is available at once (119),
  without the exponential retry of PLATFORM-CHARTER.md 98. `publish` drops the
  headers the relay builds (nats.ts 133-141).
- *Grants.* A grant of an assignment that was revoked is skipped by `on conflict do nothing` while
  `role.granted` is announced; `GrantedIsHeldOrRevoked` excepts it.
- *Administrators' log.* The approve route casts a bigserial's value to `uuid`
  (admin-actions.routes.ts 57), so that no approval finds its request; `admin` takes what
  is meant (`IdsComparable`). A request can be approved again and after a rejection.
- *Event bus.* event-bus.ts 301 and 435 promise "WAL durable delivery". `LossHasCause` is
  what there is: it excuses every call and dead letter lost with the process or to a
  failing insert, since an event is marked dispatched when its handlers have been
  called, not when they are done; and `runStartupRecovery`, which would bring pending events
  back, has no caller (nor has `replayForConsumer`). The idempotency log and the dead
  letters take UUIDs and refuse the ids made up for events that could not be stored, or
  whose COMMIT was not answered (853-864): such a row stays pending, and the recovery
  would emit it a second time.
- *Dead letters.* The route of a single row ignores the answer of `publish()`
  (event-dlq.routes.ts 125), which back-pressure or a hook may have refused
  (event-bus.ts 454-456, 479-483), and resolves the row (127); `SettledByTries` names these
  rows.
- *Approvals.* `approveStep` does not check who approves.
- *Elsewhere.* The product loader's query returns enabled products only, so in
  permissive mode a disabled one is loaded (product-loader.ts 38). Of two migration
  runners the second fails on the key of `schema_migrations`. The dead-letter runbook
  names a table `platform.outbox_events` that no migration creates; the model takes its
  statement to mean `event_outbox`.

## 5. Proofs

The theorems hold for every value of the constants that satisfies the module's
`ASSUME` (types of the parameters, and finitely many calls of `Sessions` and handlers of
`EventBus`), and such assumptions as the statement names. The library's theorems on
finite sets, functions, sequences and well-founded order are the only other facts used. Each module
proves its model's type invariant first.

**`EventPipelineProofs`**, the outbox. `PublishedIsStored` and `DedupNeverLosesEvent` are
invariants under every fault and with leases that end at any time.
Neither is inductive alone. *A published row is in the stream* needs that a relay about
to mark a row has a stored copy of it (`RelayConsistent`), which for a publish that
JetStream answers as a duplicate needs that a remembered msgId was stored
(`RememberedIsStored`). *A committed enqueue is not lost* needs that an enqueue that
found its key taken found it on a committed row (`DuplicateHasOriginal`), true
because an insert waits for an open rival (`MustWait`), and kept because a visible
row never goes away (`VisibleStaysVisible`), which in turn needs that rollbacks only
take rows of open transactions and that relays only hold rows of committed ones
(`RowsHaveTx`). `FullIsRemembered` keeps the bound on copies. The proof has one lemma
per action, `NextIInv` collects them. `Spec => ImplementsDelivery` follows from `IInv`:
a commit accepts, the first stored copy delivers, an outcome writes off, reopens or
changes nothing.

*Leases.* With the assumption `PromptRelays`, `Exclusive` and
`DeadOnlyAfterMaxAttempts`: a held row is leased until its outcome is written
(`HeldIsLeased`), hence not available to another relay; and what a relay read of
`attempts` is not ahead of the row (`SeenNotAhead`). Without the assumption both are
false: a slow relay shares rows with another, and may write dead over a row an
operator has just requeued. When moreover the answer of no update is lost and no
operator requeues (`OutcomesKnown`), a held row is pending (`HeldIsPending`), so
that `SettledIsFinal` holds as well (`OutcomesAreFinal`). `HealthyNotDead` assumes
`FewFaults`, that is `PromptRelays` and fewer faults than `MaxAttempts`. It counts:
every attempt at a healthy row, but the one under way, was ended by a fault, and no
fault ends more than one attempt of a row (`FaultsCharged`). `LeaseIsHeld` needs no prompt
relay, only that a relay finishes its batch (`BatchesFinished`): it does after `stop()`, and
does not after a crash, a pick whose answer is lost or a failure to requeue.

*The pipeline.* The outbox's stream only grows, so a run of the pipeline is a run of the
consumer alone (`ConsumerRuns`), and what `AlertConsumerProofs` shows of the latter
holds of both. `AlertHasCause` adds that a stored message is of a committed event
(`StoredIsVisible`), under every fault of both sides. `OneAlertPerEvent` assumes
`CleanRelays` and `CleanConsumers`: leases and ack_wait hold, no process dies, no
acknowledgement or mark is lost, no operator requeues. Then a stored row is published
or about to be (`StoredOnce`), so the stream has one copy whatever the dedup window does.
The assumptions are what the code needs, not what the proof needs: each of the
excluded faults makes a second alert, as section 4 says.

**`AlertConsumerProofs`** proves `ATypeOK`, `AckedIsPromoted` and
`AlertsWithinDeliveries` for any processes, prefetch, `max_deliver` and faults, with
an ack_wait that may end at any time. `AckedIsPromoted` needs what a handler knows
before it acknowledges: what is left of its alerts, those raised and those swallowed
are together all that the message is worth. `AlertsWithinDeliveries` counts
deliveries against alerts raised plus the handlers that may still raise one. Where
ack_wait is long enough and nothing dies, a message is in one hand at a time
(`OneHand`), and raises an alert once (`AlertsOnce`).

**`EventBusProofs`** proves `BusTypeOK`, `LossHasCause`, `NoOvertaking` and
`OnceHasCause` for any events, entities, (finitely many) handlers, failing statements
and restarts. The proof speaks of positions in the sequence of calls: a statement of a
call keeps it in place or takes it out (`Turn`), an emission appends
(`EmissionAppends`), a restart empties it. `PublishInv` says where an event stands
when nothing of it has been emitted; `NothingLost`, that what was emitted is settled
or called. `OrderInv`: of two events of an entity in the order of emission, a handler
has the earlier settled, or its call is ahead of every call of the later (`Ahead`), and has
not begun the later unless the earlier is settled. A call that has begun is first of its
entity (`Serial`), so two calls of the same event never run beside each other
(`OneFirst`); a run is therefore in the idempotency log, on its way there, or missed
by it (`RunAccounted`) when the next one begins, which gives `OnceHasCause`. What runs
under a made-up id is missed by the log from its first step on (`UnnamedMissed`). Without an entity two calls of an event emitted twice may run side
by side, which is why `OnceHasCause` speaks of entities.

**`SessionsProofs`** proves `OverrunBounded`, `ReportedOnce` and
`ExpireHasCause`. The bound is not inductive: a request past the preflight must be
counted before its session exists (`RoomLeft`: open sessions and requests in flight
together stay within Limit + Clients - 1). `HitIsDue` says what a sweeper
carries from its subselect to its update.

**`RoleGrantsProofs`** proves the three properties of `roles` for any grants, revokes,
rules and edits, and `WarnedIsRecorded` for behaviours in which no rule is deleted
(`NeverDeletes`). `CheckedInv` says what a grant past the trigger knows: for each rule
it found blocking, and each role in conflict, that no grant committed before it began
held it; `SinceInv` ties what a call saw to the rows there now, `RowsInv` rows to the
transactions that own them, `RevokesInv` a revoke to the rows its update locked.

**`AdminLogProofs`** proves `ForkHasCause`, `BreaksStay` and `ApprovedByAnother`. `IdsInv` says that
ids are distinct and below the sequence, `ReadInv` that what a call saw committed stays
so with smaller ids, and that the `prev_hash` it read is the last of what it saw,
`ApproveInv` what an approval that was let through knows of its request.

**`DeadLettersProofs`** proves `SettledByTries` and `SettledStays` for any passes, rows
and limits. `WorkInv` says what a pass that called a handler knows, `SpentInv` that a
count read or written never exceeds the calls made, which is why passes that
overwrite each other lose tries but never invent one; `RedoInv`, that what the
single-row route is about to resolve was given to `publish()`; `HeldInv` that a row which was never shared and is
in a pass is pending. The first row of a pass exists because the naturals are well
ordered (`LeastNatural`).

**`WorkflowProofs`** proves `EveryStepDecided`, `DecisionsOverlap`,
`AdvancesAreApprovals` and `EndedStays` for chains of any length and any calls and
connections. `ChainInv`: the steps below the present one, and below what any call has
read, are in the log. `EngineInv` (`ResInv`): the steps created and the approvals still
on their way to create one are together no more than the approvals, and an execution
that ended was ended by one of those that decided.

**Model-checked only**: the liveness properties (`EventuallySettled`,
`CommittedIsAlerted`, `AllHandled`, `EventuallyClosed`, `ApprovedAdvances`), which need fairness and are out of the prover's reach. Every
invariant and action property of a passing run has its theorem. No module uses
recursion, so none of them is barred from proofs.

## 6. Not modelled

- *Row-level security and tenants*: a model has one tenant; the kernel's
  `set_config` calls and policies are taken to select it.
- *HTTP, schemas and authentication*: an action starts where the handler does.
- *JetStream beyond the stream and the consumer*: limits and retention of the
  stream, the reconnects of `NatsRuntime.connect`.
- *Time as a quantity*: leases, ack_wait, dedup windows and the delays of dead letters
  end at some time; that 30 seconds are enough for 100 publishes is the assumption
  `PromptRelays`, and `outbox_faults` shows what holds without it.
- *A tenant whose tier has no limits row*: `Limit` is a number; without the row the
  preflight lets every request pass.
- *Around the event bus*: the back-pressure gate, hooks, the WebSocket bridge, the
  cleanup of the idempotency log, several processes on one log, and the log's hash chain,
  which is `AdminLog`'s question again with rows ordered by a timestamp taken before
  its lock.
- *Around the engines*: starting and cancelling an instance, tasks, conditions and
  assignment of steps, chains and directories of approvers, the job that finds overdue
  requests (its escalation is a call).
- *`platform-package` beyond these*: several hundred services that read and write the
  rows of a tenant, most of them one statement at a time. Those that keep a protocol of
  their own (webhook delivery, jobs, elevations) are left for later.
- *`openclaw`*, the larger part of the repository by lines, is a vendored program with
  a project of its own (the modules of that name in `platform-package` are separate
  code); the share of all lines that these models cover is small for that reason.
- The components marked planned or no in section 1, with reasons in `PROJECT.json`.

## 7. Plan

Done: 1. `EventDelivery`, `Outbox`, its proofs and refinement; 2. `AlertConsumer`,
`EventPipeline` and their proofs; 3. `RoleGrants` and its proofs; 4. `Sessions` and its proofs;
5. `AdminLog` and its proofs; 6. `EventBus` and its proofs; 7. `DeadLetters` and its proofs;
8. `Approvals`, `Workflow` and their proofs.

Next, most important first:

9. `Provisioning`: users and tenants across Keycloak, database and OpenFGA with a
   failure after each, and the retry that follows. API keys and the user and key
   quotas join `Sessions`' preflight as an instance.
10. `ProductLoader` (allow-list decisions) and `MigrationRunner` (two runners).
11. `SodEvaluator` and `RiskScore` as operators against a reference definition, the
    former also against the trigger's decision in `RoleGrants`; the lifecycle
    of plugins and schema changes.

Theorems to come: those of the modules above; an abstract exactly-once handler that
the bus implements where its log is not missed; `OneAlertPerEvent` with a bound on the
number of second alerts in place of the excluded faults.
