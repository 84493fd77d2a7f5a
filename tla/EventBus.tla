------------------------------- MODULE EventBus -------------------------------
(***************************************************************************)
(* The event bus of platform-package: publish stores an event, hands it to *)
(* every subscribed handler of its process without waiting for them, and   *)
(* marks it dispatched; each handler runs behind a check that it has not   *)
(* already processed the event, events of one entity one after the other;  *)
(* a handler that throws leaves a dead letter.  Nothing outlives the       *)
(* process but the tables, from which the recovery emits what is pending.  *)
(*                                                                         *)
(* One tenant and one type of event.  What happens to a dead letter is the *)
(* subject of DeadLetters; here its handler may be run again at any time.  *)
(***************************************************************************)
EXTENDS Naturals, Sequences, SequencesExt

CONSTANTS
  Events, Handlers,
  EntityOf, NoEntity,  \* the entity of an event, NoEntity if it names none
  MaxFaults,           \* bound: failing statements
  MaxCrashes           \* bound: restarts

ASSUME EventBusAssumption ==
  /\ DOMAIN EntityOf = Events /\ IsFiniteSet(Handlers)
  /\ {MaxFaults, MaxCrashes} \subseteq Nat

Pairs == Events \X Handlers

VARIABLES
  pub,        \* where the publishing of an event is
  wal,        \* dispatch_status of its row in agrc_event_log, "none" without a row
  subs,       \* handlers the running build subscribes
  tasks,      \* calls of handlers under way or waiting their turn
  processed,  \* event_idempotency_log
  dlq,        \* the events and handlers with a row in agrc_event_dlq
  backlog,    \* pending events the recovery has read and not yet emitted
  recovered,  \* the event, if any, the recovery has emitted and not yet marked
  sent,       \* history: the events emitted, in the order of their first emission
  runs,       \* history: times a handler completed an event, up to 2
  cut,        \* history: calls and dead letters that were lost
  missed,     \* history: emitted while the handler was not subscribed
  unmarked,   \* history: the idempotency log could not be asked or told of a run
  faults, crashes

store == <<wal, processed, dlq>>
recovery == <<backlog, recovered>>
memory == <<pub, subs, tasks, recovery>>
history == <<sent, runs, cut, missed, unmarked>>
bounds == <<faults, crashes>>
vars == <<store, memory, history, bounds>>

\* A call carries the id of its event, or one made up for an event not known as stored.
Task == [ev : Events, h : Handlers, named : BOOLEAN, at : {"wait", "run", "mark", "bury"}]

BusTypeOK ==
  /\ pub \in [Events -> {"new", "stored", "unstored", "marking", "over"}]
  /\ wal \in [Events -> {"none", "pending", "dispatched", "abandoned"}]
  /\ sent \in Seq(Events)
  /\ subs \subseteq Handlers
  /\ tasks \in Seq(Task)
  /\ processed \union dlq \subseteq {p \in Pairs : wal[p[1]] # "none"}
  /\ backlog \union recovered \subseteq Events
  /\ runs \in [Pairs -> 0..2]
  /\ cut \union missed \union unmarked \subseteq Pairs
  /\ faults \in 0..MaxFaults /\ crashes \in 0..MaxCrashes

Init ==
  /\ pub = [e \in Events |-> "new"]
  /\ wal = [e \in Events |-> "none"]
  /\ sent = <<>> /\ subs = Handlers /\ tasks = <<>>
  /\ processed = {} /\ dlq = {}
  /\ backlog = {} /\ recovered = {}
  /\ runs = [p \in Pairs |-> 0] /\ cut = {} /\ missed = {} /\ unmarked = {}
  /\ faults = 0 /\ crashes = 0

Fault == faults < MaxFaults /\ faults' = faults + 1 /\ UNCHANGED crashes
NoFault == UNCHANGED bounds

\* A handler has done the event's work once more.
Ran(p) == runs' = [runs EXCEPT ![p] = IF @ < 2 THEN @ + 1 ELSE 2]

------------------------------------------------------------------------------
(* Publishing.                                                             *)

\* An event that could not be stored is emitted all the same, under a made-up id; so
\* is one whose row is there, but not the answer to its COMMIT.
Persist(e) ==
  /\ pub[e] = "new"
  /\ \/ /\ pub' = [pub EXCEPT ![e] = "stored"]
        /\ wal' = [wal EXCEPT ![e] = "pending"]
        /\ NoFault
     \/ /\ pub' = [pub EXCEPT ![e] = "unstored"]
        /\ wal' \in {wal, [wal EXCEPT ![e] = "pending"]}
        /\ Fault
  /\ UNCHANGED <<subs, tasks, processed, dlq, recovery, history>>

\* The listeners of this process are called in the order they subscribed.
EmitTo(e, named) ==
  /\ tasks' = tasks \o SetToSeq({[ev |-> e, h |-> h, named |-> named, at |-> "wait"] : h \in subs})
  /\ missed' = missed \union ({e} \X (Handlers \ subs))
  /\ sent' = IF e \in ToSet(sent) THEN sent ELSE Append(sent, e)

Emit(e) ==
  /\ pub[e] \in {"stored", "unstored"}
  /\ pub' = [pub EXCEPT ![e] = IF @ = "stored" THEN "marking" ELSE "over"]
  /\ EmitTo(e, pub[e] = "stored")
  /\ UNCHANGED <<store, subs, recovery, runs, cut, unmarked, bounds>>

\* Only a pending row becomes dispatched.
Dispatched(events) ==
  wal' = [e \in Events |-> IF e \in events /\ wal[e] = "pending" THEN "dispatched" ELSE wal[e]]

\* Started after the emission and not waited for; a failure is swallowed.
MarkDispatched(e) ==
  /\ pub[e] = "marking"
  /\ pub' = [pub EXCEPT ![e] = "over"]
  /\ \/ Dispatched({e}) /\ NoFault
     \/ Fault /\ UNCHANGED wal
  /\ UNCHANGED <<subs, tasks, processed, dlq, recovery, history>>

\* Recovery reads once what is pending, as far as it was tried less than five times, is
\* younger than a day and within the limit, then emits and marks one event at a time.
StartRecovery ==
  /\ backlog = {} /\ recovered = {}
  /\ \E due \in SUBSET {e \in Events : wal[e] = "pending"} : backlog' = due
  /\ UNCHANGED <<store, pub, subs, tasks, recovered, history, bounds>>

Recover(e) ==
  /\ recovered = {} /\ e \in backlog
  /\ backlog' = backlog \ {e} /\ recovered' = {e}
  /\ EmitTo(e, TRUE)
  /\ UNCHANGED <<store, pub, subs, runs, cut, unmarked, bounds>>

\* Whatever the row said, it is pending again, or abandoned after the fifth attempt.
DispatchFailed(events) ==
  \E status \in {"pending", "abandoned"} :
    wal' = [e \in Events |-> IF e \in events THEN status ELSE wal[e]]

\* If marking fails the failure is marked; if that fails too, the recovery ends.
MarkRecovered ==
  /\ recovered # {}
  /\ recovered' = {}
  /\ \/ Dispatched(recovered) /\ NoFault /\ UNCHANGED backlog
     \/ DispatchFailed(recovered) /\ Fault /\ UNCHANGED backlog
     \/ backlog' = {} /\ Fault /\ UNCHANGED wal
  /\ UNCHANGED <<pub, subs, tasks, processed, dlq, history>>

------------------------------------------------------------------------------
(* A call of a handler: check, handler, mark.                              *)

Pair(t) == <<t.ev, t.h>>
EntityFirstAny(i) == TRUE
EntityFirst(i) ==
  EntityOf[tasks[i].ev] = NoEntity
    \/ \A j \in 1..(i - 1) : tasks[j].at = "bury" \/ EntityOf[tasks[j].ev] # EntityOf[tasks[i].ev]

\* The log takes a UUID: a question about a made-up id fails.
AlreadyProcessedOther(t) == t.named /\ \E e \in Events : <<e, t.h>> \in processed
AlreadyProcessedNot(t) == FALSE
AlreadyProcessed(t) == t.named /\ Pair(t) \in processed

\* A check that fails counts as not processed.
Begin(i) ==
  /\ tasks[i].at = "wait" /\ EntityFirst(i)
  /\ \/ /\ tasks' = IF AlreadyProcessed(tasks[i]) THEN RemoveAt(tasks, i)
                                                  ELSE [tasks EXCEPT ![i].at = "run"]
        /\ unmarked' = IF tasks[i].named THEN unmarked ELSE unmarked \union {Pair(tasks[i])}
        /\ NoFault
     \/ /\ tasks' = [tasks EXCEPT ![i].at = "run"]
        /\ unmarked' = unmarked \union {Pair(tasks[i])}
        /\ Fault
  /\ UNCHANGED <<store, pub, subs, recovery, sent, runs, cut, missed>>

Complete(i) ==
  /\ tasks[i].at = "run"
  /\ tasks' = [tasks EXCEPT ![i].at = "mark"]
  /\ Ran(Pair(tasks[i]))
  /\ UNCHANGED <<store, pub, subs, recovery, sent, cut, missed, unmarked, bounds>>

\* The next event of the entity does not wait for the dead letter.
Throw(i) ==
  /\ tasks[i].at = "run"
  /\ tasks' = [tasks EXCEPT ![i].at = "bury"]
  /\ UNCHANGED <<store, pub, subs, recovery, history, bounds>>

\* The log and the dead letters take a UUID: they refuse a made-up id, and both
\* refusals are swallowed.
AcceptsAny(t) == TRUE
Accepts(t) == t.named

Mark(i) ==
  /\ tasks[i].at = "mark"
  /\ tasks' = RemoveAt(tasks, i)
  /\ \/ /\ processed' = IF Accepts(tasks[i]) THEN processed \union {Pair(tasks[i])}
                                              ELSE processed
        /\ NoFault /\ UNCHANGED unmarked
     \/ /\ unmarked' = unmarked \union {Pair(tasks[i])}
        /\ Fault /\ UNCHANGED processed
  /\ UNCHANGED <<pub, wal, subs, dlq, recovery, sent, runs, cut, missed>>

Bury(i) ==
  /\ tasks[i].at = "bury"
  /\ tasks' = RemoveAt(tasks, i)
  /\ \/ /\ Accepts(tasks[i])
        /\ dlq' = dlq \union {Pair(tasks[i])}
        /\ NoFault /\ UNCHANGED cut
     \/ /\ cut' = cut \union {Pair(tasks[i])}
        /\ UNCHANGED dlq
        /\ IF Accepts(tasks[i]) THEN Fault ELSE NoFault
  /\ UNCHANGED <<pub, wal, subs, processed, recovery, sent, runs, missed, unmarked>>

\* A pass over the dead letters calls the handler itself: no check, no mark, no turn.
RetryDeadLetter(p) ==
  /\ p \in dlq /\ p[2] \in subs
  /\ Ran(p)
  /\ UNCHANGED <<store, memory, sent, cut, missed, unmarked, bounds>>

------------------------------------------------------------------------------
\* The process dies and starts again, perhaps as a build with other handlers.
Restart(handlers) ==
  /\ crashes < MaxCrashes
  /\ crashes' = crashes + 1
  /\ subs' = handlers
  /\ pub' = [e \in Events |-> IF pub[e] = "new" THEN "new" ELSE "over"]
  /\ tasks' = <<>>
  /\ cut' = cut \union {Pair(t) : t \in {u \in ToSet(tasks) : u.at # "mark"}}
  /\ unmarked' = unmarked \union {Pair(t) : t \in {u \in ToSet(tasks) : u.at = "mark"}}
  /\ backlog' = {} /\ recovered' = {}
  /\ UNCHANGED <<store, sent, runs, missed, faults>>

Next ==
  \/ \E e \in Events : Persist(e) \/ Emit(e) \/ MarkDispatched(e) \/ Recover(e)
  \/ StartRecovery \/ MarkRecovered
  \/ \E i \in DOMAIN tasks : Begin(i) \/ Complete(i) \/ Throw(i) \/ Mark(i) \/ Bury(i)
  \/ \E p \in Pairs : RetryDeadLetter(p)
  \/ \E handlers \in SUBSET Handlers : Restart(handlers)

Spec == Init /\ [][Next]_vars

------------------------------------------------------------------------------
(* Properties.                                                             *)

DeadLettered(p) ==
  \/ p \in dlq
  \/ \E i \in DOMAIN tasks : Pair(tasks[i]) = p /\ tasks[i].at = "bury"
Called(p) == p \in {Pair(t) : t \in ToSet(tasks)}
Excused(p) == DeadLettered(p) \/ p \in cut \union missed

\* An event that was emitted, or is marked dispatched, has been handled by every
\* handler, or will be, or has a dead letter, unless the call or the dead letter was
\* lost with the process or to a failing insert, or the build had no such handler.
LossHasCause ==
  \A e \in Events : wal[e] = "dispatched" \/ e \in ToSet(sent) =>
    \A h \in Handlers : runs[<<e, h>>] > 0 \/ Called(<<e, h>>) \/ Excused(<<e, h>>)

\* Handlers see the events of an entity in the order of their emission: one has
\* handled the later of two only if it has handled the earlier, save for a dead
\* letter, a loss, or a build without the handler.
NoOvertaking ==
  \A i, j \in DOMAIN sent : i < j /\ EntityOf[sent[i]] = EntityOf[sent[j]] /\ EntityOf[sent[i]] # NoEntity =>
    \A h \in Handlers : runs[<<sent[j], h>>] > 0 =>
      runs[<<sent[i], h>>] > 0 \/ Excused(<<sent[i], h>>)

\* A handler completes an event of an entity a second time only after a dead letter,
\* or a run, or a check of one, that the idempotency log missed, even if the event is
\* emitted twice.  The log misses every run under a made-up id.
OnceHasCause ==
  \A p \in Pairs : runs[p] > 1 /\ EntityOf[p[1]] # NoEntity => DeadLettered(p) \/ p \in unmarked
==============================================================================
