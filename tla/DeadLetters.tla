----------------------------- MODULE DeadLetters -----------------------------
(***************************************************************************)
(* The dead letters of the event bus of platform-package: a table of the   *)
(* calls of handlers that threw, and the passes that run them again, those *)
(* of a job every half an hour and those of a route, in one process or in  *)
(* several.  A pass reads the rows that are due once and then works them   *)
(* off; nothing is locked, and every row is written from what was read.    *)
(*                                                                         *)
(* The delay between the tries of a row is modelled by a pass finding any  *)
(* part of the pending rows due.                                           *)
(***************************************************************************)
EXTENDS Naturals, FiniteSets

CONSTANTS
  Rows,           \* the dead letters that may come up
  HandlerOf,      \* the handler a dead letter names
  Passes,         \* the job and the routes
  Redos,          \* calls of the route that publishes a single row's event anew
  Limit,          \* rows a pass reads
  MaxRetries,     \* max_retries of every row
  PayloadIsText,  \* reading the payload column gives text, to be parsed
  MaxFaults,      \* bound: failing statements
  MaxCrashes      \* bound: restarts

Handlers == {HandlerOf[k] : k \in Rows}

ASSUME DeadLettersAssumption ==
  /\ Rows \subseteq Nat /\ DOMAIN HandlerOf = Rows
  /\ Redos \intersect Passes = {}
  /\ {Limit, MaxRetries} \subseteq Nat \ {0}
  /\ PayloadIsText \in BOOLEAN
  /\ {MaxFaults, MaxCrashes} \subseteq Nat

VARIABLES
  status,  \* of a row, "none" before it is there
  tries,   \* retry_count of a row
  subs,    \* handlers the running build subscribes
  pc,      \* where a pass is
  todo,    \* the rows a pass has left, each with the retry_count it read
  redo,    \* the row, if any, a call of that route has handed to publish() and not yet resolved
  spent,   \* history: times a pass called the handler of a row, up to MaxRetries
  done,    \* history: rows whose handler has completed, or whose event publish() took anew
  refused, \* history: rows whose event publish() dropped or a hook suppressed
  shared,  \* history: rows in the hands of two at a time
  faults, crashes

table == <<status, tries>>
passes == <<pc, todo>>
hands == <<passes, redo>>
history == <<spent, done, refused, shared>>
bounds == <<faults, crashes>>
vars == <<table, subs, hands, history, bounds>>

Settled == {"resolved", "abandoned", "permanent_failure"}

DeadTypeOK ==
  /\ status \in [Rows -> {"none", "pending"} \union Settled]
  /\ tries \in [Rows -> 0..MaxRetries]
  /\ subs \subseteq Handlers
  /\ pc \in [Passes -> {"idle", "next", "run", "good", "bad"}]
  /\ todo \in [Passes -> SUBSET [row : Rows, tries : 0..(MaxRetries - 1)]]
  /\ redo \in [Redos -> SUBSET Rows]
  /\ spent \in [Rows -> 0..MaxRetries]
  /\ done \subseteq Rows /\ refused \subseteq Rows /\ shared \subseteq Rows
  /\ faults \in 0..MaxFaults /\ crashes \in 0..MaxCrashes

Init ==
  /\ status = [k \in Rows |-> "none"] /\ tries = [k \in Rows |-> 0]
  /\ subs = Handlers
  /\ pc = [p \in Passes |-> "idle"] /\ todo = [p \in Passes |-> {}]
  /\ redo = [u \in Redos |-> {}]
  /\ spent = [k \in Rows |-> 0] /\ done = {} /\ refused = {} /\ shared = {}
  /\ faults = 0 /\ crashes = 0

Fault == faults < MaxFaults /\ faults' = faults + 1 /\ UNCHANGED crashes
NoFault == UNCHANGED bounds

\* Who holds the row: passes, and calls of the route that publishes it anew.
Holders(k) == {p \in Passes : \E x \in todo[p] : x.row = k} \union {u \in Redos : k \in redo[u]}

\* One more takes, or writes, these rows.
Share(ks) == shared' = shared \union {k \in ks : Holders(k) # {}}

------------------------------------------------------------------------------
\* A handler has thrown: a new row, the last by created_at.
New(k) ==
  /\ status[k] = "none"
  /\ \A j \in Rows : j < k => status[j] # "none"
  /\ status' = [status EXCEPT ![k] = "pending"]
  /\ UNCHANGED <<tries, subs, hands, history, bounds>>

\* The route that gives up a row that is pending.
Abandon(k) ==
  /\ status[k] = "pending"
  /\ status' = [status EXCEPT ![k] = "abandoned"]
  /\ Share({k})
  /\ UNCHANGED <<tries, subs, hands, spent, done, refused, bounds>>

\* The route that publishes the event of a pending row anew, under a new id, and then
\* sets the row resolved.  It does not look at the answer of publish(), which may have
\* dropped the event for back-pressure or left it to a hook that suppressed it.
Republish(u, k) ==
  /\ PayloadIsText
  /\ redo[u] = {} /\ status[k] = "pending"
  /\ redo' = [redo EXCEPT ![u] = {k}]
  /\ \/ done' = done \union {k} /\ UNCHANGED refused
     \/ refused' = refused \union {k} /\ UNCHANGED done
  /\ Share({k})
  /\ UNCHANGED <<table, subs, passes, spent, bounds>>

ResolveRepublished(u) ==
  /\ redo[u] # {}
  /\ redo' = [redo EXCEPT ![u] = {}]
  /\ \/ status' = [k \in Rows |-> IF k \in redo[u] THEN "resolved" ELSE status[k]] /\ NoFault
     \/ Fault /\ UNCHANGED status
  /\ UNCHANGED <<tries, subs, passes, history>>

------------------------------------------------------------------------------
(* One pass.                                                               *)

RetriableSettledToo == {k \in Rows : status[k] # "none" /\ tries[k] < MaxRetries}
Retriable == {k \in Rows : status[k] = "pending" /\ tries[k] < MaxRetries}
Oldest(S) == {k \in S : Cardinality({j \in S : j < k}) < Limit}

\* The one query of a pass, which finds these rows due.
StartPass(p, due) ==
  /\ pc[p] = "idle"
  /\ due # {}
  /\ pc' = [pc EXCEPT ![p] = "next"]
  /\ todo' = [todo EXCEPT ![p] = {[row |-> k, tries |-> tries[k]] : k \in Oldest(due)}]
  /\ Share(Oldest(due))
  /\ UNCHANGED <<table, subs, redo, spent, done, refused, bounds>>

First(p) == CHOOSE x \in todo[p] : \A y \in todo[p] : x.row <= y.row
Current(p) == First(p).row

EndPass(p) == pc' = [pc EXCEPT ![p] = "idle"] /\ todo' = [todo EXCEPT ![p] = {}]
NextRow(p) ==
  /\ todo' = [todo EXCEPT ![p] = @ \ {First(p)}]
  /\ pc' = [pc EXCEPT ![p] = IF todo[p] = {First(p)} THEN "idle" ELSE "next"]

Settle(p, s) ==
  \/ status' = [status EXCEPT ![Current(p)] = s] /\ NextRow(p) /\ NoFault
  \/ EndPass(p) /\ Fault /\ UNCHANGED status

\* A row whose handler is gone is abandoned.  A payload that cannot be parsed ends
\* the pass, and so does any update that fails, save the one of Resolve.
Look(p) ==
  /\ pc[p] = "next"
  /\ IF PayloadIsText
     THEN \/ /\ HandlerOf[Current(p)] \in subs
             /\ pc' = [pc EXCEPT ![p] = "run"]
             /\ NoFault /\ UNCHANGED <<status, todo>>
          \/ HandlerOf[Current(p)] \notin subs /\ Settle(p, "abandoned")
     ELSE EndPass(p) /\ NoFault /\ UNCHANGED status
  /\ UNCHANGED <<tries, subs, redo, history>>

\* The handler completes, or throws.
CallHandler(p) ==
  /\ pc[p] = "run"
  /\ spent' = [spent EXCEPT ![Current(p)] = IF @ < MaxRetries THEN @ + 1 ELSE @]
  /\ \/ pc' = [pc EXCEPT ![p] = "good"] /\ done' = done \union {Current(p)}
     \/ pc' = [pc EXCEPT ![p] = "bad"] /\ UNCHANGED done
  /\ UNCHANGED <<table, subs, todo, redo, refused, shared, bounds>>

\* A completion that cannot be recorded counts as a try that failed.
Resolve(p) ==
  /\ pc[p] = "good"
  /\ \/ status' = [status EXCEPT ![Current(p)] = "resolved"] /\ NextRow(p) /\ NoFault
     \/ pc' = [pc EXCEPT ![p] = "bad"] /\ Fault /\ UNCHANGED <<status, todo>>
  /\ UNCHANGED <<tries, subs, redo, history>>

TriesAfterTwice(p) == First(p).tries + 2

\* The new count is the one the pass read, plus one.
TriesAfter(p) == First(p).tries + 1
GivesUp(p) == TriesAfter(p) >= MaxRetries

CountTry(p) ==
  /\ pc[p] = "bad"
  /\ \/ /\ tries' = [tries EXCEPT ![Current(p)] = TriesAfter(p)]
        /\ status' = [status EXCEPT ![Current(p)] =
                        IF GivesUp(p) THEN "permanent_failure" ELSE "pending"]
        /\ NextRow(p) /\ NoFault
     \/ EndPass(p) /\ Fault /\ UNCHANGED table
  /\ UNCHANGED <<subs, redo, history>>

------------------------------------------------------------------------------
\* The process dies and starts again, perhaps as a build with other handlers.
Restart(handlers) ==
  /\ crashes < MaxCrashes
  /\ crashes' = crashes + 1
  /\ subs' = handlers
  /\ pc' = [p \in Passes |-> "idle"] /\ todo' = [p \in Passes |-> {}]
  /\ redo' = [u \in Redos |-> {}]
  /\ UNCHANGED <<table, history, faults>>

Next ==
  \/ \E k \in Rows : New(k) \/ Abandon(k) \/ \E u \in Redos : Republish(u, k)
  \/ \E u \in Redos : ResolveRepublished(u)
  \/ \E p \in Passes : \/ \E due \in SUBSET Retriable : StartPass(p, due)
                       \/ Look(p) \/ CallHandler(p) \/ Resolve(p) \/ CountTry(p)
  \/ \E handlers \in SUBSET Handlers : Restart(handlers)

Spec == Init /\ [][Next]_vars

------------------------------------------------------------------------------
(* Properties.                                                             *)

\* No dead letter is resolved without its handler having completed, or its event
\* having been given to publish() anew, which may have refused it; and none fails for
\* good before its handler was called as often as the row allows, whatever passes
\* overlap on it and write over each other.
SettledByTries ==
  \A k \in Rows :
    /\ status[k] = "resolved" => k \in done \union refused
    /\ status[k] = "permanent_failure" => spent[k] = MaxRetries

\* A row that is settled stays as it is, unless it was in the hands of two at the same
\* time: passes, and the routes that abandon it or publish it anew.
SettledStays ==
  [][\A k \in Rows \ shared' : status[k] \in Settled => status'[k] = status[k]]_vars
==============================================================================
