---------------------------- MODULE AlertConsumer ----------------------------
(***************************************************************************)
(* DSOC's durable pull consumer on the DOGAN_EVENTS stream: JetStream hands *)
(* messages to the processes that share the consumer and hands them out    *)
(* again when no acknowledgement comes; a process works through what it    *)
(* was handed, one message at a time, and promotes some events into rows   *)
(* of platform.security_alerts, each in a transaction of its own.          *)
(***************************************************************************)
EXTENDS Naturals, Sequences

CONSTANTS
  Messages, NoMessage, \* stream messages, and the absent one
  EventOf,          \* the event a message carries; copies carry the same one
  KindOf,           \* what route looks at in an event
  Consumers,        \* the processes with an AlertConsumer
  Prefetch,         \* bound: messages handed to a process ahead of its handler
  MaxDeliver,       \* max_deliver of the durable consumer
  ConsumerFaults,   \* the faults a run allows
  MaxConsumerFaults,\* bound: faults in a behaviour
  PromptConsumers   \* TRUE: a handed-out message is acknowledged within ack_wait

AllConsumerFaults == {"insertFails", "insertUnknown", "ackLost", "crash", "close"}

AlertTypes == {"login.failure", "session.revoked", "api_key.revoked"}
Categories == AlertTypes \union {"risk.band"}
Kinds == [parses : BOOLEAN, tenant : BOOLEAN, dauth : BOOLEAN,
          type : AlertTypes \union {"other"}, risky : BOOLEAN]

ASSUME AlertAssumption ==
  /\ KindOf \in [{EventOf[m] : m \in Messages} -> Kinds]
  /\ Prefetch \in Nat \ {0} /\ MaxDeliver \in Nat \ {0}
  /\ ConsumerFaults \subseteq AllConsumerFaults /\ MaxConsumerFaults \in Nat
  /\ PromptConsumers \in BOOLEAN
  /\ NoMessage \notin Messages

VARIABLES
  stream,       \* messages stored so far
  delivery,     \* the consumer's state of a message
  delivered,    \* how often it was handed out
  buffer,       \* messages handed to a process, in order
  handling,     \* the message its handler is at, or NoMessage
  todo,         \* the alerts that handler has still to insert
  open,         \* the process has not closed its subscription
  alerts,       \* rows of security_alerts by message and category
  swallowed,    \* history: messages an insert of whose alerts has failed
  cfaults

js    == <<delivery, delivered>>
procs == <<buffer, handling, todo, open>>
rows  == <<alerts, swallowed>>
acvars == <<stream, js, procs, rows, cfaults>>

CFault(k) == k \in ConsumerFaults /\ cfaults < MaxConsumerFaults /\ cfaults' = cfaults + 1

DauthAlertsTwice(k) == IF k.dauth /\ k.type \in AlertTypes THEN <<k.type, k.type>> ELSE <<>>
DauthAlerts(k) == IF k.dauth /\ k.type \in AlertTypes THEN <<k.type>> ELSE <<>>
RiskAlerts(k)  == IF k.risky THEN <<"risk.band">> ELSE <<>>

\* route: the alerts an event is promoted to, in order.  A message that does
\* not parse, or has no tenant, is worth none.
Route(m) ==
  LET k == KindOf[EventOf[m]]
  IN  IF k.parses /\ k.tenant THEN DauthAlerts(k) \o RiskAlerts(k) ELSE <<>>

Promoted(m) == {Route(m)[i] : i \in DOMAIN Route(m)}

ATypeOK ==
  /\ stream \in SUBSET Messages
  /\ delivery \in [Messages -> {"waiting", "pending", "acked", "exhausted"}]
  /\ delivered \in [Messages -> 0 .. MaxDeliver]
  /\ buffer \in [Consumers -> Seq(Messages)] /\ \A p \in Consumers : Len(buffer[p]) <= Prefetch
  /\ handling \in [Consumers -> Messages \union {NoMessage}]
  /\ todo \in [Consumers -> Seq(Categories)]
  /\ open \in [Consumers -> BOOLEAN]
  /\ alerts \in [Messages \X Categories -> Nat]
  /\ swallowed \subseteq stream
  /\ cfaults \in 0 .. MaxConsumerFaults

ConsumerInit ==
  /\ delivery = [m \in Messages |-> "waiting"]
  /\ delivered = [m \in Messages |-> 0]
  /\ buffer = [p \in Consumers |-> <<>>]
  /\ handling = [p \in Consumers |-> NoMessage]
  /\ todo = [p \in Consumers |-> <<>>]
  /\ open = [p \in Consumers |-> TRUE]
  /\ alerts = [a \in Messages \X Categories |-> 0]
  /\ swallowed = {}
  /\ cfaults = 0

AInit == stream = {} /\ ConsumerInit

\* A publisher's message is stored.
Arrive(m) ==
  /\ m \notin stream
  /\ stream' = stream \union {m}
  /\ UNCHANGED <<js, procs, rows, cfaults>>

------------------------------------------------------------------------------
(* JetStream.                                                              *)

HandOut(p, m) ==
  /\ m \in stream /\ delivery[m] = "waiting"
  /\ open[p] /\ Len(buffer[p]) < Prefetch
  /\ delivery' = [delivery EXCEPT ![m] = "pending"]
  /\ delivered' = [delivered EXCEPT ![m] = @ + 1]
  /\ buffer' = [buffer EXCEPT ![p] = Append(@, m)]
  /\ UNCHANGED <<stream, handling, todo, open, rows, cfaults>>

InHand(p, m) == handling[p] = m \/ \E i \in DOMAIN buffer[p] : buffer[p][i] = m

AfterAckWaitOnceMore(m) == IF delivered[m] <= MaxDeliver THEN "waiting" ELSE "exhausted"
AfterAckWaitNothing(m)  == "pending"
AfterAckWait(m) == IF delivered[m] < MaxDeliver THEN "waiting" ELSE "exhausted"

\* ack_wait passes: the message is handed out again, or never after max_deliver.
AckWaitEnds(m) ==
  /\ delivery[m] = "pending"
  /\ PromptConsumers => \A p \in Consumers : ~InHand(p, m)
  /\ delivery' = [delivery EXCEPT ![m] = AfterAckWait(m)]
  /\ UNCHANGED <<stream, delivered, procs, rows, cfaults>>

------------------------------------------------------------------------------
(* The consume loop and the handler.                                       *)

Begin(p) ==
  /\ handling[p] = NoMessage /\ buffer[p] # <<>>
  /\ handling' = [handling EXCEPT ![p] = Head(buffer[p])]
  /\ buffer' = [buffer EXCEPT ![p] = Tail(@)]
  /\ todo' = [todo EXCEPT ![p] = Route(Head(buffer[p]))]
  /\ UNCHANGED <<stream, js, open, rows, cfaults>>

\* One insert.  Whatever it throws is caught inside the handler: the alerts
\* after it are skipped and the handler returns as if all were well.
Insert(p) ==
  /\ todo[p] # <<>>
  /\ \/ /\ alerts' = [alerts EXCEPT ![<<handling[p], Head(todo[p])>>] = @ + 1]
        /\ todo' = [todo EXCEPT ![p] = Tail(@)]
        /\ UNCHANGED <<swallowed, cfaults>>
     \/ /\ \/ /\ alerts' = [alerts EXCEPT ![<<handling[p], Head(todo[p])>>] = @ + 1]
              /\ CFault("insertUnknown")
           \/ UNCHANGED alerts /\ CFault("insertFails")
        /\ todo' = [todo EXCEPT ![p] = <<>>]
        /\ swallowed' = swallowed \union {handling[p]}
  /\ UNCHANGED <<stream, js, buffer, handling, open>>

HandlerStarted(p)  == handling[p] # NoMessage
HandlerReturned(p) == handling[p] # NoMessage /\ todo[p] = <<>>

\* m.ack() is sent and not waited for.
Ack(p) ==
  /\ HandlerReturned(p)
  /\ handling' = [handling EXCEPT ![p] = NoMessage]
  /\ \/ /\ delivery' = [delivery EXCEPT ![handling[p]] = "acked"]
        /\ UNCHANGED cfaults
     \/ UNCHANGED delivery /\ CFault("ackLost")
  /\ UNCHANGED <<stream, delivered, buffer, todo, open, rows>>

CrashConsumer(p) ==
  /\ CFault("crash")
  /\ buffer' = [buffer EXCEPT ![p] = <<>>]
  /\ handling' = [handling EXCEPT ![p] = NoMessage]
  /\ todo' = [todo EXCEPT ![p] = <<>>]
  /\ UNCHANGED <<stream, js, open, rows>>

\* close() stops the iterator: the message being handled is finished, those
\* behind it are left for ack_wait.
Close(p) ==
  /\ open[p] /\ CFault("close")
  /\ open' = [open EXCEPT ![p] = FALSE]
  /\ buffer' = [buffer EXCEPT ![p] = <<>>]
  /\ UNCHANGED <<stream, js, handling, todo, rows>>

Reopen(p) ==
  /\ ~open[p] /\ handling[p] = NoMessage
  /\ open' = [open EXCEPT ![p] = TRUE]
  /\ UNCHANGED <<stream, js, buffer, handling, todo, rows, cfaults>>

HandlerStep(p) == Begin(p) \/ Insert(p) \/ Ack(p)

ConsumerNext ==
  \/ \E m \in Messages : AckWaitEnds(m) \/ \E p \in Consumers : HandOut(p, m)
  \/ \E p \in Consumers : HandlerStep(p) \/ CrashConsumer(p) \/ Close(p) \/ Reopen(p)

ANext == (\E m \in Messages : Arrive(m)) \/ ConsumerNext

ASpec == AInit /\ [][ANext]_acvars

\* JetStream keeps handing out and ack_wait passes; a process runs its handlers
\* to the end and a closed one is replaced.
ConsumerFairness ==
  /\ \A m \in Messages : WF_acvars(\E p \in Consumers : HandOut(p, m)) /\ WF_acvars(AckWaitEnds(m))
  /\ \A p \in Consumers : WF_acvars(HandlerStep(p)) /\ WF_acvars(Reopen(p))

FairASpec == ASpec /\ ConsumerFairness

------------------------------------------------------------------------------
(* Properties.                                                             *)

\* An acknowledged message has been promoted to every alert it is worth, unless an
\* insert failed and the handler swallowed the error: neither a crash between two
\* inserts, nor a redelivery, nor a late acknowledgement loses an alert.
AckedIsPromoted ==
  \A m \in Messages \ swallowed : delivery[m] = "acked" =>
    \A c \in Promoted(m) : alerts[<<m, c>>] > 0

\* A message is promoted at most once each time it is handed out.
AlertsWithinDeliveries ==
  \A m \in Messages, c \in Categories : alerts[<<m, c>>] <= delivered[m]

\* Every stored message is in the end acknowledged or, after max_deliver
\* deliveries, given up.
AllHandled == \A m \in Messages :
  m \in stream ~> delivery[m] \in {"acked", "exhausted"}
==============================================================================
