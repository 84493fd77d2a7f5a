---------------------------- MODULE EventPipeline ----------------------------
(***************************************************************************)
(* The outbox and the alert consumer joined by the stream: a relay's       *)
(* publish is what the consumer is handed.  A message is an event and the  *)
(* number of its copy.                                                     *)
(***************************************************************************)
EXTENDS Outbox

CONSTANTS KindOf, Consumers, Prefetch, MaxDeliver,
          ConsumerFaults, MaxConsumerFaults, PromptConsumers

VARIABLES delivery, delivered, buffer, handling, todo, open, alerts, swallowed, cfaults

Messages == Events \X (1 .. MaxCopies)
Stream   == {m \in Messages : m[2] <= copies[m[1]]}

DSOC == INSTANCE AlertConsumer WITH
  stream  <- Stream,
  NoMessage <- <<"none", 0>>,
  EventOf <- [m \in Messages |-> m[1]]

ASSUME PipelineAssumption ==
  /\ KindOf \in [Events -> DSOC!Kinds]
  /\ Prefetch \in Nat \ {0} /\ MaxDeliver \in Nat \ {0}
  /\ ConsumerFaults \subseteq DSOC!AllConsumerFaults /\ MaxConsumerFaults \in Nat
  /\ PromptConsumers \in BOOLEAN

consumerVars == <<delivery, delivered, buffer, handling, todo, open, alerts, swallowed, cfaults>>
pvars == <<vars, consumerVars>>

PInit == Init /\ DSOC!ConsumerInit

OutboxSide(A) == A /\ UNCHANGED consumerVars
DsocSide(A)   == UNCHANGED vars /\ A

PNext == OutboxSide(Next) \/ DsocSide(DSOC!ConsumerNext)

PSpec == PInit /\ [][PNext]_pvars

PFairness ==
  /\ \A e \in Events : /\ WF_pvars(OutboxSide(Commit(e) \/ Abort(e)))
                       /\ WF_pvars(OutboxSide(LeaseRunsOut(e)))
  /\ \A r \in Relays : /\ WF_pvars(OutboxSide(RelayStep(r)))
                       /\ WF_pvars(OutboxSide(Restart(r)))
  /\ \A m \in Messages : /\ WF_pvars(DsocSide(\E p \in Consumers : DSOC!HandOut(p, m)))
                         /\ WF_pvars(DsocSide(DSOC!AckWaitEnds(m)))
  /\ \A p \in Consumers : /\ WF_pvars(DsocSide(DSOC!HandlerStep(p)))
                          /\ WF_pvars(DsocSide(DSOC!Reopen(p)))

FairPSpec == PSpec /\ PFairness

AlertsOf(e, c) == {m \in Messages : m[1] = e /\ alerts[<<m, c>>] > 0}

\* What an operator relies on: a revocation that committed raises its alert,
\* through relay crashes, lost answers and redeliveries, and although an older
\* poison event is refused again and again.
CommittedIsAlerted ==
  \A e \in Events \ Poison : tx[e] = "committed" ~>
    \A c \in DSOC!Promoted(<<e, 1>>) : AlertsOf(e, c) # {}

\* No alert without a committed cause: nothing of a rolled back transaction
\* reaches the operators.
AlertHasCause ==
  \A m \in Messages, c \in DSOC!Categories :
    alerts[<<m, c>>] > 0 => tx[m[1]] = "committed" /\ status[m[1]] # "absent"

\* The two links together: one alert per event and category.
OneAlertPerEvent ==
  \A e \in Events, c \in DSOC!Categories :
    /\ \A m \in AlertsOf(e, c) : alerts[<<m, c>>] = 1
    /\ Cardinality(AlertsOf(e, c)) <= 1
==============================================================================
