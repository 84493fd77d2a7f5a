-------------------------- MODULE AlertConsumerProofs --------------------------
(* Proofs about the alert consumer, for any messages, processes and faults. *)
EXTENDS AlertConsumer, FiniteSetTheorems, SequenceTheorems, TLAPS

\* What a handler may have left to insert: nothing, one alert, or one of each kind.
Worth == {<<>>} \union {<<c>> : c \in Categories} \union {<<t, "risk.band">> : t \in AlertTypes}

Due(p, c) == \E i \in DOMAIN todo[p] : todo[p][i] = c

\* A process has in hand what JetStream has stored and handed to it, and has
\* something to insert only while it handles a message.
HandInv ==
  /\ \A p \in Consumers :
       /\ todo[p] \in Worth
       /\ handling[p] = NoMessage => todo[p] = <<>>
       /\ handling[p] \in stream \union {NoMessage}
       /\ buffer[p] \in Seq(stream)
  /\ \A m \in Messages : delivery[m] = "waiting" => delivered[m] < MaxDeliver

\* What is missing of a message's alerts is still due in the hands of whoever
\* handles it, unless an insert was swallowed.
PromotedInv ==
  \A p \in Consumers : handling[p] \in Messages \ swallowed =>
    \A c \in Promoted(handling[p]) : alerts[<<handling[p], c>>] > 0 \/ Due(p, c)

\* The places where a message is in hand and an alert of category c may still come
\* of it: place 0 is the handler, the others are those of the buffer.
At(p, i, m, c) ==
  IF i = 0 THEN handling[p] = m /\ Due(p, c) ELSE i \in DOMAIN buffer[p] /\ buffer[p][i] = m
Places(m, c) == {x \in Consumers \X (0 .. Prefetch) : At(x[1], x[2], m, c)}

\* Each time a message was handed out has led to one alert of a category at most,
\* or to one place that may still lead to one.
CountInv ==
  \A m \in Messages, c \in Categories :
    /\ IsFiniteSet(Places(m, c))
    /\ alerts[<<m, c>>] + Cardinality(Places(m, c)) <= delivered[m]

AInv == ATypeOK /\ HandInv /\ PromotedInv /\ AckedIsPromoted /\ CountInv

------------------------------------------------------------------------------
(* What a handler has to insert.                                           *)

LEMMA WorthTyped == ASSUME NEW w \in Worth PROVE w \in Seq(Categories)
<1>1. "risk.band" \in Categories /\ AlertTypes \subseteq Categories
  BY DEF Categories
<1>2. <<>> \in Seq(Categories)
  OBVIOUS
<1>3. \A c \in Categories : <<c>> \in Seq(Categories)
  OBVIOUS
<1>4. \A t \in AlertTypes : <<t, "risk.band">> \in Seq(Categories)
  BY <1>1
<1> QED BY <1>2, <1>3, <1>4 DEF Worth

LEMMA RouteWorth == ASSUME NEW m \in Messages PROVE Route(m) \in Worth
<1> DEFINE k == KindOf[EventOf[m]]
<1>1. k \in Kinds
  BY AlertAssumption
<1>2. DauthAlerts(k) = <<>> \/ \E t \in AlertTypes : DauthAlerts(k) = <<t>>
  BY DEF DauthAlerts
<1>3. RiskAlerts(k) = <<>> \/ RiskAlerts(k) = <<"risk.band">>
  BY DEF RiskAlerts
<1>4. Route(m) = IF k.parses /\ k.tenant THEN DauthAlerts(k) \o RiskAlerts(k) ELSE <<>>
  BY DEF Route
<1> HIDE DEF k
<1>5. ASSUME NEW t \in AlertTypes PROVE <<t>> \o <<"risk.band">> = <<t, "risk.band">>
  <2>1. <<t>> \in Seq(Categories) /\ <<"risk.band">> \in Seq(Categories)
    BY WorthTyped DEF Worth, Categories
  <2>2. <<t, "risk.band">> \in Seq(Categories)
    BY WorthTyped DEF Worth
  <2>3. Len(<<t>>) = 1 /\ Len(<<"risk.band">>) = 1 /\ Len(<<t, "risk.band">>) = 2
    OBVIOUS
  <2>4. /\ <<t>> \o <<"risk.band">> \in Seq(Categories)
        /\ Len(<<t>> \o <<"risk.band">>) = 2
        /\ \A i \in 1 .. 2 : (<<t>> \o <<"risk.band">>)[i] = IF i <= 1 THEN <<t>>[i] ELSE <<"risk.band">>[i - 1]
    BY <2>1, <2>3, ConcatProperties
  <2>5. \A i \in 1 .. 2 : (<<t>> \o <<"risk.band">>)[i] = <<t, "risk.band">>[i]
    BY <2>4
  <2> QED BY <2>2, <2>3, <2>4, <2>5, SeqEqual
<1>6. DauthAlerts(k) \o RiskAlerts(k) \in Worth
  <2>1. <<>> \o <<>> = <<>> /\ <<>> \o <<"risk.band">> = <<"risk.band">>
    OBVIOUS
  <2>2. \A t \in AlertTypes : <<t>> \o <<>> = <<t>>
    OBVIOUS
  <2>3. "risk.band" \in Categories /\ AlertTypes \subseteq Categories
    BY DEF Categories
  <2> QED BY <1>2, <1>3, <1>5, <2>1, <2>2, <2>3 DEF Worth
<1> QED BY <1>4, <1>6 DEF Worth

\* No alert comes twice, so that an insert leaves the others.
LEMMA WorthTail ==
  ASSUME NEW w \in Worth, w # <<>>
  PROVE  /\ Head(w) \in Categories /\ Tail(w) \in Worth
         /\ \A c : (\E i \in DOMAIN Tail(w) : Tail(w)[i] = c)
                  <=> c # Head(w) /\ \E i \in DOMAIN w : w[i] = c
<1>1. "risk.band" \in Categories /\ AlertTypes \subseteq Categories /\ "risk.band" \notin AlertTypes
  BY DEF Categories, AlertTypes
<1>2. CASE \E c \in Categories : w = <<c>>
  BY <1>2 DEF Worth
<1>3. CASE \E t \in AlertTypes : w = <<t, "risk.band">>
  <2>1. PICK t \in AlertTypes : w = <<t, "risk.band">>
    BY <1>3
  <2>2. Head(w) = t /\ Tail(w) = <<"risk.band">> /\ t # "risk.band"
    BY <1>1, <2>1
  <2>3. DOMAIN w = {1, 2} /\ w[1] = t /\ w[2] = "risk.band"
    BY <2>1
  <2>4. DOMAIN Tail(w) = {1} /\ Tail(w)[1] = "risk.band"
    <3> HIDE DEF Worth
    <3>1. DOMAIN <<"risk.band">> = {1} /\ <<"risk.band">>[1] = "risk.band"
      OBVIOUS
    <3> QED BY <2>2, <3>1
  <2> QED BY <1>1, <2>2, <2>3, <2>4 DEF Worth
<1> QED BY <1>2, <1>3 DEF Worth

LEMMA WorthHead ==
  ASSUME NEW w \in Worth, w # <<>> PROVE \E i \in DOMAIN w : w[i] = Head(w)
<1>1. w \in Seq(Categories)
  BY WorthTyped
<1>2. Len(w) \in Nat \ {0} /\ DOMAIN w = 1 .. Len(w) /\ Head(w) = w[1]
  BY <1>1, EmptySeq, LenProperties
<1> QED BY <1>2

------------------------------------------------------------------------------

LEMMA TypeStep == ASSUME ATypeOK, HandInv, [ANext]_acvars PROVE ATypeOK'
<1> USE DEF ATypeOK, js, procs, rows
<1>0. /\ MaxDeliver \in Nat /\ MaxConsumerFaults \in Nat /\ Prefetch \in Nat
      /\ NoMessage \notin Messages
  BY AlertAssumption
<1>1. ASSUME NEW m \in Messages, Arrive(m) PROVE ATypeOK'
  BY <1>1 DEF Arrive
<1>2. ASSUME NEW m \in Messages, AckWaitEnds(m) PROVE ATypeOK'
  BY <1>2 DEF AckWaitEnds, AfterAckWait
<1>3. ASSUME NEW p \in Consumers, NEW m \in Messages, HandOut(p, m) PROVE ATypeOK'
  <2>1. delivered[m] + 1 \in 0 .. MaxDeliver
    BY <1>0, <1>3 DEF HandOut, HandInv
  <2>2. /\ Append(buffer[p], m) \in Seq(Messages)
        /\ Len(Append(buffer[p], m)) = Len(buffer[p]) + 1 /\ Len(buffer[p]) \in Nat
    BY AppendProperties, LenProperties
  <2>3. /\ delivered' \in [Messages -> 0 .. MaxDeliver]
        /\ delivery' \in [Messages -> {"waiting", "pending", "acked", "exhausted"}]
    BY <1>3, <2>1 DEF HandOut
  <2>4. buffer' \in [Consumers -> Seq(Messages)] /\ \A q \in Consumers : Len(buffer'[q]) <= Prefetch
    BY <1>0, <1>3, <2>2 DEF HandOut
  <2> QED BY <1>3, <2>3, <2>4 DEF HandOut
<1>4. ASSUME NEW p \in Consumers, Begin(p) PROVE ATypeOK'
  <2>1. /\ Head(buffer[p]) \in Messages /\ Tail(buffer[p]) \in Seq(Messages)
        /\ Len(Tail(buffer[p])) = Len(buffer[p]) - 1 /\ Len(buffer[p]) \in Nat
    BY <1>4, HeadTailProperties, LenProperties DEF Begin
  <2>2. Route(Head(buffer[p])) \in Seq(Categories)
    BY <2>1, RouteWorth, WorthTyped
  <2>3. Len(Tail(buffer[p])) <= Prefetch
    BY <1>0, <2>1
  <2> QED BY <1>4, <2>1, <2>2, <2>3 DEF Begin
<1>5. ASSUME NEW p \in Consumers, Insert(p) PROVE ATypeOK'
  <2>1. Head(todo[p]) \in Categories /\ Tail(todo[p]) \in Seq(Categories)
    BY <1>5, WorthTail, WorthTyped DEF Insert, HandInv
  <2>2. handling[p] \in stream /\ handling[p] \in Messages
    BY <1>5 DEF Insert, HandInv
  <2>3. \/ UNCHANGED alerts
        \/ alerts' = [alerts EXCEPT ![<<handling[p], Head(todo[p])>>] = @ + 1]
    BY <1>5 DEF Insert
  <2>4. alerts' \in [Messages \X Categories -> Nat]
    <3> DEFINE a == <<handling[p], Head(todo[p])>>
    <3>1. a \in Messages \X Categories
      BY <2>1, <2>2
    <3>2. alerts' = alerts \/ alerts' = [alerts EXCEPT ![a] = @ + 1]
      BY <2>3
    <3>3. alerts[a] + 1 \in Nat
      BY <3>1
    <3> HIDE DEF a
    <3> QED BY <3>1, <3>2, <3>3
  <2>5. todo' \in [Consumers -> Seq(Categories)]
    <3>1. <<>> \in Seq(Categories)
      OBVIOUS
    <3>2. PICK w \in {Tail(todo[p]), <<>>} : todo' = [todo EXCEPT ![p] = w]
      BY <1>5 DEF Insert
    <3>3. w \in Seq(Categories)
      BY <2>1, <3>1
    <3> QED BY <3>2, <3>3
  <2>6. swallowed' \subseteq stream /\ cfaults' \in 0 .. MaxConsumerFaults
    BY <1>0, <1>5, <2>2 DEF Insert, CFault
  <2> QED BY <1>5, <2>4, <2>5, <2>6 DEF Insert
<1>6. ASSUME NEW p \in Consumers, Ack(p) PROVE ATypeOK'
  <2>1. handling[p] \in Messages
    BY <1>6 DEF Ack, HandlerReturned
  <2>2. cfaults' \in 0 .. MaxConsumerFaults
    BY <1>0, <1>6 DEF Ack, CFault
  <2> QED BY <1>0, <1>6, <2>1, <2>2 DEF Ack
<1>7. ASSUME NEW p \in Consumers, CrashConsumer(p) \/ Close(p) \/ Reopen(p) PROVE ATypeOK'
  <2>1. cfaults' \in 0 .. MaxConsumerFaults
    BY <1>0, <1>7 DEF CrashConsumer, Close, Reopen, CFault
  <2>2. <<>> \in Seq(Messages) /\ <<>> \in Seq(Categories) /\ Len(<<>>) = 0
    OBVIOUS
  <2>3. CASE CrashConsumer(p)
    <3>1. buffer' \in [Consumers -> Seq(Messages)] /\ \A q \in Consumers : Len(buffer'[q]) <= Prefetch
      BY <1>0, <2>2, <2>3 DEF CrashConsumer
    <3>2. todo' \in [Consumers -> Seq(Categories)]
      BY <2>2, <2>3 DEF CrashConsumer
    <3> QED BY <2>1, <2>3, <3>1, <3>2 DEF CrashConsumer
  <2>4. CASE Close(p)
    <3>1. buffer' \in [Consumers -> Seq(Messages)] /\ \A q \in Consumers : Len(buffer'[q]) <= Prefetch
      BY <1>0, <2>2, <2>4 DEF Close
    <3> QED BY <2>1, <2>4, <3>1 DEF Close
  <2>5. CASE Reopen(p)
    BY <2>5 DEF Reopen
  <2> QED BY <1>7, <2>3, <2>4, <2>5
<1>8. CASE UNCHANGED acvars
  BY <1>8 DEF acvars
<1> QED BY <1>1, <1>2, <1>3, <1>4, <1>5, <1>6, <1>7, <1>8 DEF ANext, ConsumerNext, HandlerStep

LEMMA HandStep == ASSUME ATypeOK, HandInv, [ANext]_acvars PROVE HandInv'
<1> USE DEF HandInv, js, procs, rows
<1>1. ASSUME NEW m \in Messages, Arrive(m) PROVE HandInv'
  <2>1. \A p \in Consumers : buffer[p] \in Seq(stream')
    BY <1>1, SeqMonotonic DEF Arrive
  <2> QED BY <1>1, <2>1 DEF Arrive
<1>2. ASSUME NEW m \in Messages, AckWaitEnds(m) PROVE HandInv'
  BY <1>2 DEF AckWaitEnds, AfterAckWait, ATypeOK
<1>3. ASSUME NEW p \in Consumers, NEW m \in Messages, HandOut(p, m) PROVE HandInv'
  <2>1. Append(buffer[p], m) \in Seq(stream)
    BY <1>3, AppendProperties DEF HandOut
  <2> QED BY <1>3, <2>1 DEF HandOut, ATypeOK
<1>4. ASSUME NEW p \in Consumers, Begin(p) PROVE HandInv'
  <2>1. Head(buffer[p]) \in stream /\ Tail(buffer[p]) \in Seq(stream)
    BY <1>4, HeadTailProperties DEF Begin
  <2>2. stream \subseteq Messages /\ NoMessage \notin Messages
    BY AlertAssumption DEF ATypeOK
  <2>3. Route(Head(buffer[p])) \in Worth
    BY <2>1, <2>2, RouteWorth
  <2> QED BY <1>4, <2>1, <2>2, <2>3 DEF Begin, ATypeOK
<1>5. ASSUME NEW p \in Consumers, Insert(p) PROVE HandInv'
  <2>1. Tail(todo[p]) \in Worth /\ <<>> \in Worth
    BY <1>5, WorthTail DEF Insert, Worth
  <2>2. handling[p] # NoMessage
    BY <1>5 DEF Insert
  <2> QED BY <1>5, <2>1, <2>2 DEF Insert, ATypeOK
<1>6. ASSUME NEW p \in Consumers, Ack(p) PROVE HandInv'
  BY <1>6 DEF Ack, HandlerReturned, ATypeOK
<1>7. ASSUME NEW p \in Consumers, CrashConsumer(p) \/ Close(p) \/ Reopen(p) PROVE HandInv'
  <2>1. <<>> \in Seq(stream) /\ <<>> \in Worth
    BY DEF Worth
  <2> QED BY <1>7, <2>1 DEF CrashConsumer, Close, Reopen, ATypeOK
<1>8. CASE UNCHANGED acvars
  BY <1>8 DEF acvars
<1> QED BY <1>1, <1>2, <1>3, <1>4, <1>5, <1>6, <1>7, <1>8 DEF ANext, ConsumerNext, HandlerStep

------------------------------------------------------------------------------
(* Promotion.                                                              *)

\* What an insert does to the alerts that are due and to those that are there.
LEMMA InsertEffect ==
  ASSUME ATypeOK, HandInv, NEW p \in Consumers, Insert(p)
  PROVE  /\ handling[p] \in Messages /\ Head(todo[p]) \in Categories
         /\ \A m \in Messages, c \in Categories :
              alerts'[<<m, c>>] = alerts[<<m, c>>]
                \/ (m = handling[p] /\ c = Head(todo[p]) /\ alerts'[<<m, c>>] = alerts[<<m, c>>] + 1)
         /\ \A q \in Consumers \ {p} : \A c : Due(q, c)' <=> Due(q, c)
         /\ \A c : Due(p, c)' => Due(p, c) /\ c # Head(todo[p])
         /\ \/ handling[p] \in swallowed'
            \/ /\ alerts'[<<handling[p], Head(todo[p])>>] = alerts[<<handling[p], Head(todo[p])>>] + 1
               /\ \A c : Due(p, c) => Due(p, c)' \/ c = Head(todo[p])
<1>1. handling[p] \in Messages
  BY DEF Insert, HandInv, ATypeOK
<1>2. /\ Head(todo[p]) \in Categories /\ Tail(todo[p]) \in Worth
      /\ \A c : (\E i \in DOMAIN Tail(todo[p]) : Tail(todo[p])[i] = c)
               <=> c # Head(todo[p]) /\ Due(p, c)
  BY WorthTail DEF Insert, HandInv, Due
<1>3. \/ alerts' = [alerts EXCEPT ![<<handling[p], Head(todo[p])>>] = @ + 1]
      \/ UNCHANGED alerts /\ swallowed' = swallowed \union {handling[p]}
  BY DEF Insert
<1>4. \A m \in Messages, c \in Categories :
        alerts'[<<m, c>>] = alerts[<<m, c>>]
          \/ (m = handling[p] /\ c = Head(todo[p]) /\ alerts'[<<m, c>>] = alerts[<<m, c>>] + 1)
  <2> DEFINE a == <<handling[p], Head(todo[p])>>
  <2>1. a \in Messages \X Categories
    BY <1>1, <1>2
  <2>2. alerts' = alerts \/ alerts' = [alerts EXCEPT ![a] = @ + 1]
    BY <1>3
  <2>3. alerts \in [Messages \X Categories -> Nat]
    BY DEF ATypeOK
  <2> HIDE DEF a
  <2>4. \A b \in Messages \X Categories : alerts'[b] = alerts[b] \/ (b = a /\ alerts'[b] = alerts[b] + 1)
    BY <2>1, <2>2, <2>3
  <2>5. \A m \in Messages, c \in Categories : <<m, c>> = a => m = handling[p] /\ c = Head(todo[p])
    BY DEF a
  <2> QED BY <2>4, <2>5
<1>5. \A q \in Consumers \ {p} : todo'[q] = todo[q]
  BY DEF Insert, ATypeOK
<1>6. \/ todo'[p] = <<>> /\ handling[p] \in swallowed'
      \/ todo'[p] = Tail(todo[p]) /\ alerts' = [alerts EXCEPT ![<<handling[p], Head(todo[p])>>] = @ + 1]
  BY DEF Insert, ATypeOK
<1>7. DOMAIN <<>> = {}
  OBVIOUS
<1>8. \A q \in Consumers \ {p} : \A c : Due(q, c)' <=> Due(q, c)
  BY <1>5 DEF Due
<1>9. \A c : Due(p, c)' => Due(p, c) /\ c # Head(todo[p])
  BY <1>2, <1>6, <1>7 DEF Due
<1>10. CASE todo'[p] = Tail(todo[p]) /\ alerts' = [alerts EXCEPT ![<<handling[p], Head(todo[p])>>] = @ + 1]
  <2>1. alerts'[<<handling[p], Head(todo[p])>>] = alerts[<<handling[p], Head(todo[p])>>] + 1
    BY <1>1, <1>2, <1>10 DEF ATypeOK
  <2>2. \A c : Due(p, c) => Due(p, c)' \/ c = Head(todo[p])
    BY <1>2, <1>10 DEF Due
  <2> QED BY <1>1, <1>2, <1>4, <1>8, <1>9, <2>1, <2>2
<1> QED BY <1>1, <1>2, <1>4, <1>6, <1>8, <1>9, <1>10

LEMMA PromotedTyped ==
  ASSUME NEW m \in Messages
  PROVE  /\ Promoted(m) \subseteq Categories
         /\ \A c \in Promoted(m) : \E i \in DOMAIN Route(m) : Route(m)[i] = c
<1>1. Route(m) \in Seq(Categories)
  BY RouteWorth, WorthTyped
<1>2. \A i \in DOMAIN Route(m) : Route(m)[i] \in Categories
  BY <1>1
<1> QED BY <1>2 DEF Promoted

LEMMA PromotedStep == ASSUME ATypeOK, HandInv, PromotedInv, [ANext]_acvars PROVE PromotedInv'
<1> USE DEF js, procs, rows
<1>1. ASSUME UNCHANGED <<handling, todo, rows>> PROVE PromotedInv'
  BY <1>1 DEF PromotedInv, Due
<1>2. ASSUME NEW p \in Consumers, Begin(p) PROVE PromotedInv'
  <2>1. Head(buffer[p]) \in Messages
    BY <1>2, HeadTailProperties DEF Begin, HandInv, ATypeOK
  <2>2. /\ handling'[p] = Head(buffer[p]) /\ todo'[p] = Route(Head(buffer[p]))
        /\ \A q \in Consumers \ {p} : handling'[q] = handling[q] /\ todo'[q] = todo[q]
        /\ UNCHANGED rows
    BY <1>2 DEF Begin, ATypeOK
  <2>3. \A c \in Promoted(handling'[p]) : Due(p, c)'
    BY <2>1, <2>2, PromotedTyped DEF Due
  <2>4. \A q \in Consumers \ {p} : \A c : Due(q, c)' <=> Due(q, c)
    BY <2>2 DEF Due
  <2> QED BY <2>2, <2>3, <2>4 DEF PromotedInv
<1>3. ASSUME NEW p \in Consumers, Insert(p) PROVE PromotedInv'
  <2> SUFFICES ASSUME NEW q \in Consumers, handling[q] \in Messages, handling[q] \notin swallowed',
                      NEW c \in Promoted(handling[q])
               PROVE  alerts'[<<handling[q], c>>] > 0 \/ Due(q, c)'
    BY <1>3 DEF Insert, PromotedInv, Promoted
  <2>1. c \in Categories /\ alerts[<<handling[q], c>>] \in Nat
    BY PromotedTyped DEF ATypeOK
  <2>2. alerts[<<handling[q], c>>] > 0 \/ Due(q, c)
    BY <1>3 DEF PromotedInv, Insert
  <2>3. alerts'[<<handling[q], c>>] \in {alerts[<<handling[q], c>>], alerts[<<handling[q], c>>] + 1}
    BY <1>3, <2>1, InsertEffect
  <2>4. alerts[<<handling[q], c>>] > 0 => alerts'[<<handling[q], c>>] > 0
    BY <2>1, <2>3
  <2>5. CASE q # p \/ c # Head(todo[p])
    <3>1. Due(q, c) => Due(q, c)'
      BY <1>3, <2>5, InsertEffect
    <3> QED BY <2>2, <2>4, <3>1
  <2>6. CASE q = p /\ c = Head(todo[p])
    BY <1>3, <2>1, <2>6, InsertEffect
  <2> QED BY <2>5, <2>6
<1>4. ASSUME NEW p \in Consumers, Ack(p) \/ CrashConsumer(p) PROVE PromotedInv'
  <2>1. /\ handling'[p] = NoMessage /\ UNCHANGED rows
        /\ \A q \in Consumers \ {p} : handling'[q] = handling[q] /\ todo'[q] = todo[q]
    BY <1>4 DEF Ack, CrashConsumer, ATypeOK
  <2>2. NoMessage \notin Messages
    BY AlertAssumption
  <2> QED BY <2>1, <2>2 DEF PromotedInv, Due
<1> QED BY <1>1, <1>2, <1>3, <1>4
        DEF ANext, ConsumerNext, HandlerStep, acvars, Arrive, AckWaitEnds, HandOut, Close, Reopen

\* An acknowledgement finds nothing due, so what it is for has been promoted.
LEMMA AckedStep ==
  ASSUME ATypeOK, HandInv, PromotedInv, AckedIsPromoted, [ANext]_acvars PROVE AckedIsPromoted'
<1> USE DEF js, procs, rows
<1>1. ASSUME UNCHANGED rows,
             \A m \in Messages : delivery'[m] = "acked" => delivery[m] = "acked"
      PROVE  AckedIsPromoted'
  BY <1>1 DEF AckedIsPromoted, Promoted
<1>2. ASSUME NEW m \in Messages, AckWaitEnds(m) PROVE AckedIsPromoted'
  <2>1. \A n \in Messages : delivery'[n] = "acked" => delivery[n] = "acked"
    BY <1>2 DEF AckWaitEnds, AfterAckWait, ATypeOK
  <2> QED BY <1>1, <1>2, <2>1 DEF AckWaitEnds
<1>3. ASSUME NEW p \in Consumers, NEW m \in Messages, HandOut(p, m) PROVE AckedIsPromoted'
  <2>1. \A n \in Messages : delivery'[n] = "acked" => delivery[n] = "acked"
    BY <1>3 DEF HandOut, ATypeOK
  <2> QED BY <1>1, <1>3, <2>1 DEF HandOut
<1>4. ASSUME NEW p \in Consumers, Insert(p) PROVE AckedIsPromoted'
  <2> SUFFICES ASSUME NEW m \in Messages \ swallowed', delivery[m] = "acked", NEW c \in Promoted(m)
               PROVE  alerts'[<<m, c>>] > 0
    BY <1>4 DEF Insert, AckedIsPromoted, Promoted
  <2>1. c \in Categories /\ alerts[<<m, c>>] \in Nat
    BY PromotedTyped DEF ATypeOK
  <2>2. alerts[<<m, c>>] > 0
    BY <1>4 DEF AckedIsPromoted, Insert
  <2>3. alerts'[<<m, c>>] \in {alerts[<<m, c>>], alerts[<<m, c>>] + 1}
    BY <1>4, <2>1, InsertEffect
  <2> QED BY <2>1, <2>2, <2>3
<1>5. ASSUME NEW p \in Consumers, Ack(p) PROVE AckedIsPromoted'
  <2>1. handling[p] \in Messages /\ todo[p] = <<>> /\ UNCHANGED rows
    BY <1>5 DEF Ack, HandlerReturned, ATypeOK
  <2>2. \A n \in Messages : delivery'[n] = "acked" => delivery[n] = "acked" \/ n = handling[p]
    BY <1>5 DEF Ack, ATypeOK
  <2>3. \A c : ~Due(p, c)
    BY <2>1 DEF Due
  <2>4. \A c \in Promoted(handling[p]) : handling[p] \notin swallowed => alerts[<<handling[p], c>>] > 0
    BY <2>1, <2>3 DEF PromotedInv
  <2> QED BY <2>1, <2>2, <2>4 DEF AckedIsPromoted, Promoted
<1> QED BY <1>1, <1>2, <1>3, <1>4, <1>5
        DEF ANext, ConsumerNext, HandlerStep, acvars, Arrive, Begin, CrashConsumer, Close, Reopen

------------------------------------------------------------------------------
(* Counting.                                                               *)

Covered(a, S, d) == IsFiniteSet(S) /\ a + Cardinality(S) <= d

LEMMA FewerPlaces ==
  ASSUME NEW S, NEW T, NEW a \in Nat, NEW d \in Nat, Covered(a, S, d), T \subseteq S
  PROVE  Covered(a, T, d)
<1>1. IsFiniteSet(T) /\ Cardinality(T) <= Cardinality(S)
  BY FS_Subset DEF Covered
<1>2. Cardinality(T) \in Nat /\ Cardinality(S) \in Nat
  BY <1>1, FS_CardinalityType DEF Covered
<1> QED BY <1>1, <1>2 DEF Covered

\* A delivery makes one place more.
LEMMA OneMorePlace ==
  ASSUME NEW S, NEW T, NEW x, NEW a \in Nat, NEW d \in Nat, Covered(a, S, d), T \subseteq S \union {x}
  PROVE  Covered(a, T, d + 1)
<1>1. IsFiniteSet(S \union {x}) /\ Cardinality(S \union {x}) <= Cardinality(S) + 1
  <2>1. Cardinality(S) \in Nat
    BY FS_CardinalityType DEF Covered
  <2>2. CASE x \in S
    <3>1. S \union {x} = S
      BY <2>2
    <3> QED BY <2>1, <3>1 DEF Covered
  <2>3. CASE x \notin S
    <3>1. IsFiniteSet(S \union {x}) /\ Cardinality(S \union {x}) = Cardinality(S) + 1
      BY <2>3, FS_AddElement DEF Covered
    <3> QED BY <2>1, <3>1
  <2> QED BY <2>2, <2>3
<1>2. Cardinality(S) \in Nat /\ Cardinality(S \union {x}) \in Nat
  BY <1>1, FS_CardinalityType DEF Covered
<1>3. Covered(a, S \union {x}, d + 1)
  BY <1>1, <1>2 DEF Covered
<1>4. d + 1 \in Nat
  OBVIOUS
<1> QED BY <1>3, <1>4, FewerPlaces

\* An insert takes one place for one alert.
LEMMA PlaceUsed ==
  ASSUME NEW S, NEW T, NEW x \in S, NEW a \in Nat, NEW d \in Nat, Covered(a, S, d), T \subseteq S \ {x}
  PROVE  Covered(a + 1, T, d)
<1>1. IsFiniteSet(S \ {x}) /\ Cardinality(S \ {x}) = Cardinality(S) - 1
  BY FS_RemoveElement DEF Covered
<1>2. Cardinality(S) \in Nat /\ Cardinality(S \ {x}) \in Nat
  BY <1>1, FS_CardinalityType DEF Covered
<1>3. Covered(a + 1, S \ {x}, d)
  BY <1>1, <1>2 DEF Covered
<1>4. a + 1 \in Nat
  OBVIOUS
<1> QED BY <1>3, <1>4, FewerPlaces

\* A process that begins with the head of its buffer moves every place one down.
LEMMA PlacesMove ==
  ASSUME ATypeOK, HandInv, NEW p \in Consumers, Begin(p),
         NEW m \in Messages, NEW c \in Categories,
         NEW a \in Nat, NEW d \in Nat, Covered(a, Places(m, c), d)
  PROVE  Covered(a, Places(m, c)', d)
<1> DEFINE S == Places(m, c)'
           T == Places(m, c)
           up(x) == IF x[1] = p THEN <<p, x[2] + 1>> ELSE x
           f == [x \in S |-> up(x)]
<1>1. /\ buffer[p] \in Seq(Messages) /\ buffer[p] # <<>> /\ Len(buffer[p]) <= Prefetch
      /\ Len(buffer[p]) \in Nat \ {0} /\ DOMAIN buffer[p] = 1 .. Len(buffer[p])
      /\ Head(buffer[p]) = buffer[p][1]
  BY EmptySeq, LenProperties DEF Begin, ATypeOK
<1>2. /\ DOMAIN Tail(buffer[p]) = 1 .. (Len(buffer[p]) - 1)
      /\ \A i \in 1 .. (Len(buffer[p]) - 1) : Tail(buffer[p])[i] = buffer[p][i + 1]
  BY <1>1, HeadTailProperties, LenProperties
<1>3. /\ handling'[p] = buffer[p][1] /\ buffer'[p] = Tail(buffer[p])
      /\ \A q \in Consumers \ {p} : handling'[q] = handling[q] /\ buffer'[q] = buffer[q] /\ todo'[q] = todo[q]
  BY <1>1 DEF Begin, ATypeOK
<1>4. ASSUME NEW i \in 0 .. Prefetch, At(p, i, m, c)' PROVE i + 1 \in 0 .. Prefetch /\ At(p, i + 1, m, c)
  <2>1. Prefetch \in Nat
    BY AlertAssumption
  <2>2. CASE i = 0
    BY <1>1, <1>3, <1>4, <2>1, <2>2 DEF At
  <2>3. CASE i # 0
    <3>1. i \in 1 .. (Len(buffer[p]) - 1) /\ buffer[p][i + 1] = m
      BY <1>2, <1>3, <1>4, <2>3 DEF At
    <3> QED BY <1>1, <2>1, <3>1 DEF At
  <2> QED BY <2>2, <2>3
<1>5. ASSUME NEW x \in S PROVE up(x) \in T
  <2>1. PICK q \in Consumers, i \in 0 .. Prefetch : x = <<q, i>> /\ At(q, i, m, c)'
    BY DEF Places
  <2>2. CASE q = p
    BY <1>4, <2>1, <2>2 DEF Places
  <2>3. CASE q # p
    BY <1>3, <2>1, <2>3 DEF Places, At, Due
  <2> QED BY <2>2, <2>3
<1>6. ASSUME NEW x \in S, NEW y \in S, up(x) = up(y) PROVE x = y
  BY <1>6 DEF Places
<1> HIDE DEF S, T, up
<1>7. f \in Injection(S, T)
  BY <1>5, <1>6 DEF Injection, IsInjective
<1>8. IsFiniteSet(S) /\ Cardinality(S) <= Cardinality(T)
  BY <1>7, FS_Injection DEF Covered, T
<1>9. Cardinality(S) \in Nat /\ Cardinality(T) \in Nat
  BY <1>8, FS_CardinalityType DEF Covered, T
<1> QED BY <1>8, <1>9 DEF Covered, S, T

\* Whatever a step does, no message gains a place or an alert that no hand-out
\* and no place accounts for.
LEMMA CountStep ==
  ASSUME ATypeOK, HandInv, CountInv, [ANext]_acvars PROVE CountInv'
<1> USE DEF js, procs, rows
<1> SUFFICES ASSUME NEW m \in Messages, NEW c \in Categories
             PROVE  Covered(alerts'[<<m, c>>], Places(m, c)', delivered'[m])
  BY DEF CountInv, Covered
<1>1. alerts[<<m, c>>] \in Nat /\ delivered[m] \in Nat
  BY AlertAssumption DEF ATypeOK
<1>2. Covered(alerts[<<m, c>>], Places(m, c), delivered[m])
  BY DEF CountInv, Covered
<1>3. ASSUME alerts'[<<m, c>>] = alerts[<<m, c>>], delivered'[m] = delivered[m],
             \A p \in Consumers, i \in 0 .. Prefetch : At(p, i, m, c)' => At(p, i, m, c)
      PROVE  Covered(alerts'[<<m, c>>], Places(m, c)', delivered'[m])
  <2>1. Places(m, c)' \subseteq Places(m, c)
    BY <1>3 DEF Places
  <2> QED BY <1>1, <1>2, <1>3, <2>1, FewerPlaces
<1>4. CASE (\E n \in Messages : Arrive(n) \/ AckWaitEnds(n)) \/ (\E p \in Consumers : Reopen(p)) \/ UNCHANGED acvars
  <2>1. UNCHANGED <<alerts, delivered, handling, buffer, todo>>
    BY <1>4 DEF Arrive, AckWaitEnds, Reopen, acvars
  <2>2. \A p \in Consumers, i \in 0 .. Prefetch : At(p, i, m, c)' <=> At(p, i, m, c)
    BY <2>1 DEF At, Due
  <2> QED BY <1>3, <2>1, <2>2
<1>5. ASSUME NEW p \in Consumers, Ack(p) \/ CrashConsumer(p) \/ Close(p)
      PROVE  Covered(alerts'[<<m, c>>], Places(m, c)', delivered'[m])
  <2>1. /\ UNCHANGED <<alerts, delivered>>
        /\ \A q \in Consumers \ {p} :
             handling'[q] = handling[q] /\ todo'[q] = todo[q] /\ buffer'[q] = buffer[q]
        /\ (handling'[p] = handling[p] /\ todo'[p] = todo[p]) \/ handling'[p] = NoMessage
        /\ buffer'[p] = buffer[p] \/ buffer'[p] = <<>>
    BY <1>5 DEF Ack, CrashConsumer, Close, ATypeOK
  <2>2. NoMessage \notin Messages /\ DOMAIN <<>> = {}
    BY AlertAssumption
  <2>3. \A q \in Consumers, i \in 0 .. Prefetch : At(q, i, m, c)' => At(q, i, m, c)
    BY <2>1, <2>2 DEF At, Due
  <2> QED BY <1>3, <2>1, <2>3
<1>6. ASSUME NEW p \in Consumers, Begin(p)
      PROVE  Covered(alerts'[<<m, c>>], Places(m, c)', delivered'[m])
  <2>1. UNCHANGED <<alerts, delivered>>
    BY <1>6 DEF Begin
  <2> QED BY <1>1, <1>2, <1>6, <2>1, PlacesMove
<1>7. ASSUME NEW p \in Consumers, NEW n \in Messages, HandOut(p, n)
      PROVE  Covered(alerts'[<<m, c>>], Places(m, c)', delivered'[m])
  <2> DEFINE x == <<p, Len(buffer[p]) + 1>>
  <2>1. /\ buffer[p] \in Seq(Messages) /\ Len(buffer[p]) \in Nat /\ DOMAIN buffer[p] = 1 .. Len(buffer[p])
        /\ buffer'[p] = Append(buffer[p], n)
        /\ \A q \in Consumers \ {p} : buffer'[q] = buffer[q]
        /\ UNCHANGED <<alerts, handling, todo>>
    BY <1>7, LenProperties DEF HandOut, ATypeOK
  <2>2. /\ DOMAIN buffer'[p] = 1 .. (Len(buffer[p]) + 1)
        /\ \A i \in 1 .. Len(buffer[p]) : buffer'[p][i] = buffer[p][i]
        /\ buffer'[p][Len(buffer[p]) + 1] = n
    BY <2>1, AppendProperties, LenProperties
  <2>3. \A q \in Consumers, i \in 0 .. Prefetch :
          At(q, i, m, c)' => At(q, i, m, c) \/ (n = m /\ <<q, i>> = x)
    BY <2>1, <2>2 DEF At, Due
  <2>4. CASE n # m
    <3>1. delivered'[m] = delivered[m]
      BY <1>7, <2>4 DEF HandOut, ATypeOK
    <3> QED BY <1>3, <2>1, <2>3, <2>4, <3>1
  <2>5. CASE n = m
    <3>1. delivered'[m] = delivered[m] + 1
      BY <1>7, <2>5 DEF HandOut, ATypeOK
    <3>2. Places(m, c)' \subseteq Places(m, c) \union {x}
      BY <2>3 DEF Places
    <3> HIDE DEF x
    <3>3. Covered(alerts[<<m, c>>], Places(m, c)', delivered[m] + 1)
      BY <1>1, <1>2, <3>2, OneMorePlace
    <3>4. alerts' = alerts
      BY <2>1
    <3> QED BY <3>1, <3>3, <3>4
  <2> QED BY <2>4, <2>5
<1>8. ASSUME NEW p \in Consumers, Insert(p)
      PROVE  Covered(alerts'[<<m, c>>], Places(m, c)', delivered'[m])
  <2> DEFINE x == <<p, 0>>
  <2>1. UNCHANGED <<delivered, buffer, handling>>
    BY <1>8 DEF Insert
  <2>2. \A q \in Consumers, i \in 0 .. Prefetch : At(q, i, m, c)' => At(q, i, m, c)
    BY <1>8, <2>1, InsertEffect DEF At
  <2>3. CASE alerts'[<<m, c>>] = alerts[<<m, c>>]
    BY <1>3, <2>1, <2>2, <2>3
  <2>4. CASE alerts'[<<m, c>>] # alerts[<<m, c>>]
    <3>1. /\ alerts'[<<m, c>>] = alerts[<<m, c>>] + 1
          /\ m = handling[p] /\ c = Head(todo[p])
      <4>1. \A n \in Messages, d \in Categories :
              alerts'[<<n, d>>] = alerts[<<n, d>>]
                \/ (n = handling[p] /\ d = Head(todo[p]) /\ alerts'[<<n, d>>] = alerts[<<n, d>>] + 1)
        BY <1>8, InsertEffect
      <4> QED BY <2>4, <4>1
    <3>2. Due(p, c) /\ ~Due(p, c)'
      <4>1. ~Due(p, c)'
        BY <1>8, <3>1, InsertEffect
      <4>2. Due(p, c)
        <5>1. todo[p] \in Worth /\ todo[p] # <<>>
          BY <1>8 DEF Insert, HandInv
        <5> QED BY <3>1, <5>1, WorthHead DEF Due
      <4> QED BY <4>1, <4>2
    <3>3. x \in Places(m, c) /\ ~At(p, 0, m, c)'
      BY <3>1, <3>2, AlertAssumption DEF Places, At
    <3>4. Places(m, c)' \subseteq Places(m, c) \ {x}
      BY <2>2, <3>3 DEF Places
    <3> HIDE DEF x
    <3> QED BY <1>1, <1>2, <2>1, <3>1, <3>3, <3>4, PlaceUsed
  <2> QED BY <2>3, <2>4
<1> QED BY <1>4, <1>5, <1>6, <1>7, <1>8 DEF ANext, ConsumerNext, HandlerStep

LEMMA InitAInv == AInit => AInv
<1> SUFFICES ASSUME AInit PROVE AInv
  OBVIOUS
<1> USE DEF AInit, ConsumerInit
<1>1. /\ MaxDeliver \in Nat \ {0} /\ MaxConsumerFaults \in Nat /\ Prefetch \in Nat
      /\ NoMessage \notin Messages
  BY AlertAssumption
<1>2. <<>> \in Seq(Messages) /\ <<>> \in Seq(Categories) /\ <<>> \in Seq({}) /\ Len(<<>>) = 0
  OBVIOUS
<1>3. ATypeOK
  BY <1>1, <1>2 DEF ATypeOK
<1>4. HandInv
  BY <1>1, <1>2 DEF HandInv, Worth
<1>5. PromotedInv /\ AckedIsPromoted
  BY <1>1 DEF PromotedInv, AckedIsPromoted
<1>6. CountInv
  <2> SUFFICES ASSUME NEW m \in Messages, NEW c \in Categories
               PROVE  /\ IsFiniteSet(Places(m, c))
                      /\ alerts[<<m, c>>] + Cardinality(Places(m, c)) <= delivered[m]
    BY DEF CountInv
  <2>1. Places(m, c) = {}
    BY <1>1 DEF Places, At
  <2>2. IsFiniteSet(Places(m, c)) /\ Cardinality(Places(m, c)) = 0
    BY <2>1, FS_EmptySet
  <2>3. alerts[<<m, c>>] = 0 /\ delivered[m] = 0
    OBVIOUS
  <2> QED BY <2>2, <2>3
<1> QED BY <1>3, <1>4, <1>5, <1>6 DEF AInv

LEMMA StepAInv == AInv /\ [ANext]_acvars => AInv'
BY TypeStep, HandStep, PromotedStep, AckedStep, CountStep DEF AInv

LEMMA AlwaysAInv == ASpec => []AInv
BY InitAInv, StepAInv, PTL DEF ASpec

\* What every variable of the consumer may be, however processes crash and close.
THEOREM AlertTypes_Always == ASpec => []ATypeOK
<1>1. AInv => ATypeOK
  BY DEF AInv
<1> QED BY <1>1, AlwaysAInv, PTL

\* No alert of an acknowledged message is missing but by a swallowed insert
\* (dsoc alert-consumer.ts: ack only after every insert of the message returned).
THEOREM AckedAlwaysPromoted == ASpec => []AckedIsPromoted
<1>1. AInv => AckedIsPromoted
  BY DEF AInv
<1> QED BY <1>1, AlwaysAInv, PTL

\* Redelivery is the only source of a repeated alert: a message has at most one
\* alert of a category for each time it was handed out.
THEOREM AlertsAlwaysWithinDeliveries == ASpec => []AlertsWithinDeliveries
<1>1. ASSUME AInv PROVE AlertsWithinDeliveries
  <2> SUFFICES ASSUME NEW m \in Messages, NEW c \in Categories
               PROVE  alerts[<<m, c>>] <= delivered[m]
    BY DEF AlertsWithinDeliveries
  <2>1. /\ Cardinality(Places(m, c)) \in Nat
        /\ alerts[<<m, c>>] + Cardinality(Places(m, c)) <= delivered[m]
    BY <1>1, FS_CardinalityType DEF AInv, CountInv
  <2>2. alerts[<<m, c>>] \in Nat /\ delivered[m] \in Nat
    BY <1>1, AlertAssumption DEF AInv, ATypeOK
  <2> QED BY <2>1, <2>2
<1> QED BY <1>1, AlwaysAInv, PTL
------------------------------------------------------------------------------
(* What is handed out has been stored.                                     *)

DeliveredIsStored == \A m \in Messages : delivered[m] > 0 => m \in stream

\* JetStream hands out only what is in the stream, and the stream only grows.
THEOREM OnlyStoredDelivered == ASpec => []DeliveredIsStored
<1>1. AInit => DeliveredIsStored
  BY DEF AInit, ConsumerInit, DeliveredIsStored
<1>2. ASSUME AInv, DeliveredIsStored, [ANext]_acvars PROVE DeliveredIsStored'
  <2>1. /\ stream \subseteq stream'
        /\ \A m \in Messages : delivered'[m] = delivered[m] \/ m \in stream
    BY <1>2 DEF AInv, ATypeOK, ANext, ConsumerNext, HandlerStep, acvars, js, Arrive, AckWaitEnds, HandOut,
                Begin, Insert, Ack, CrashConsumer, Close, Reopen
  <2> QED BY <1>2, <2>1 DEF DeliveredIsStored
<1> QED BY <1>1, <1>2, AlwaysAInv, PTL DEF ASpec

------------------------------------------------------------------------------
(* No alert comes twice while acknowledgements arrive, in time, and no      *)
(* process dies with a message half promoted.                              *)

CleanConsumers == PromptConsumers /\ ConsumerFaults \intersect {"ackLost", "crash"} = {}

\* A message is in one place at most, and only while its acknowledgement is awaited.
OneHand ==
  /\ \A p, q \in Consumers, m \in Messages : InHand(p, m) /\ InHand(q, m) => p = q
  /\ \A p \in Consumers : \A i, j \in DOMAIN buffer[p] : buffer[p][i] = buffer[p][j] => i = j
  /\ \A p \in Consumers : \A i \in DOMAIN buffer[p] : buffer[p][i] # handling[p]
  /\ \A p \in Consumers, m \in Messages : InHand(p, m) => delivery[m] = "pending"

\* An alert that exists is not due again.
NotDueAgain ==
  \A m \in Messages, c \in Categories : alerts[<<m, c>>] > 0 =>
    delivery[m] = "acked" \/ \E p \in Consumers : handling[p] = m /\ ~Due(p, c)

AtMostOneAlert == \A m \in Messages, c \in Categories : alerts[<<m, c>>] <= 1

OInv == OneHand /\ NotDueAgain /\ AtMostOneAlert

\* The buffer of a process after a step that touches it.
LEMMA BufferStep ==
  ASSUME ATypeOK, NEW p \in Consumers
  PROVE  /\ \A m \in Messages : HandOut(p, m) =>
              \A i \in DOMAIN buffer'[p] :
                \/ i = Len(buffer[p]) + 1 /\ buffer'[p][i] = m
                \/ i \in DOMAIN buffer[p] /\ buffer'[p][i] = buffer[p][i]
         /\ Begin(p) =>
              /\ handling'[p] = buffer[p][1] /\ 1 \in DOMAIN buffer[p]
              /\ \A i \in DOMAIN buffer'[p] : i + 1 \in DOMAIN buffer[p] /\ buffer'[p][i] = buffer[p][i + 1]
                                              /\ i \in Nat \ {0}
<1>1. buffer[p] \in Seq(Messages) /\ Len(buffer[p]) \in Nat /\ DOMAIN buffer[p] = 1 .. Len(buffer[p])
  BY LenProperties DEF ATypeOK
<1>2. ASSUME NEW m \in Messages, HandOut(p, m)
      PROVE  \A i \in DOMAIN buffer'[p] :
                \/ i = Len(buffer[p]) + 1 /\ buffer'[p][i] = m
                \/ i \in DOMAIN buffer[p] /\ buffer'[p][i] = buffer[p][i]
  <2>1. buffer'[p] = Append(buffer[p], m)
    BY <1>2 DEF HandOut, ATypeOK
  <2> QED BY <1>1, <2>1, AppendProperties, LenProperties
<1>3. ASSUME Begin(p)
      PROVE  /\ handling'[p] = buffer[p][1] /\ 1 \in DOMAIN buffer[p]
             /\ \A i \in DOMAIN buffer'[p] : i + 1 \in DOMAIN buffer[p] /\ buffer'[p][i] = buffer[p][i + 1]
                                             /\ i \in Nat \ {0}
  <2>1. buffer[p] # <<>> /\ buffer'[p] = Tail(buffer[p]) /\ handling'[p] = Head(buffer[p])
    BY <1>3 DEF Begin, ATypeOK
  <2>2. Len(buffer[p]) \in Nat \ {0}
    BY <1>1, <2>1, EmptySeq
  <2>3. Head(buffer[p]) = buffer[p][1] /\ DOMAIN Tail(buffer[p]) = 1 .. (Len(buffer[p]) - 1)
        /\ \A i \in 1 .. (Len(buffer[p]) - 1) : Tail(buffer[p])[i] = buffer[p][i + 1]
    BY <1>1, <2>1, <2>2, HeadTailProperties, LenProperties
  <2> QED BY <1>1, <2>1, <2>2, <2>3
<1> QED BY <1>2, <1>3

\* Steps after which a process has no more in hand and no message loses its state.
LEMMA QuietOneHand ==
  ASSUME OneHand,
         \A p \in Consumers : buffer'[p] = buffer[p] \/ buffer'[p] = <<>>,
         \A p \in Consumers : handling'[p] = handling[p] \/ (handling'[p] = NoMessage /\ NoMessage \notin Messages),
         \A p \in Consumers : buffer[p] \in Seq(Messages),
         \A p \in Consumers, m \in Messages : InHand(p, m)' => delivery'[m] = delivery[m]
  PROVE  OneHand'
<1>1. DOMAIN <<>> = {}
  OBVIOUS
<1>2. \A p \in Consumers, m \in Messages : InHand(p, m)' => InHand(p, m)
  BY <1>1 DEF InHand
<1>3. \A p \in Consumers : \A i \in DOMAIN buffer[p] : buffer[p][i] \in Messages
  BY ElementOfSeq, LenProperties
<1>4. \A p \in Consumers : \A i, j \in DOMAIN buffer'[p] : buffer'[p][i] = buffer'[p][j] => i = j
  BY <1>1 DEF OneHand
<1>5. \A p \in Consumers : \A i \in DOMAIN buffer'[p] : buffer'[p][i] # handling'[p]
  BY <1>1, <1>3 DEF OneHand
<1> QED BY <1>2, <1>4, <1>5 DEF OneHand

LEMMA OneHandStep ==
  ASSUME CleanConsumers, ATypeOK, OneHand, [ANext]_acvars PROVE OneHand'
<1> USE DEF js, procs, rows
<1>0. /\ \A p \in Consumers : buffer[p] \in Seq(Messages) /\ DOMAIN buffer[p] = 1 .. Len(buffer[p])
                              /\ Len(buffer[p]) \in Nat
      /\ NoMessage \notin Messages
  BY LenProperties, AlertAssumption DEF ATypeOK
<1>1. CASE \/ \E m \in Messages : Arrive(m)
           \/ \E p \in Consumers : Insert(p) \/ Close(p) \/ Reopen(p)
           \/ UNCHANGED acvars
  <2>1. /\ UNCHANGED <<delivery, handling>>
        /\ \A p \in Consumers : buffer'[p] = buffer[p] \/ buffer'[p] = <<>>
    BY <1>1 DEF Arrive, Insert, Close, Reopen, acvars, ATypeOK
  <2> QED BY <1>0, <2>1, QuietOneHand
<1>2. ASSUME NEW m \in Messages, AckWaitEnds(m) PROVE OneHand'
  <2>1. /\ UNCHANGED <<handling, buffer>>
        /\ \A n \in Messages : n # m => delivery'[n] = delivery[n]
        /\ \A p \in Consumers : ~InHand(p, m)
    BY <1>2 DEF AckWaitEnds, ATypeOK, CleanConsumers
  <2>2. \A p \in Consumers, n \in Messages : InHand(p, n)' => delivery'[n] = delivery[n]
    BY <2>1 DEF InHand
  <2> QED BY <1>0, <2>1, <2>2, QuietOneHand
<1>3. ASSUME NEW p \in Consumers, Ack(p) PROVE OneHand'
  <2>1. /\ UNCHANGED buffer /\ handling'[p] = NoMessage
        /\ \A q \in Consumers \ {p} : handling'[q] = handling[q]
        /\ \A n \in Messages : n # handling[p] => delivery'[n] = delivery[n]
    BY <1>3 DEF Ack, ATypeOK
  <2>2. ASSUME NEW q \in Consumers, NEW n \in Messages, InHand(q, n)' PROVE delivery'[n] = delivery[n]
    <3>1. n = handling[p] => q = p
      BY <1>0, <2>1, <2>2 DEF InHand, OneHand
    <3>2. q = p => n # handling[p]
      BY <1>0, <2>1, <2>2 DEF InHand, OneHand
    <3> QED BY <2>1, <3>1, <3>2
  <2>3. \A q \in Consumers : handling'[q] = handling[q] \/ (handling'[q] = NoMessage /\ NoMessage \notin Messages)
    BY <1>0, <2>1
  <2> QED BY <1>0, <2>1, <2>2, <2>3, QuietOneHand
<1>4. ASSUME NEW p \in Consumers, CrashConsumer(p) PROVE OneHand'
  BY <1>4 DEF CrashConsumer, CFault, CleanConsumers
<1>5. ASSUME NEW p \in Consumers, NEW m \in Messages, HandOut(p, m) PROVE OneHand'
  <2>1. /\ delivery[m] = "waiting" /\ delivery'[m] = "pending" /\ UNCHANGED handling
        /\ \A n \in Messages : n # m => delivery'[n] = delivery[n]
        /\ \A q \in Consumers \ {p} : buffer'[q] = buffer[q]
    BY <1>5 DEF HandOut, ATypeOK
  <2>2. \A q \in Consumers : ~InHand(q, m)
    BY <2>1 DEF OneHand
  <2>3. \A i \in DOMAIN buffer'[p] :
          \/ i = Len(buffer[p]) + 1 /\ buffer'[p][i] = m
          \/ i \in DOMAIN buffer[p] /\ buffer'[p][i] = buffer[p][i]
    BY <1>5, BufferStep
  <2>4. \A q \in Consumers, n \in Messages : InHand(q, n)' => InHand(q, n) \/ (q = p /\ n = m)
    BY <2>1, <2>3 DEF InHand
  <2>5. \A i, j \in DOMAIN buffer'[p] : buffer'[p][i] = buffer'[p][j] => i = j
    BY <2>2, <2>3 DEF InHand, OneHand
  <2>6. \A i \in DOMAIN buffer'[p] : buffer'[p][i] # handling'[p]
    BY <2>1, <2>2, <2>3 DEF InHand, OneHand
  <2>7. \A q \in Consumers : /\ \A i, j \in DOMAIN buffer'[q] : buffer'[q][i] = buffer'[q][j] => i = j
                             /\ \A i \in DOMAIN buffer'[q] : buffer'[q][i] # handling'[q]
    BY <2>1, <2>5, <2>6 DEF OneHand
  <2> QED BY <2>1, <2>2, <2>4, <2>7 DEF OneHand
<1>6. ASSUME NEW p \in Consumers, Begin(p) PROVE OneHand'
  <2>1. /\ UNCHANGED delivery /\ handling[p] = NoMessage
        /\ \A q \in Consumers \ {p} : buffer'[q] = buffer[q] /\ handling'[q] = handling[q]
    BY <1>6 DEF Begin, ATypeOK
  <2>2. /\ handling'[p] = buffer[p][1] /\ 1 \in DOMAIN buffer[p]
        /\ \A i \in DOMAIN buffer'[p] : i + 1 \in DOMAIN buffer[p] /\ buffer'[p][i] = buffer[p][i + 1]
                                        /\ i \in Nat \ {0}
    BY <1>6, BufferStep
  <2>3. \A q \in Consumers, n \in Messages : InHand(q, n)' => InHand(q, n)
    BY <2>1, <2>2 DEF InHand
  <2>4. \A i, j \in DOMAIN buffer'[p] : buffer'[p][i] = buffer'[p][j] => i = j
    <3> SUFFICES ASSUME NEW i \in DOMAIN buffer'[p], NEW j \in DOMAIN buffer'[p], buffer'[p][i] = buffer'[p][j]
                 PROVE  i = j
      OBVIOUS
    <3>1. i + 1 = j + 1 /\ i \in Nat /\ j \in Nat
      BY <2>2 DEF OneHand
    <3> QED BY <3>1
  <2>5. \A i \in DOMAIN buffer'[p] : buffer'[p][i] # handling'[p]
    <3> SUFFICES ASSUME NEW i \in DOMAIN buffer'[p], buffer[p][i + 1] = buffer[p][1] PROVE FALSE
      BY <2>2
    <3>1. i + 1 = 1 /\ i \in Nat \ {0}
      BY <2>2 DEF OneHand
    <3> QED BY <3>1
  <2>6. \A q \in Consumers : /\ \A i, j \in DOMAIN buffer'[q] : buffer'[q][i] = buffer'[q][j] => i = j
                             /\ \A i \in DOMAIN buffer'[q] : buffer'[q][i] # handling'[q]
    BY <2>1, <2>4, <2>5 DEF OneHand
  <2> QED BY <2>1, <2>3, <2>6 DEF OneHand
<1> QED BY <1>1, <1>2, <1>3, <1>4, <1>5, <1>6 DEF ANext, ConsumerNext, HandlerStep
\* An alert is inserted only for the message in hand, and only while it is due.
LEMMA AlertedStep ==
  ASSUME CleanConsumers, ATypeOK, HandInv, OInv, [ANext]_acvars
  PROVE  NotDueAgain' /\ AtMostOneAlert'
<1> USE DEF js, procs, rows
<1>0. NoMessage \notin Messages
  BY AlertAssumption
<1>1. ASSUME UNCHANGED <<alerts, handling, todo>>,
             \A m \in Messages : delivery[m] = "acked" => delivery'[m] = "acked"
      PROVE  NotDueAgain' /\ AtMostOneAlert'
  BY <1>1 DEF OInv, NotDueAgain, AtMostOneAlert, Due
<1>2. ASSUME NEW m \in Messages, AckWaitEnds(m) PROVE NotDueAgain' /\ AtMostOneAlert'
  <2>1. \A n \in Messages : delivery[n] = "acked" => delivery'[n] = "acked"
    BY <1>2 DEF AckWaitEnds, ATypeOK
  <2> QED BY <1>1, <1>2, <2>1 DEF AckWaitEnds
<1>3. ASSUME NEW p \in Consumers, NEW m \in Messages, HandOut(p, m) PROVE NotDueAgain' /\ AtMostOneAlert'
  <2>1. \A n \in Messages : delivery[n] = "acked" => delivery'[n] = "acked"
    BY <1>3 DEF HandOut, ATypeOK
  <2> QED BY <1>1, <1>3, <2>1 DEF HandOut
<1>4. ASSUME NEW p \in Consumers, Begin(p) PROVE NotDueAgain' /\ AtMostOneAlert'
  <2>1. /\ handling[p] = NoMessage /\ UNCHANGED <<delivery, alerts>>
        /\ \A q \in Consumers \ {p} : handling'[q] = handling[q] /\ todo'[q] = todo[q]
    BY <1>4 DEF Begin, ATypeOK
  <2> QED BY <1>0, <2>1 DEF OInv, NotDueAgain, AtMostOneAlert, Due
<1>5. ASSUME NEW p \in Consumers, Ack(p) PROVE NotDueAgain' /\ AtMostOneAlert'
  <2>1. /\ UNCHANGED <<alerts, todo>>
        /\ delivery' = [delivery EXCEPT ![handling[p]] = "acked"]
        /\ \A q \in Consumers \ {p} : handling'[q] = handling[q]
    BY <1>5 DEF Ack, CFault, CleanConsumers, ATypeOK
  <2>2. \A m \in Messages : delivery'[m] = IF m = handling[p] THEN "acked" ELSE delivery[m]
    BY <2>1 DEF ATypeOK
  <2> QED BY <2>1, <2>2 DEF OInv, NotDueAgain, AtMostOneAlert, Due
<1>6. ASSUME NEW p \in Consumers, CrashConsumer(p) PROVE FALSE
  BY <1>6 DEF CrashConsumer, CFault, CleanConsumers
<1>7. ASSUME NEW p \in Consumers, Insert(p) PROVE NotDueAgain' /\ AtMostOneAlert'
  <2>0. PICK d \in Categories : d = Head(todo[p])
    BY <1>7, InsertEffect
  <2>1. handling[p] \in Messages /\ Due(p, d) /\ ~Due(p, d)'
    <3>1. todo[p] \in Worth /\ todo[p] # <<>>
      BY <1>7 DEF Insert, HandInv
    <3>2. Due(p, d)
      BY <2>0, <3>1, WorthHead DEF Due
    <3> QED BY <1>7, <2>0, <3>2, InsertEffect
  <2>2. \A m \in Messages, c \in Categories :
          alerts'[<<m, c>>] = alerts[<<m, c>>]
            \/ (m = handling[p] /\ c = d /\ alerts'[<<m, c>>] = alerts[<<m, c>>] + 1)
    BY <1>7, <2>0, InsertEffect
  <2>3. /\ UNCHANGED <<delivery, handling>>
        /\ \A q \in Consumers : \A c : Due(q, c)' => Due(q, c)
    BY <1>7, InsertEffect DEF Insert
  <2>4. ~(alerts[<<handling[p], d>>] > 0)
    <3> SUFFICES ASSUME alerts[<<handling[p], d>>] > 0 PROVE FALSE
      OBVIOUS
    <3>1. delivery[handling[p]] = "pending"
      BY <2>1 DEF OInv, OneHand, InHand
    <3>2. PICK q \in Consumers : handling[q] = handling[p] /\ ~Due(q, d)
      BY <2>1, <3>1 DEF OInv, NotDueAgain
    <3>3. q = p
      BY <2>1, <3>2 DEF OInv, OneHand, InHand
    <3> QED BY <2>1, <3>2, <3>3
  <2>5. NotDueAgain'
    <3> SUFFICES ASSUME NEW m \in Messages, NEW c \in Categories, alerts'[<<m, c>>] > 0
                 PROVE  delivery[m] = "acked" \/ \E q \in Consumers : handling[q] = m /\ ~Due(q, c)'
      BY <2>3 DEF NotDueAgain
    <3>1. CASE alerts'[<<m, c>>] = alerts[<<m, c>>]
      BY <2>3, <3>1 DEF OInv, NotDueAgain
    <3>2. CASE m = handling[p] /\ c = d
      BY <2>1, <3>2
    <3> QED BY <2>2, <3>1, <3>2
  <2>6. AtMostOneAlert'
    <3> SUFFICES ASSUME NEW m \in Messages, NEW c \in Categories PROVE alerts'[<<m, c>>] <= 1
      BY DEF AtMostOneAlert
    <3>1. alerts[<<m, c>>] \in Nat /\ alerts[<<m, c>>] <= 1
      BY DEF ATypeOK, OInv, AtMostOneAlert
    <3>2. CASE alerts'[<<m, c>>] = alerts[<<m, c>>]
      BY <3>1, <3>2
    <3>3. CASE alerts'[<<m, c>>] = alerts[<<m, c>>] + 1 /\ ~(alerts[<<m, c>>] > 0)
      BY <3>1, <3>3
    <3> QED BY <2>2, <2>4, <3>2, <3>3
  <2> QED BY <2>5, <2>6
<1> QED BY <1>1, <1>2, <1>3, <1>4, <1>5, <1>6, <1>7
        DEF ANext, ConsumerNext, HandlerStep, acvars, Arrive, Close, Reopen

\* Then an event's message raises each of its alerts once at most, although a
\* closing process leaves messages to be handed out again.
THEOREM AlertsOnce == ASSUME CleanConsumers PROVE ASpec => []AtMostOneAlert
<1>1. AInit => OInv
  <2> SUFFICES ASSUME AInit PROVE OInv
    OBVIOUS
  <2>1. NoMessage \notin Messages /\ DOMAIN <<>> = {}
    BY AlertAssumption
  <2>2. OneHand
    BY <2>1 DEF AInit, ConsumerInit, OneHand, InHand
  <2> QED BY <2>2 DEF AInit, ConsumerInit, OInv, NotDueAgain, AtMostOneAlert
<1>2. AInv /\ OInv /\ [ANext]_acvars => OInv'
  BY OneHandStep, AlertedStep DEF AInv, OInv
<1>3. OInv => AtMostOneAlert
  BY DEF OInv
<1> QED BY <1>1, <1>2, <1>3, AlwaysAInv, PTL DEF ASpec
==============================================================================
