---------------------------- MODULE EventBusProofs ----------------------------
(***************************************************************************)
(* Proofs about the event bus, for any events, entities, handlers, failing *)
(* statements and restarts.                                                *)
(***************************************************************************)
EXTENDS EventBus, FiniteSetTheorems, SequenceTheorems, TLAPS

Sent(e) == e \in ToSet(sent)
Settled(p) == runs[p] > 0 \/ Excused(p)
Before(e, f) == \E i, j \in DOMAIN sent : i < j /\ sent[i] = e /\ sent[j] = f
SameEntity(e, f) == EntityOf[e] = EntityOf[f] /\ EntityOf[e] # NoEntity

\* Where an event stands agrees with what has been stored and emitted: before its
\* first emission nothing is under way, and an id that is not made up has a row.
PublishInv ==
  /\ \A e \in Events :
       /\ pub[e] = "marking" \/ wal[e] = "dispatched" \/ e \in recovered => Sent(e)
       /\ pub[e] = "new" => wal[e] = "none" /\ ~Sent(e)
       /\ pub[e] \in {"stored", "marking"} \/ e \in backlog \union recovered => wal[e] # "none"
       /\ ~Sent(e) => \A h \in Handlers : runs[<<e, h>>] = 0 /\ <<e, h>> \notin dlq
  /\ \A i \in DOMAIN tasks : Sent(tasks[i].ev) /\ (tasks[i].named => wal[tasks[i].ev] # "none")

\* The log tells only of runs.
RanInv ==
  /\ \A p \in processed : runs[p] > 0
  /\ \A i \in DOMAIN tasks : tasks[i].at = "mark" => runs[Pair(tasks[i])] > 0

NothingLost == \A e \in Events : Sent(e) =>
  \A h \in Handlers : Settled(<<e, h>>) \/ Called(<<e, h>>)

\* A handler that has begun is the first of its entity.
Serial ==
  \A i \in DOMAIN tasks : tasks[i].at \in {"run", "mark"} => EntityFirst(i)

\* The log misses what runs under a made-up id.
UnnamedMissed ==
  \A i \in DOMAIN tasks : ~tasks[i].named /\ tasks[i].at \in {"run", "mark"} => Pair(tasks[i]) \in unmarked

\* A run is in the log, on its way there, or the log has missed it.
RunAccounted ==
  \A p \in Pairs : EntityOf[p[1]] # NoEntity /\ runs[p] > 0 =>
    \/ p \in processed \union unmarked \union dlq
    \/ \E i \in DOMAIN tasks : Pair(tasks[i]) = p /\ tasks[i].at = "mark"

RerunHasCause ==
  /\ \A i \in DOMAIN tasks :
       EntityOf[tasks[i].ev] # NoEntity /\ tasks[i].at = "run" /\ runs[Pair(tasks[i])] > 0 =>
         Pair(tasks[i]) \in unmarked \union dlq
  /\ \A p \in Pairs : EntityOf[p[1]] # NoEntity /\ runs[p] > 1 => p \in unmarked \union dlq

\* What is not settled of an event is ahead of everything of the events after it.
Ahead(p, f) ==
  \E k \in DOMAIN tasks : Pair(tasks[k]) = p /\ \A l \in DOMAIN tasks : tasks[l].ev = f => k < l

Begun(p) ==
  \/ runs[p] > 0 \/ p \in dlq
  \/ \E i \in DOMAIN tasks : Pair(tasks[i]) = p /\ tasks[i].at # "wait"

OrderInv ==
  \A e, f \in Events : Before(e, f) =>
    /\ e # f
    /\ SameEntity(e, f) => \A h \in Handlers :
         /\ Settled(<<e, h>>) \/ Ahead(<<e, h>>, f)
         /\ Begun(<<f, h>>) => Settled(<<e, h>>)

OnceInv == RunAccounted /\ RerunHasCause /\ UnnamedMissed
BInv == BusTypeOK /\ PublishInv /\ RanInv /\ NothingLost /\ Serial /\ OnceInv /\ OrderInv

------------------------------------------------------------------------------
(* The sequence of calls.                                                  *)

LEMMA SetToSeqLists ==
  ASSUME NEW S, IsFiniteSet(S)
  PROVE  /\ SetToSeq(S) \in Seq(S)
         /\ \A x \in S : \E i \in DOMAIN SetToSeq(S) : SetToSeq(S)[i] = x
<1> DEFINE n == Cardinality(S)
           f == SetToSeq(S)
<1>1. n \in Nat /\ \E g \in [1 .. n -> S] : IsInjective(g)
  BY FS_CardinalityType DEF ExistsBijection, Bijection, Injection
<1>2. f \in [1 .. n -> S] /\ IsInjective(f)
  BY <1>1 DEF SetToSeq
<1>3. Cardinality(1 .. n) = n
  BY <1>1, FS_Interval
<1> HIDE DEF n, f
<1>4. f \in Surjection(1 .. n, S)
  <2>1. f \in Injection(1 .. n, S)
    BY <1>2 DEF Injection
  <2> QED BY <1>3, <2>1, FS_Injection DEF n
<1>5. f \in Seq(S)
  BY <1>1, <1>2
<1>6. \A x \in S : \E i \in DOMAIN f : f[i] = x
  BY <1>4 DEF Surjection
<1> QED BY <1>5, <1>6 DEF f

\* The positions of the calls of t among those of s: all but i are kept, in order.
Moves(s, t, up, i) ==
  /\ up \in [DOMAIN t -> DOMAIN s \ {i}]
  /\ \A j, l \in DOMAIN t : j < l <=> up[j] < up[l]
  /\ \A k \in DOMAIN s \ {i} : \E j \in DOMAIN t : up[j] = k
  /\ \A j \in DOMAIN t : /\ t[j].ev = s[up[j]].ev /\ Pair(t[j]) = Pair(s[up[j]])
                         /\ t[j].named = s[up[j]].named

LEMMA TaskFields ==
  ASSUME NEW t \in Task
  PROVE  /\ t.ev \in Events /\ t.h \in Handlers /\ Pair(t) = <<t.ev, t.h>> /\ Pair(t) \in Pairs
         /\ t.at \in {"wait", "run", "mark", "bury"} /\ t.named \in BOOLEAN
BY DEF Task, Pair, Pairs

LEMMA TasksIndexed ==
  ASSUME NEW s \in Seq(Task)
  PROVE  /\ Len(s) \in Nat /\ DOMAIN s = 1 .. Len(s)
         /\ \A i \in DOMAIN s : s[i] \in Task /\ i \in Nat \ {0}
BY LenProperties, ElementOfSeq

LEMMA SetAt ==
  ASSUME NEW s \in Seq(Task), NEW i \in DOMAIN s, NEW a \in {"wait", "run", "mark", "bury"},
         NEW t, t = [s EXCEPT ![i].at = a]
  PROVE  /\ t \in Seq(Task) /\ DOMAIN t = DOMAIN s
         /\ \A j \in DOMAIN s : /\ t[j].ev = s[j].ev /\ Pair(t[j]) = Pair(s[j]) /\ t[j].named = s[j].named
                                /\ t[j].at = IF j = i THEN a ELSE s[j].at
<1> DEFINE u == [s[i] EXCEPT !.at = a]
<1>1. s[i] \in Task /\ i \in 1 .. Len(s) /\ DOMAIN s = 1 .. Len(s)
  BY TasksIndexed
<1>2. u \in Task /\ u.ev = s[i].ev /\ u.h = s[i].h /\ u.named = s[i].named /\ u.at = a
  BY <1>1 DEF Task
<1>3. t = [s EXCEPT ![i] = u]
  OBVIOUS
<1> HIDE DEF u
<1>4. /\ t \in Seq(Task) /\ Len(t) = Len(s)
      /\ \A j \in 1 .. Len(s) : t[j] = IF j = i THEN u ELSE s[j]
  BY <1>1, <1>2, <1>3, ExceptSeq
<1>5. DOMAIN t = DOMAIN s
  BY <1>1, <1>4, LenProperties
<1> QED BY <1>1, <1>2, <1>4, <1>5 DEF Pair

LEMMA Removed ==
  ASSUME NEW s \in Seq(Task), NEW i \in DOMAIN s, NEW t, t = RemoveAt(s, i)
  PROVE  /\ t \in Seq(Task)
         /\ \E up : Moves(s, t, up, i) /\ \A j \in DOMAIN t : t[j] = s[up[j]]
<1> DEFINE n == Len(s)
           s1 == SubSeq(s, 1, i - 1)
           s2 == SubSeq(s, i + 1, n)
           up == [j \in DOMAIN t |-> IF j < i THEN j ELSE j + 1]
<1>1. n \in Nat /\ i \in 1 .. n /\ DOMAIN s = 1 .. n /\ \A j \in 1 .. n : s[j] \in Task
  BY TasksIndexed
<1>2. s1 \in Seq(Task) /\ Len(s1) = i - 1 /\ \A j \in 1 .. (i - 1) : s1[j] = s[j]
  <2>1. \A j \in 1 .. (i - 1) : s[j] \in Task
    BY <1>1
  <2>2. /\ s1 \in Seq(Task) /\ Len(s1) = IF 1 <= i - 1 THEN i - 1 - 1 + 1 ELSE 0
        /\ \A j \in 1 .. (i - 1 - 1 + 1) : s1[j] = s[1 + j - 1]
    BY <1>1, <2>1, SubSeqProperties
  <2> QED BY <1>1, <2>2
<1>3. s2 \in Seq(Task) /\ Len(s2) = n - i /\ \A j \in 1 .. (n - i) : s2[j] = s[i + j]
  <2>1. \A j \in (i + 1) .. n : s[j] \in Task
    BY <1>1
  <2>2. /\ s2 \in Seq(Task) /\ Len(s2) = IF i + 1 <= n THEN n - (i + 1) + 1 ELSE 0
        /\ \A j \in 1 .. (n - (i + 1) + 1) : s2[j] = s[i + 1 + j - 1]
    BY <1>1, <2>1, SubSeqProperties
  <2>3. n \in Nat /\ i \in 1 .. n
    BY <1>1
  <2>4. Len(s2) = n - i
    <3>1. Len(s2) = IF i + 1 <= n THEN n - (i + 1) + 1 ELSE 0
      BY <2>2
    <3> QED BY <2>3, <3>1
  <2>5. ASSUME NEW j \in 1 .. (n - i) PROVE s2[j] = s[i + j]
    <3>1. j \in 1 .. (n - (i + 1) + 1) /\ i + 1 + j - 1 = i + j
      BY <2>3
    <3> QED BY <2>2, <3>1
  <2> QED BY <2>2, <2>4, <2>5
<1>4. t = s1 \o s2
  BY DEF RemoveAt
<1> HIDE DEF n, s1, s2
<1>5. /\ t \in Seq(Task) /\ Len(t) = n - 1 /\ DOMAIN t = 1 .. (n - 1)
      /\ \A j \in 1 .. (n - 1) : t[j] = IF j < i THEN s[j] ELSE s[j + 1]
  <2>1. /\ t \in Seq(Task) /\ Len(t) = (i - 1) + (n - i)
        /\ \A j \in 1 .. ((i - 1) + (n - i)) : t[j] = IF j <= i - 1 THEN s1[j] ELSE s2[j - (i - 1)]
    <3>1. s1 \in Seq(Task) /\ s2 \in Seq(Task) /\ Len(s1) = i - 1 /\ Len(s2) = n - i
      BY <1>2, <1>3
    <3>2. /\ s1 \o s2 \in Seq(Task) /\ Len(s1 \o s2) = Len(s1) + Len(s2)
          /\ \A j \in 1 .. (Len(s1) + Len(s2)) :
               (s1 \o s2)[j] = IF j <= Len(s1) THEN s1[j] ELSE s2[j - Len(s1)]
      BY <3>1, ConcatProperties
    <3> QED BY <1>4, <3>1, <3>2
  <2>2. Len(t) = n - 1
    BY <1>1, <2>1
  <2>3. DOMAIN t = 1 .. (n - 1)
    BY <2>1, <2>2, LenProperties
  <2>4. ASSUME NEW j \in 1 .. (n - 1) PROVE t[j] = IF j < i THEN s[j] ELSE s[j + 1]
    <3>1. CASE j < i
      BY <1>1, <1>2, <2>1, <3>1
    <3>2. CASE ~(j < i)
      <4>1. t[j] = s2[j - (i - 1)] /\ j - (i - 1) \in 1 .. (n - i)
        BY <1>1, <2>1, <3>2
      <4>2. s2[j - (i - 1)] = s[i + (j - (i - 1))] /\ i + (j - (i - 1)) = j + 1
        BY <1>1, <1>3, <4>1
      <4> QED BY <3>2, <4>1, <4>2
    <3> QED BY <3>1, <3>2
  <2> QED BY <2>1, <2>2, <2>3, <2>4
<1>6. up \in [DOMAIN t -> DOMAIN s \ {i}] /\ \A j, l \in DOMAIN t : j < l <=> up[j] < up[l]
  BY <1>1, <1>5
<1>7. ASSUME NEW k \in DOMAIN s \ {i} PROVE \E j \in DOMAIN t : up[j] = k
  <2>1. CASE k < i
    <3>1. k \in DOMAIN t /\ up[k] = k
      BY <1>1, <1>5, <2>1
    <3> QED BY <3>1
  <2>2. CASE ~(k < i)
    <3>1. k - 1 \in DOMAIN t /\ up[k - 1] = k
      BY <1>1, <1>5, <2>2
    <3> QED BY <3>1
  <2> QED BY <2>1, <2>2
<1>8. \A j \in DOMAIN t : t[j] = s[up[j]]
  BY <1>5
<1>9. Moves(s, t, up, i)
  BY <1>6, <1>7, <1>8 DEF Moves
<1> QED BY <1>5, <1>8, <1>9

LEMMA EmissionAppends ==
  ASSUME EventBusAssumption, BusTypeOK, NEW e \in Events, NEW named \in BOOLEAN, EmitTo(e, named)
  PROVE  /\ tasks' \in Seq(Task) /\ DOMAIN tasks \subseteq DOMAIN tasks'
         /\ \A j \in DOMAIN tasks : tasks'[j] = tasks[j]
         /\ \A j \in DOMAIN tasks' \ DOMAIN tasks :
              /\ tasks'[j].ev = e /\ tasks'[j].at = "wait" /\ tasks'[j].named = named
              /\ \A k \in DOMAIN tasks : k < j
         /\ \A h \in subs : \E j \in DOMAIN tasks' : Pair(tasks'[j]) = <<e, h>>
<1> DEFINE g == [h \in subs |-> [ev |-> e, h |-> h, named |-> named, at |-> "wait"]]
           S == {[ev |-> e, h |-> h, named |-> named, at |-> "wait"] : h \in subs}
           q == SetToSeq(S)
           n == Len(tasks)
<1>1. IsFiniteSet(S)
  <2>1. IsFiniteSet(subs)
    BY FS_Subset DEF BusTypeOK, EventBusAssumption
  <2>2. g \in Surjection(subs, S)
    BY DEF Surjection
  <2> QED BY <2>1, <2>2, FS_Surjection
<1>2. \A x \in S : /\ x \in Task /\ x.ev = e /\ x.at = "wait" /\ x.named = named
                 /\ x.h \in subs /\ Pair(x) = <<e, x.h>>
  BY DEF BusTypeOK, Task, Pair
<1>3. \A h \in subs : [ev |-> e, h |-> h, named |-> named, at |-> "wait"] \in S
  OBVIOUS
<1>4. /\ q \in Seq(S)
      /\ \A x \in S : \E i \in DOMAIN q : q[i] = x
  BY <1>1, SetToSeqLists
<1>5. tasks' = tasks \o q
  BY DEF EmitTo
<1>6. tasks \in Seq(Task)
  BY DEF BusTypeOK
<1> HIDE DEF S, q, n, g
<1>7. /\ Len(q) \in Nat /\ DOMAIN q = 1 .. Len(q) /\ \A i \in 1 .. Len(q) : q[i] \in S
  BY <1>4, LenProperties, ElementOfSeq
<1>8. q \in Seq(Task)
  <2>1. S \subseteq Task
    BY <1>2
  <2>2. q \in [1 .. Len(q) -> Task]
    BY <1>4, <1>7, <2>1
  <2> QED BY <1>7, <2>2
<1>9. n \in Nat /\ DOMAIN tasks = 1 .. n
  BY <1>6, TasksIndexed DEF n
<1>10. /\ tasks' \in Seq(Task) /\ Len(tasks') = n + Len(q)
       /\ \A j \in 1 .. (n + Len(q)) : tasks'[j] = IF j <= n THEN tasks[j] ELSE q[j - n]
  BY <1>5, <1>6, <1>8, ConcatProperties DEF n
<1>11. DOMAIN tasks' = 1 .. (n + Len(q))
  BY <1>10, LenProperties
<1>12. ASSUME NEW j \in DOMAIN tasks' \ DOMAIN tasks
       PROVE  j \in Nat /\ j > n /\ j - n \in 1 .. Len(q) /\ tasks'[j] = q[j - n] /\ tasks'[j] \in S
  BY <1>7, <1>9, <1>10, <1>11
<1>13. \A j \in DOMAIN tasks : j \in DOMAIN tasks' /\ tasks'[j] = tasks[j]
  BY <1>7, <1>9, <1>10, <1>11
<1>14. ASSUME NEW j \in DOMAIN tasks' \ DOMAIN tasks
       PROVE  /\ tasks'[j].ev = e /\ tasks'[j].at = "wait" /\ tasks'[j].named = named
              /\ \A k \in DOMAIN tasks : k < j
  <2>1. tasks'[j].ev = e /\ tasks'[j].at = "wait" /\ tasks'[j].named = named
    BY <1>2, <1>12
  <2>2. \A k \in DOMAIN tasks : k < j
    BY <1>9, <1>12
  <2> QED BY <2>1, <2>2
<1>15. ASSUME NEW h \in subs PROVE \E j \in DOMAIN tasks' : Pair(tasks'[j]) = <<e, h>>
  <2>1. PICK i \in DOMAIN q : q[i] = [ev |-> e, h |-> h, named |-> named, at |-> "wait"]
    BY <1>3, <1>4
  <2>2. i + n \in DOMAIN tasks' \ DOMAIN tasks /\ (i + n) - n = i
    BY <1>7, <1>9, <1>11
  <2>3. tasks'[i + n] = [ev |-> e, h |-> h, named |-> named, at |-> "wait"]
    BY <1>12, <2>1, <2>2
  <2> QED BY <2>2, <2>3 DEF Pair
<1> QED BY <1>10, <1>13, <1>14, <1>15

\* What one statement of a call does to the sequence: the call stays where it is, at
\* another point, or leaves.
Turn(i, up, gone, a) ==
  /\ Moves(tasks, tasks', up, gone)
  /\ \A j \in DOMAIN tasks' : tasks'[j].at = IF up[j] = i THEN a ELSE tasks[up[j]].at

Stays(i, a) ==
  \/ /\ Begin(i) /\ a = "run"
     /\ AlreadyProcessed(tasks[i]) \/ ~tasks[i].named => Pair(tasks[i]) \in unmarked'
  \/ Complete(i) /\ a = "mark"
  \/ Throw(i) /\ a = "bury"

Leaves(i) ==
  \/ Begin(i) /\ AlreadyProcessed(tasks[i]) /\ NoFault /\ UNCHANGED unmarked
  \/ Mark(i)
  \/ Bury(i)

LEMMA CallTurns ==
  ASSUME BusTypeOK, NEW i \in DOMAIN tasks,
         Begin(i) \/ Complete(i) \/ Throw(i) \/ Mark(i) \/ Bury(i)
  PROVE  /\ tasks' \in Seq(Task)
         /\ \E up, gone, a : /\ Turn(i, up, gone, a)
                             /\ \/ gone = 0 /\ Stays(i, a) 
                                \/ gone = i /\ Leaves(i)
<1>1. tasks \in Seq(Task) /\ \A j \in DOMAIN tasks : j \in Nat \ {0}
  BY TasksIndexed DEF BusTypeOK
<1>2. ASSUME NEW a \in {"run", "mark", "bury"}, Stays(i, a), tasks' = [tasks EXCEPT ![i].at = a]
      PROVE  tasks' \in Seq(Task) /\ \E up : Turn(i, up, 0, a)
  <2> DEFINE up == [j \in DOMAIN tasks |-> j]
  <2>1. /\ tasks' \in Seq(Task) /\ DOMAIN tasks' = DOMAIN tasks
        /\ \A j \in DOMAIN tasks : /\ tasks'[j].ev = tasks[j].ev /\ Pair(tasks'[j]) = Pair(tasks[j])
                                   /\ tasks'[j].named = tasks[j].named
                                   /\ tasks'[j].at = IF j = i THEN a ELSE tasks[j].at
    <3>1. \A t : t = [tasks EXCEPT ![i].at = a] =>
            /\ t \in Seq(Task) /\ DOMAIN t = DOMAIN tasks
            /\ \A j \in DOMAIN tasks : /\ t[j].ev = tasks[j].ev /\ Pair(t[j]) = Pair(tasks[j]) /\ t[j].named = tasks[j].named
                                       /\ t[j].at = IF j = i THEN a ELSE tasks[j].at
      BY <1>1, SetAt
    <3> QED BY <1>2, <3>1
  <2>2. Turn(i, up, 0, a)
    BY <1>1, <2>1 DEF Turn, Moves
  <2> QED BY <2>1, <2>2
<1>3. ASSUME Leaves(i), tasks' = RemoveAt(tasks, i)
      PROVE  tasks' \in Seq(Task) /\ \E up, a : Turn(i, up, i, a)
  <2>1. tasks' \in Seq(Task) /\ \E up : Moves(tasks, tasks', up, i) /\ \A j \in DOMAIN tasks' : tasks'[j] = tasks[up[j]]
    <3>1. \A t : t = RemoveAt(tasks, i) =>
            t \in Seq(Task) /\ \E up : Moves(tasks, t, up, i) /\ \A j \in DOMAIN t : t[j] = tasks[up[j]]
      BY <1>1, Removed
    <3> QED BY <1>3, <3>1
  <2>2. PICK up : Moves(tasks, tasks', up, i) /\ \A j \in DOMAIN tasks' : tasks'[j] = tasks[up[j]]
    BY <2>1
  <2>3. Turn(i, up, i, "run")
    BY <2>2 DEF Turn, Moves
  <2> QED BY <2>1, <2>3
<1>4. CASE Begin(i)
  <2>1. CASE AlreadyProcessed(tasks[i]) /\ NoFault /\ UNCHANGED unmarked /\ tasks' = RemoveAt(tasks, i)
    BY <1>3, <1>4, <2>1 DEF Leaves
  <2>2. CASE /\ tasks' = [tasks EXCEPT ![i].at = "run"]
             /\ AlreadyProcessed(tasks[i]) \/ ~tasks[i].named => Pair(tasks[i]) \in unmarked'
    <3>1. Stays(i, "run")
      BY <1>4, <2>2 DEF Stays
    <3> QED BY <1>2, <2>2, <3>1
  <2> QED BY <1>4, <2>1, <2>2 DEF Begin, AlreadyProcessed
<1>5. CASE Complete(i)
  <2>1. tasks' = [tasks EXCEPT ![i].at = "mark"] /\ Stays(i, "mark")
    BY <1>5 DEF Complete, Stays
  <2> QED BY <1>2, <2>1
<1>6. CASE Throw(i)
  <2>1. tasks' = [tasks EXCEPT ![i].at = "bury"] /\ Stays(i, "bury")
    BY <1>6 DEF Throw, Stays
  <2> QED BY <1>2, <2>1
<1>7. CASE Mark(i) \/ Bury(i)
  <2>1. tasks' = RemoveAt(tasks, i) /\ Leaves(i)
    BY <1>7 DEF Mark, Bury, Leaves
  <2> QED BY <1>3, <2>1
<1> QED BY <1>4, <1>5, <1>6, <1>7

------------------------------------------------------------------------------
(* Types.                                                                  *)

LEMMA EmissionSent ==
  ASSUME BusTypeOK, NEW e \in Events, NEW named \in BOOLEAN, EmitTo(e, named)
  PROVE  /\ sent' \in Seq(Events)
         /\ \A x : Sent(x)' <=> Sent(x) \/ x = e
         /\ \A x, y : Before(x, y)' => Before(x, y) \/ (Sent(x) /\ y = e /\ ~Sent(e))
<1>1. sent \in Seq(Events) /\ Len(sent) \in Nat /\ DOMAIN sent = 1 .. Len(sent)
  BY LenProperties DEF BusTypeOK
<1>2. CASE Sent(e)
  <2>1. sent' = sent
    BY <1>2 DEF EmitTo, Sent
  <2> QED BY <1>1, <1>2, <2>1 DEF Sent, Before
<1>3. CASE ~Sent(e)
  <2>1. sent' = Append(sent, e)
    BY <1>3 DEF EmitTo, Sent
  <2>2. /\ sent' \in Seq(Events) /\ Len(sent') = Len(sent) + 1
        /\ \A k \in 1 .. Len(sent) : sent'[k] = sent[k]
        /\ sent'[Len(sent) + 1] = e
    BY <1>1, <2>1, AppendProperties
  <2>3. DOMAIN sent' = 1 .. (Len(sent) + 1)
    BY <2>2, LenProperties
  <2>4. ASSUME NEW x PROVE Sent(x)' <=> Sent(x) \/ x = e
    <3>1. Sent(x)' => Sent(x) \/ x = e
      BY <1>1, <2>2, <2>3 DEF Sent, ToSet
    <3>2. Sent(x) => Sent(x)'
      <4>1. SUFFICES ASSUME NEW k \in 1 .. Len(sent), x = sent[k] PROVE Sent(x)'
        BY <1>1 DEF Sent, ToSet
      <4>2. k \in DOMAIN sent' /\ sent'[k] = x
        BY <1>1, <2>2, <2>3, <4>1
      <4> QED BY <4>2 DEF Sent, ToSet
    <3>3. Sent(e)'
      <4>1. Len(sent) + 1 \in DOMAIN sent'
        BY <1>1, <2>3
      <4> QED BY <2>2, <4>1 DEF Sent, ToSet
    <3> QED BY <3>1, <3>2, <3>3
  <2>5. ASSUME NEW x, NEW y, Before(x, y)' PROVE Before(x, y) \/ (Sent(x) /\ y = e /\ ~Sent(e))
    <3>1. PICK k \in DOMAIN sent', l \in DOMAIN sent' : k < l /\ sent'[k] = x /\ sent'[l] = y
      BY <2>5 DEF Before
    <3>2. k \in 1 .. Len(sent) /\ sent[k] = x
      BY <1>1, <2>2, <2>3, <3>1
    <3>3. CASE l \in 1 .. Len(sent)
      BY <1>1, <2>2, <3>1, <3>2, <3>3 DEF Before
    <3>4. CASE l = Len(sent) + 1
      <4>1. y = e /\ Sent(x)
        BY <1>1, <2>2, <3>1, <3>2, <3>4 DEF Sent, ToSet
      <4> QED BY <1>3, <4>1
    <3> QED BY <1>1, <2>3, <3>3, <3>4
  <2> QED BY <2>2, <2>4, <2>5
<1> QED BY <1>2, <1>3

LEMMA TypesInit ==
  ASSUME EventBusAssumption, Init PROVE BusTypeOK
<1>1. <<>> \in Seq(Task) /\ <<>> \in Seq(Events)
  OBVIOUS
<1>2. 0 \in 0 .. MaxFaults /\ 0 \in 0 .. MaxCrashes
  BY DEF EventBusAssumption
<1> QED BY <1>1, <1>2 DEF Init, BusTypeOK, Pairs

LEMMA FaultCounted ==
  ASSUME BusTypeOK, EventBusAssumption, Fault \/ NoFault
  PROVE  faults' \in 0 .. MaxFaults /\ crashes' \in 0 .. MaxCrashes
BY DEF BusTypeOK, EventBusAssumption, Fault, NoFault, bounds

LEMMA RanTypes ==
  ASSUME BusTypeOK, NEW p \in Pairs, Ran(p)
  PROVE  /\ runs' \in [Pairs -> 0 .. 2] /\ runs'[p] > 0 /\ (runs'[p] > 1 => runs[p] > 0)
         /\ \A q \in Pairs : q # p => runs'[q] = runs[q]
         /\ \A q \in Pairs : /\ runs[q] > 0 => runs'[q] > 0
                             /\ runs[q] > 1 => runs'[q] > 1
BY DEF BusTypeOK, Ran

LEMMA TypesStep ==
  ASSUME EventBusAssumption, BusTypeOK, PublishInv, [Next]_vars PROVE BusTypeOK'
<1> USE DEF BusTypeOK
<1>1. CASE UNCHANGED vars
  BY <1>1 DEF vars, store, recovery, memory, history, bounds
<1>2. ASSUME NEW e \in Events, Persist(e) PROVE BusTypeOK'
  <2>1. Fault \/ NoFault
    BY <1>2 DEF Persist
  <2>2. faults' \in 0 .. MaxFaults /\ crashes' \in 0 .. MaxCrashes
    BY <2>1, FaultCounted
  <2>3. /\ pub' \in [Events -> {"new", "stored", "unstored", "marking", "over"}]
        /\ wal' \in [Events -> {"none", "pending", "dispatched", "abandoned"}]
        /\ \A x \in Events : wal[x] # "none" => wal'[x] # "none"
    BY <1>2 DEF Persist
  <2>4. processed' \union dlq' \subseteq {p \in Pairs : wal'[p[1]] # "none"}
    BY <1>2, <2>3 DEF Persist, Pairs
  <2> QED BY <1>2, <2>2, <2>3, <2>4 DEF Persist, recovery, history
<1>3. ASSUME NEW e \in Events, NEW named \in BOOLEAN, EmitTo(e, named)
      PROVE  sent' \in Seq(Events) /\ tasks' \in Seq(Task) /\ missed' \subseteq Pairs
  <2>1. sent' \in Seq(Events)
    BY <1>3, EmissionSent
  <2>2. tasks' \in Seq(Task)
    BY <1>3, EmissionAppends
  <2>3. missed' \subseteq Pairs
    BY <1>3 DEF EmitTo, Pairs
  <2> QED BY <2>1, <2>2, <2>3
<1>4. ASSUME NEW e \in Events, Emit(e) PROVE BusTypeOK'
  <2>1. PICK named \in BOOLEAN : EmitTo(e, named)
    BY <1>4 DEF Emit
  <2>2. sent' \in Seq(Events) /\ tasks' \in Seq(Task) /\ missed' \subseteq Pairs
    BY <1>3, <2>1
  <2> QED BY <1>4, <2>2 DEF Emit, store, recovery, bounds
<1>5. ASSUME NEW e \in Events, MarkDispatched(e) PROVE BusTypeOK'
  <2>1. Fault \/ NoFault
    BY <1>5 DEF MarkDispatched
  <2>2. faults' \in 0 .. MaxFaults /\ crashes' \in 0 .. MaxCrashes
    BY <2>1, FaultCounted
  <2>3. /\ pub' \in [Events -> {"new", "stored", "unstored", "marking", "over"}]
        /\ wal' \in [Events -> {"none", "pending", "dispatched", "abandoned"}]
        /\ \A x \in Events : wal[x] # "none" => wal'[x] # "none"
    BY <1>5 DEF MarkDispatched, Dispatched
  <2>4. processed' \union dlq' \subseteq {p \in Pairs : wal'[p[1]] # "none"}
    BY <1>5, <2>3 DEF MarkDispatched, Pairs
  <2> QED BY <1>5, <2>2, <2>3, <2>4 DEF MarkDispatched, recovery, history
<1>6. ASSUME NEW e \in Events, Recover(e) PROVE BusTypeOK'
  <2>1. EmitTo(e, TRUE)
    BY <1>6 DEF Recover
  <2>2. sent' \in Seq(Events) /\ tasks' \in Seq(Task) /\ missed' \subseteq Pairs
    BY <1>3, <2>1
  <2> QED BY <1>6, <2>2 DEF Recover, store, bounds
<1>7. CASE StartRecovery
  BY <1>7 DEF StartRecovery, store, history, bounds
<1>8. CASE MarkRecovered
  <2>1. Fault \/ NoFault
    BY <1>8 DEF MarkRecovered
  <2>2. /\ wal' \in [Events -> {"none", "pending", "dispatched", "abandoned"}]
        /\ \A e \in Events : wal[e] # "none" => wal'[e] # "none"
    BY <1>8 DEF MarkRecovered, Dispatched, DispatchFailed
  <2>3. processed' \union dlq' \subseteq {p \in Pairs : wal'[p[1]] # "none"}
    BY <1>8, <2>2 DEF MarkRecovered, Pairs
  <2>4. backlog' \union recovered' \subseteq Events
    BY <1>8 DEF MarkRecovered
  <2> QED BY <1>8, <2>1, <2>2, <2>3, <2>4, FaultCounted DEF MarkRecovered, history
<1>9. ASSUME NEW i \in DOMAIN tasks, Begin(i) \/ Complete(i) \/ Throw(i) \/ Mark(i) \/ Bury(i) PROVE BusTypeOK'
  <2>1. tasks' \in Seq(Task)
    BY <1>9, CallTurns
  <2>2. PICK p \in Pairs : p = Pair(tasks[i]) /\ p[1] = tasks[i].ev
    BY TasksIndexed, TaskFields
  <2>3. Fault \/ NoFault
    BY <1>9 DEF Begin, Complete, Throw, Mark, Bury, NoFault
  <2>4. faults' \in 0 .. MaxFaults /\ crashes' \in 0 .. MaxCrashes
    BY <2>3, FaultCounted
  <2>5. UNCHANGED <<pub, wal, subs, recovery, sent, missed>>
    BY <1>9 DEF Begin, Complete, Throw, Mark, Bury, store, history
  <2>6. runs' \in [Pairs -> 0 .. 2]
    <3>1. CASE Complete(i)
      BY <2>2, <3>1, RanTypes DEF Complete
    <3>2. CASE ~Complete(i)
      BY <1>9, <3>2 DEF Begin, Throw, Mark, Bury, history
    <3> QED BY <3>1, <3>2
  <2>7. cut' \subseteq Pairs /\ unmarked' \subseteq Pairs
    BY <1>9, <2>2 DEF Begin, Complete, Throw, Mark, Bury, history
  <2>8. /\ processed' \subseteq processed \union {p} /\ (processed' # processed => Accepts(tasks[i]))
        /\ dlq' \subseteq dlq \union {p} /\ (dlq' # dlq => Accepts(tasks[i]))
    BY <1>9, <2>2 DEF Begin, Complete, Throw, Mark, Bury, store
  <2>9. processed' \union dlq' \subseteq {q \in Pairs : wal'[q[1]] # "none"}
    <3>1. Accepts(tasks[i]) => wal[p[1]] # "none"
      BY <2>2 DEF Accepts, PublishInv
    <3> QED BY <2>5, <2>8, <3>1
  <2> QED BY <2>1, <2>4, <2>5, <2>6, <2>7, <2>9 DEF recovery
<1>10. ASSUME NEW p \in Pairs, RetryDeadLetter(p) PROVE BusTypeOK'
  <2>1. runs' \in [Pairs -> 0 .. 2]
    BY <1>10, RanTypes DEF RetryDeadLetter
  <2> QED BY <1>10, <2>1 DEF RetryDeadLetter, store, memory, recovery, bounds
<1>11. ASSUME NEW handlers \in SUBSET Handlers, Restart(handlers) PROVE BusTypeOK'
  <2>1. \A t \in ToSet(tasks) : Pair(t) \in Pairs
    BY TasksIndexed, TaskFields DEF ToSet
  <2>2. cut' \subseteq Pairs /\ unmarked' \subseteq Pairs
    BY <1>11, <2>1 DEF Restart
  <2>3. crashes' \in 0 .. MaxCrashes /\ faults' \in 0 .. MaxFaults
    BY <1>11 DEF Restart, EventBusAssumption
  <2>4. tasks' \in Seq(Task) /\ pub' \in [Events -> {"new", "stored", "unstored", "marking", "over"}]
    BY <1>11 DEF Restart
  <2> QED BY <1>11, <2>2, <2>3, <2>4 DEF Restart, store
<1> QED BY <1>1, <1>2, <1>4, <1>5, <1>6, <1>7, <1>8, <1>9, <1>10, <1>11 DEF Next

------------------------------------------------------------------------------
(* The steps outside the calls.                                            *)

LEMMA InvInit ==
  ASSUME EventBusAssumption, Init PROVE BInv
<1>1. BusTypeOK
  BY TypesInit
<1>2. /\ DOMAIN tasks = {} /\ DOMAIN sent = {} /\ ToSet(sent) = {} /\ processed = {}
      /\ \A p \in Pairs : runs[p] = 0
  BY DEF Init, ToSet
<1>3. PublishInv
  BY <1>2 DEF Init, PublishInv, Sent, Pairs
<1>4. RanInv /\ NothingLost /\ Serial /\ OnceInv /\ OrderInv
  BY <1>2 DEF RanInv, NothingLost, Serial, OnceInv, RunAccounted, RerunHasCause, UnnamedMissed, OrderInv, Before, Sent
<1> QED BY <1>1, <1>3, <1>4 DEF BInv

\* A statement on the tables alone disturbs nothing but where the events stand.
LEMMA TablesStep ==
  ASSUME BInv, UNCHANGED <<tasks, processed, dlq, history>>
  PROVE  RanInv' /\ NothingLost' /\ Serial' /\ OnceInv' /\ OrderInv'
<1> USE DEF history
<1>1. RanInv' /\ Serial'
  BY DEF BInv, RanInv, Serial, EntityFirst, Pair
<1>2. NothingLost'
  BY DEF BInv, NothingLost, Sent, Settled, Excused, DeadLettered, Called, Pair
<1>3. OrderInv'
  BY DEF BInv, OrderInv, Before, Settled, Excused, DeadLettered, Ahead, Begun, Pair
<1>4. RunAccounted' /\ RerunHasCause' /\ UnnamedMissed'
  BY DEF BInv, OnceInv, RunAccounted, RerunHasCause, UnnamedMissed, Pair
<1> QED BY <1>1, <1>2, <1>3, <1>4 DEF OnceInv

LEMMA PersistStep ==
  ASSUME BInv, NEW e \in Events, Persist(e)
  PROVE  PublishInv' /\ RanInv' /\ NothingLost' /\ Serial' /\ OnceInv' /\ OrderInv'
<1>1. ~Sent(e) /\ pub[e] = "new"
  BY DEF BInv, PublishInv, Persist
<1>2. \A x \in Events : /\ wal[x] # "none" => wal'[x] # "none"
                        /\ wal'[x] = "dispatched" => wal[x] = "dispatched"
                        /\ x # e => wal'[x] = wal[x] /\ pub'[x] = pub[x]
  BY DEF BInv, BusTypeOK, Persist
<1>3. pub'[e] = "unstored" \/ (pub'[e] = "stored" /\ wal'[e] = "pending")
  BY DEF BInv, BusTypeOK, Persist
<1>4. \A i \in DOMAIN tasks : tasks[i].ev \in Events
  BY TasksIndexed, TaskFields DEF BInv, BusTypeOK
<1>5. UNCHANGED <<tasks, dlq, backlog, recovered, sent, runs>>
  BY DEF Persist, recovery, history
<1>6. PublishInv'
  BY <1>1, <1>2, <1>3, <1>4, <1>5 DEF BInv, PublishInv, Sent
<1> QED BY <1>6, TablesStep DEF Persist

LEMMA MarkDispatchedStep ==
  ASSUME BInv, NEW e \in Events, MarkDispatched(e)
  PROVE  PublishInv' /\ RanInv' /\ NothingLost' /\ Serial' /\ OnceInv' /\ OrderInv'
<1>1. Sent(e) /\ wal[e] # "none"
  BY DEF BInv, PublishInv, MarkDispatched
<1>2. \A x \in Events : /\ wal[x] = "none" <=> wal'[x] = "none"
                        /\ wal'[x] = "dispatched" => wal[x] = "dispatched" \/ x = e
                        /\ pub'[x] = IF x = e THEN "over" ELSE pub[x]
  BY <1>1 DEF BInv, BusTypeOK, MarkDispatched, Dispatched
<1>3. \A i \in DOMAIN tasks : tasks[i].ev \in Events
  BY TasksIndexed, TaskFields DEF BInv, BusTypeOK
<1>4. UNCHANGED <<tasks, dlq, backlog, recovered, sent, runs>>
  BY DEF MarkDispatched, recovery, history
<1>5. PublishInv'
  BY <1>1, <1>2, <1>3, <1>4 DEF BInv, PublishInv, Sent
<1> QED BY <1>5, TablesStep DEF MarkDispatched

LEMMA RecoveryStep ==
  ASSUME BInv, StartRecovery \/ MarkRecovered
  PROVE  PublishInv' /\ RanInv' /\ NothingLost' /\ Serial' /\ OnceInv' /\ OrderInv'
<1>1. CASE StartRecovery
  <2>1. PublishInv'
    BY <1>1 DEF BInv, BusTypeOK, PublishInv, StartRecovery, Sent, history, store
  <2> QED BY <1>1, <2>1, TablesStep DEF StartRecovery, store
<1>2. CASE MarkRecovered
  <2>1. \A x \in recovered : Sent(x) /\ wal[x] # "none"
    BY DEF BInv, BusTypeOK, PublishInv
  <2>2. \A x \in Events : /\ wal[x] = "none" <=> wal'[x] = "none"
                          /\ wal'[x] = "dispatched" => wal[x] = "dispatched" \/ x \in recovered
    BY <1>2, <2>1 DEF BInv, BusTypeOK, MarkRecovered, Dispatched, DispatchFailed
  <2>3. backlog' \subseteq backlog /\ recovered' = {} /\ UNCHANGED <<pub, tasks, processed, dlq, sent, runs>>
    BY <1>2 DEF MarkRecovered, history
  <2>4. \A i \in DOMAIN tasks : tasks[i].ev \in Events
    BY TasksIndexed, TaskFields DEF BInv, BusTypeOK
  <2>5. PublishInv'
    BY <2>1, <2>2, <2>3, <2>4 DEF BInv, PublishInv, Sent
  <2> QED BY <1>2, <2>5, TablesStep DEF MarkRecovered
<1> QED BY <1>1, <1>2

LEMMA RetryStep ==
  ASSUME BInv, NEW p \in Pairs, RetryDeadLetter(p)
  PROVE  PublishInv' /\ RanInv' /\ NothingLost' /\ Serial' /\ OnceInv' /\ OrderInv'
<1>1. /\ UNCHANGED <<wal, processed, dlq, pub, subs, tasks, backlog, recovered, sent, cut, missed, unmarked>>
      /\ p \in dlq /\ wal[p[1]] # "none"
  BY DEF RetryDeadLetter, store, memory, recovery, BInv, BusTypeOK
<1>2. /\ runs'[p] > 0
      /\ \A q \in Pairs : /\ q # p => runs'[q] = runs[q]
                          /\ runs[q] > 0 => runs'[q] > 0
  BY RanTypes DEF RetryDeadLetter, BInv
<1>3. ASSUME NEW i \in DOMAIN tasks
      PROVE  tasks[i].ev \in Events /\ Pair(tasks[i]) \in Pairs /\ Pair(tasks[i])[1] = tasks[i].ev
  BY TasksIndexed, TaskFields DEF BInv, BusTypeOK
<1>4. PICK e \in Events, h \in Handlers : p = <<e, h>>
  BY DEF Pairs
<1>5. PublishInv'
  <2>1. Sent(e)
    BY <1>1, <1>4 DEF BInv, PublishInv
  <2>2. \A x \in Events : ~Sent(x) => \A g \in Handlers : runs'[<<x, g>>] = runs[<<x, g>>]
    BY <1>2, <1>4, <2>1 DEF Pairs
  <2> QED BY <1>1, <2>2 DEF BInv, PublishInv, Sent
<1>6. RanInv'
  <2>1. processed \subseteq Pairs
    BY DEF BInv, BusTypeOK
  <2> QED BY <1>1, <1>2, <1>3, <2>1 DEF BInv, RanInv, Pair
<1>7. \A q \in Pairs : Settled(q) => Settled(q)'
  BY <1>1, <1>2 DEF Settled, Excused, DeadLettered, Pair
<1>8. NothingLost'
  BY <1>1, <1>7 DEF BInv, NothingLost, Sent, Called, Pair, Pairs
<1>9. Serial'
  BY <1>1 DEF BInv, Serial, EntityFirst
<1>10. RunAccounted' /\ RerunHasCause' /\ UnnamedMissed'
  BY <1>1, <1>2, <1>3 DEF BInv, OnceInv, RunAccounted, RerunHasCause, UnnamedMissed, Pair
<1>11. OrderInv'
  <2>1. \A q \in Pairs : Begun(q)' => Begun(q)
    BY <1>1, <1>2 DEF Begun, Pair
  <2>2. \A q, f : Ahead(q, f)' <=> Ahead(q, f)
    BY <1>1 DEF Ahead, Pair
  <2>3. \A x, y : Before(x, y)' <=> Before(x, y)
    BY <1>1 DEF Before
  <2> QED BY <1>7, <2>1, <2>2, <2>3 DEF BInv, OrderInv, Pairs
<1> QED BY <1>5, <1>6, <1>8, <1>9, <1>10, <1>11 DEF OnceInv

LEMMA EmissionStep ==
  ASSUME EventBusAssumption, BInv, NEW e \in Events, NEW named \in BOOLEAN, EmitTo(e, named),
         UNCHANGED <<store, subs, runs, cut, unmarked>>
  PROVE  RanInv' /\ NothingLost' /\ Serial' /\ OnceInv' /\ OrderInv'
<1> DEFINE new == DOMAIN tasks' \ DOMAIN tasks
<1>1. /\ tasks' \in Seq(Task) /\ DOMAIN tasks \subseteq DOMAIN tasks'
      /\ \A j \in DOMAIN tasks : tasks'[j] = tasks[j] /\ Pair(tasks'[j]) = Pair(tasks[j])
      /\ \A j \in new : tasks'[j].ev = e /\ tasks'[j].at = "wait" /\ \A k \in DOMAIN tasks : k < j
  BY EmissionAppends DEF BInv, Pair
<1>2. \A h \in subs : \E j \in DOMAIN tasks' : Pair(tasks'[j]) = <<e, h>>
  BY EmissionAppends DEF BInv
<1>3. \A j \in DOMAIN tasks' : /\ tasks'[j] \in Task /\ Pair(tasks'[j]) = <<tasks'[j].ev, tasks'[j].h>>
                               /\ tasks'[j].ev \in Events /\ Pair(tasks'[j]) \in Pairs
                               /\ j \in new => Pair(tasks'[j])[1] = e
  BY <1>1, TasksIndexed, TaskFields
<1>4. UNCHANGED <<wal, processed, dlq, runs, cut, unmarked>> /\ missed \subseteq missed'
  BY DEF EmitTo, store
<1>5. /\ \A x : Sent(x)' <=> Sent(x) \/ x = e
      /\ \A x, y : Before(x, y)' => Before(x, y) \/ (Sent(x) /\ y = e /\ ~Sent(e))
  BY EmissionSent DEF BInv
<1>6. ~Sent(e) => \A j \in DOMAIN tasks : tasks[j].ev # e
  BY DEF BInv, PublishInv
<1> HIDE DEF new
<1>7. DOMAIN tasks' = DOMAIN tasks \union new /\ \A j \in new : j \notin DOMAIN tasks
  BY <1>1 DEF new
<1>8. \A p : Settled(p) => Settled(p)'
  BY <1>1, <1>4 DEF Settled, Excused, DeadLettered
<1>9. \A p : Called(p) <=> \E j \in DOMAIN tasks : Pair(tasks[j]) = p
  BY DEF Called, ToSet
<1>10. RanInv'
  BY <1>1, <1>4, <1>7 DEF BInv, RanInv
<1>11. NothingLost'
  <2>1. \A p : Called(p)' <=> \E j \in DOMAIN tasks' : Pair(tasks'[j]) = p
    BY DEF Called, ToSet
  <2>2. \A p : Called(p) => Called(p)'
    BY <1>1, <1>9, <2>1
  <2>3. ASSUME NEW h \in Handlers PROVE Settled(<<e, h>>)' \/ Called(<<e, h>>)'
    <3>1. CASE h \in subs
      BY <1>2, <2>1, <3>1
    <3>2. CASE h \notin subs
      <4>1. <<e, h>> \in missed'
        BY <3>2 DEF EmitTo
      <4> QED BY <4>1 DEF Settled, Excused
    <3> QED BY <3>1, <3>2
  <2> QED BY <1>5, <1>8, <2>2, <2>3 DEF BInv, NothingLost
<1>12. Serial'
  <2>1. SUFFICES ASSUME NEW j \in DOMAIN tasks', tasks'[j].at \in {"run", "mark"} PROVE EntityFirst(j)'
    BY DEF Serial
  <2>2. j \in DOMAIN tasks
    BY <1>1, <1>7, <2>1
  <2>3. DOMAIN tasks = 1 .. Len(tasks) /\ Len(tasks) \in Nat
    BY TasksIndexed DEF BInv, BusTypeOK
  <2>4. \A k \in 1 .. (j - 1) : k \in DOMAIN tasks
    BY <2>2, <2>3
  <2>5. EntityFirst(j)
    BY <1>1, <2>1, <2>2 DEF BInv, Serial
  <2> QED BY <1>1, <2>2, <2>4, <2>5 DEF EntityFirst
<1>13. RunAccounted'
  <2>1. \A p \in Pairs : (\E i \in DOMAIN tasks : Pair(tasks[i]) = p /\ tasks[i].at = "mark")
                      => \E i \in DOMAIN tasks' : Pair(tasks'[i]) = p /\ tasks'[i].at = "mark"
    BY <1>1, <1>7
  <2> QED BY <1>4, <2>1 DEF BInv, OnceInv, RunAccounted
<1>14. RerunHasCause' /\ UnnamedMissed'
  BY <1>1, <1>4, <1>7 DEF BInv, OnceInv, RerunHasCause, UnnamedMissed
<1>15. OrderInv'
  <2>1. SUFFICES ASSUME NEW x \in Events, NEW y \in Events, Before(x, y)'
                 PROVE  /\ x # y
                        /\ SameEntity(x, y) => \A h \in Handlers :
                             /\ Settled(<<x, h>>)' \/ Ahead(<<x, h>>, y)'
                             /\ Begun(<<y, h>>)' => Settled(<<x, h>>)'
    BY DEF OrderInv, SameEntity
  <2>2. ASSUME NEW p, Begun(p)' PROVE Begun(p)
    BY <1>1, <1>4, <1>7, <2>2 DEF Begun
  <2>3. CASE Before(x, y)
    <3>1. ASSUME NEW h \in Handlers, Ahead(<<x, h>>, y) PROVE Ahead(<<x, h>>, y)'
      <4>1. PICK k \in DOMAIN tasks : Pair(tasks[k]) = <<x, h>> /\ \A l \in DOMAIN tasks : tasks[l].ev = y => k < l
        BY <3>1 DEF Ahead
      <4>2. \A l \in DOMAIN tasks' : tasks'[l].ev = y => k < l
        BY <1>1, <1>7, <4>1
      <4> QED BY <1>1, <4>1, <4>2 DEF Ahead
    <3>2. /\ x # y
          /\ SameEntity(x, y) => \A h \in Handlers :
               /\ Settled(<<x, h>>) \/ Ahead(<<x, h>>, y)
               /\ Begun(<<y, h>>) => Settled(<<x, h>>)
      BY <2>3 DEF BInv, OrderInv
    <3> QED BY <1>8, <2>2, <3>1, <3>2
  <2>4. CASE Sent(x) /\ y = e /\ ~Sent(e)
    <3>1. ASSUME NEW h \in Handlers PROVE ~Begun(<<e, h>>)'
      <4>1. runs[<<e, h>>] = 0 /\ <<e, h>> \notin dlq
        BY <2>4 DEF BInv, PublishInv
      <4>2. \A i \in DOMAIN tasks : Pair(tasks[i]) # <<e, h>>
        BY <1>6, <2>4 DEF Pair
      <4>3. ~Begun(<<e, h>>)
        BY <4>1, <4>2 DEF Begun
      <4> QED BY <2>2, <4>3
    <3>2. ASSUME NEW h \in Handlers, Called(<<x, h>>) PROVE Ahead(<<x, h>>, e)'
      <4>1. PICK k \in DOMAIN tasks : Pair(tasks[k]) = <<x, h>>
        BY <1>9, <3>2
      <4>2. \A l \in DOMAIN tasks' : tasks'[l].ev = e => k < l
        BY <1>1, <1>6, <1>7, <2>4
      <4> QED BY <1>1, <4>1, <4>2 DEF Ahead
    <3>3. \A h \in Handlers : Settled(<<x, h>>) \/ Called(<<x, h>>)
      BY <2>4 DEF BInv, NothingLost
    <3> QED BY <1>8, <2>4, <3>1, <3>2, <3>3
  <2> QED BY <1>5, <2>1, <2>3, <2>4
<1> QED BY <1>10, <1>11, <1>12, <1>13, <1>14, <1>15 DEF OnceInv

LEMMA EmitStep ==
  ASSUME EventBusAssumption, BInv, NEW e \in Events, Emit(e) \/ Recover(e)
  PROVE  PublishInv' /\ RanInv' /\ NothingLost' /\ Serial' /\ OnceInv' /\ OrderInv'
<1>1. UNCHANGED <<store, subs, runs, cut, unmarked>>
  BY DEF Emit, Recover
<1>2. PICK named \in BOOLEAN : EmitTo(e, named) /\ (named => wal[e] # "none")
  BY DEF BInv, PublishInv, Emit, Recover
<1>3. \A x : Sent(x)' <=> Sent(x) \/ x = e
  BY <1>2, EmissionSent DEF BInv
<1>4. \A j \in DOMAIN tasks' : /\ tasks'[j].ev \in ToSet(sent')
                               /\ tasks'[j].named => wal[tasks'[j].ev] # "none"
  <2>1. \A j \in DOMAIN tasks' : \/ tasks'[j].ev = e /\ tasks'[j].named = named
                                 \/ j \in DOMAIN tasks /\ tasks'[j] = tasks[j]
    BY <1>2, EmissionAppends DEF BInv
  <2>2. \A j \in DOMAIN tasks : Sent(tasks[j].ev) /\ (tasks[j].named => wal[tasks[j].ev] # "none")
    BY DEF BInv, PublishInv
  <2> QED BY <1>2, <1>3, <2>1, <2>2 DEF Sent
<1>5. PublishInv'
  <2>1. ASSUME NEW x \in Events
        PROVE  /\ pub'[x] = "marking" \/ wal'[x] = "dispatched" \/ x \in recovered' => Sent(x)'
               /\ pub'[x] = "new" => wal'[x] = "none" /\ ~Sent(x)'
               /\ pub'[x] \in {"stored", "marking"} \/ x \in backlog' \union recovered' => wal'[x] # "none"
    BY <1>3 DEF BInv, BusTypeOK, PublishInv, Emit, Recover, store, recovery
  <2>2. ASSUME NEW x \in Events, ~Sent(x)' PROVE \A h \in Handlers : runs'[<<x, h>>] = 0 /\ <<x, h>> \notin dlq'
    BY <1>1, <1>3, <2>2 DEF BInv, PublishInv, store
  <2>3. wal' = wal
    BY <1>1 DEF store
  <2> QED BY <1>4, <2>1, <2>2, <2>3 DEF PublishInv, Sent
<1> QED BY <1>1, <1>2, <1>5, EmissionStep

LEMMA RestartStep ==
  ASSUME BInv, NEW handlers \in SUBSET Handlers, Restart(handlers)
  PROVE  PublishInv' /\ RanInv' /\ NothingLost' /\ Serial' /\ OnceInv' /\ OrderInv'
<1>1. /\ tasks' = <<>> /\ DOMAIN tasks' = {} /\ UNCHANGED <<wal, processed, dlq, sent, runs, missed>>
      /\ backlog' = {} /\ recovered' = {} /\ unmarked \subseteq unmarked' /\ cut \subseteq cut'
  BY DEF Restart, store
<1>2. ASSUME NEW i \in DOMAIN tasks
      PROVE  IF tasks[i].at = "mark" THEN Pair(tasks[i]) \in unmarked' ELSE Pair(tasks[i]) \in cut'
  BY DEF Restart, ToSet
<1>3. PublishInv'
  <2>1. \A x \in Events : pub'[x] = IF pub[x] = "new" THEN "new" ELSE "over"
    BY DEF Restart
  <2> QED BY <1>1, <2>1 DEF BInv, PublishInv, Sent
<1>4. \A p \in Pairs : Settled(p) \/ Called(p) => Settled(p)'
  <2>1. SUFFICES ASSUME NEW p \in Pairs, Settled(p) \/ Called(p) PROVE Settled(p)'
    OBVIOUS
  <2>2. CASE \E i \in DOMAIN tasks : Pair(tasks[i]) = p
    BY <1>1, <1>2, <2>2 DEF BInv, RanInv, Settled, Excused
  <2>3. CASE ~\E i \in DOMAIN tasks : Pair(tasks[i]) = p
    BY <1>1, <2>1, <2>3 DEF Settled, Called, ToSet, Excused, DeadLettered
  <2> QED BY <2>2, <2>3
<1>5. RanInv' /\ Serial' /\ UnnamedMissed'
  BY <1>1 DEF BInv, RanInv, Serial, UnnamedMissed
<1>6. NothingLost'
  BY <1>1, <1>4 DEF BInv, NothingLost, Sent, Pairs
<1>7. RunAccounted' /\ RerunHasCause'
  BY <1>1, <1>2 DEF BInv, OnceInv, RunAccounted, RerunHasCause
<1>8. OrderInv'
  <2>1. \A p, f : Ahead(p, f) => Called(p)
    BY DEF Ahead, Called, ToSet
  <2>2. \A p : Begun(p)' => Begun(p)
    BY <1>1 DEF Begun
  <2>3. \A x, y : Before(x, y)' <=> Before(x, y)
    BY <1>1 DEF Before
  <2> QED BY <1>4, <2>1, <2>2, <2>3 DEF BInv, OrderInv, Pairs
<1> QED BY <1>3, <1>5, <1>6, <1>7, <1>8 DEF OnceInv

------------------------------------------------------------------------------
(* The steps of a call.                                                    *)

\* What a turn of call i does to the positions.
LEMMA TurnMoves ==
  ASSUME BInv, NEW i \in DOMAIN tasks, NEW up, NEW gone, NEW a, Turn(i, up, gone, a), tasks' \in Seq(Task)
  PROVE  /\ \A j \in DOMAIN tasks' :
              /\ up[j] \in DOMAIN tasks /\ up[j] # gone
              /\ tasks'[j].ev = tasks[up[j]].ev /\ Pair(tasks'[j]) = Pair(tasks[up[j]])
              /\ tasks'[j].named = tasks[up[j]].named
              /\ tasks'[j].at = IF up[j] = i THEN a ELSE tasks[up[j]].at
              /\ \A l \in DOMAIN tasks' : /\ j < l <=> up[j] < up[l]
                                          /\ up[j] = up[l] => j = l
         /\ \A k \in DOMAIN tasks : k # gone => \E j \in DOMAIN tasks' : up[j] = k
         /\ DOMAIN tasks' = 1 .. Len(tasks') /\ Len(tasks') \in Nat
         /\ DOMAIN tasks = 1 .. Len(tasks) /\ Len(tasks) \in Nat
<1>1. /\ DOMAIN tasks' = 1 .. Len(tasks') /\ Len(tasks') \in Nat
      /\ DOMAIN tasks = 1 .. Len(tasks) /\ Len(tasks) \in Nat
  BY TasksIndexed DEF BInv, BusTypeOK
<1>2. /\ up \in [DOMAIN tasks' -> DOMAIN tasks \ {gone}]
      /\ \A j, l \in DOMAIN tasks' : j < l <=> up[j] < up[l]
  BY DEF Turn, Moves
<1>3. ASSUME NEW j \in DOMAIN tasks', NEW l \in DOMAIN tasks', up[j] = up[l] PROVE j = l
  <2>1. ~(j < l) /\ ~(l < j)
    <3>1. up[j] \in Nat /\ ~(up[j] < up[j])
      BY <1>1, <1>2
    <3> QED BY <1>2, <1>3, <3>1
  <2> QED BY <1>1, <2>1
<1>4. /\ \A j \in DOMAIN tasks' : /\ tasks'[j].ev = tasks[up[j]].ev /\ Pair(tasks'[j]) = Pair(tasks[up[j]])
                                  /\ tasks'[j].named = tasks[up[j]].named
      /\ \A k \in DOMAIN tasks \ {gone} : \E j \in DOMAIN tasks' : up[j] = k
      /\ \A j \in DOMAIN tasks' : tasks'[j].at = IF up[j] = i THEN a ELSE tasks[up[j]].at
  BY DEF Turn, Moves
<1> QED BY <1>1, <1>2, <1>3, <1>4

\* What the statements of a call do to the tables and the history.
LEMMA CallEffects ==
  ASSUME BInv, NEW i \in DOMAIN tasks, NEW up, NEW gone, NEW a, Turn(i, up, gone, a),
         (gone = 0 /\ Stays(i, a)) \/ (gone = i /\ Leaves(i)), NEW p \in Pairs, p = Pair(tasks[i])
  PROVE  /\ UNCHANGED <<pub, wal, subs, recovery, sent, missed>>
         /\ processed \subseteq processed' /\ processed' \subseteq processed \union {p}
         /\ dlq \subseteq dlq' /\ dlq' \subseteq dlq \union {p}
         /\ cut \subseteq cut' /\ unmarked \subseteq unmarked'
         /\ p \in processed' => runs'[p] > 0
         /\ \A q \in Pairs : /\ q # p => runs'[q] = runs[q]
                             /\ runs[q] > 0 => runs'[q] > 0
         /\ a = "mark" /\ gone = 0 => runs'[p] > 0
         /\ runs' = runs \/ (Complete(i) /\ a = "mark" /\ gone = 0 /\ (runs'[p] > 1 => runs[p] > 0))
         /\ \A q \in Pairs : Settled(q) => Settled(q)'
         /\ gone = i => Settled(p)'
<1>1. UNCHANGED <<pub, wal, subs, recovery, sent, missed>>
  BY DEF Stays, Leaves, Begin, Complete, Throw, Mark, Bury, store, history
<1>2. /\ processed \subseteq processed' /\ processed' \subseteq processed \union {p}
      /\ dlq \subseteq dlq' /\ dlq' \subseteq dlq \union {p}
      /\ cut \subseteq cut' /\ unmarked \subseteq unmarked'
  BY DEF Stays, Leaves, Begin, Complete, Throw, Mark, Bury, store, history
<1>3. /\ \A q \in Pairs : /\ q # p => runs'[q] = runs[q]
                          /\ runs[q] > 0 => runs'[q] > 0
      /\ a = "mark" /\ gone = 0 => runs'[p] > 0
      /\ runs' = runs \/ (Complete(i) /\ a = "mark" /\ gone = 0 /\ (runs'[p] > 1 => runs[p] > 0))
  <2>1. CASE Complete(i) /\ a = "mark" /\ gone = 0
    BY <2>1, RanTypes DEF Complete, BInv
  <2>2. CASE ~(Complete(i) /\ a = "mark" /\ gone = 0)
    <3>1. runs' = runs
      BY <2>2 DEF Stays, Leaves, Begin, Throw, Mark, Bury, history
    <3>2. ~(a = "mark" /\ gone = 0)
      <4>1. i # 0
        BY TasksIndexed DEF BInv, BusTypeOK
      <4> QED BY <2>2, <4>1 DEF Stays
    <3> QED BY <3>1, <3>2
  <2> QED BY <2>1, <2>2
<1>4. p \in processed' => runs'[p] > 0
  <2>1. p \in processed => runs[p] > 0
    BY DEF BInv, RanInv
  <2>2. p \in processed' => p \in processed \/ tasks[i].at = "mark"
    BY DEF Stays, Leaves, Begin, Complete, Throw, Mark, Bury, store
  <2>3. tasks[i].at = "mark" => runs[p] > 0
    BY DEF BInv, RanInv
  <2> QED BY <1>3, <2>1, <2>2, <2>3
<1>5. gone = i => Settled(p)'
  <2>1. SUFFICES ASSUME gone = i PROVE Settled(p)'
    OBVIOUS
  <2>2. Leaves(i)
    <3>1. i # 0
      BY TasksIndexed DEF BInv, BusTypeOK
    <3> QED BY <2>1, <3>1
  <2>3. CASE Mark(i) \/ AlreadyProcessed(tasks[i])
    <3>1. runs[p] > 0
      BY <2>3 DEF BInv, RanInv, Mark, AlreadyProcessed
    <3> QED BY <1>3, <3>1 DEF Settled
  <2>4. CASE Bury(i)
    BY <2>4 DEF Bury, Settled, Excused, DeadLettered
  <2> QED BY <2>2, <2>3, <2>4 DEF Leaves
<1>6. ASSUME NEW q \in Pairs, Settled(q) PROVE Settled(q)'
  <2>1. CASE runs[q] > 0 \/ q \in dlq \/ q \in cut \union missed
    BY <1>1, <1>2, <1>3, <2>1 DEF Settled, Excused, DeadLettered
  <2>2. CASE \E k \in DOMAIN tasks : Pair(tasks[k]) = q /\ tasks[k].at = "bury"
    <3>1. PICK k \in DOMAIN tasks : Pair(tasks[k]) = q /\ tasks[k].at = "bury"
      BY <2>2
    <3>2. CASE gone = k
      <4>1. k = i
        BY <3>2, TasksIndexed DEF BInv, BusTypeOK
      <4> QED BY <1>5, <3>1, <3>2, <4>1
    <3>3. CASE gone # k
      <4>1. PICK j \in DOMAIN tasks' : up[j] = k
        BY <3>3 DEF Turn, Moves
      <4>2. k # i
        <5>1. tasks[i].at = "bury" => ~Stays(i, a)
          BY DEF Stays, Begin, Complete, Throw
        <5> QED BY <3>1, <3>3, <5>1
      <4>3. Pair(tasks'[j]) = q /\ tasks'[j].at = "bury"
        BY <3>1, <4>1, <4>2 DEF Turn, Moves
      <4> QED BY <4>3 DEF Settled, Excused, DeadLettered
    <3> QED BY <3>2, <3>3
  <2> QED BY <1>6, <2>1, <2>2 DEF Settled, Excused, DeadLettered
<1> QED BY <1>1, <1>2, <1>3, <1>4, <1>5, <1>6

\* Of the calls of one entity that are no dead letters, only one can be its first.
LEMMA OneFirst ==
  ASSUME BInv, NEW i \in DOMAIN tasks, NEW j \in DOMAIN tasks, EntityFirst(i), EntityFirst(j),
         tasks[i].at # "bury", tasks[j].at # "bury",
         EntityOf[tasks[i].ev] = EntityOf[tasks[j].ev], EntityOf[tasks[i].ev] # NoEntity
  PROVE  i = j
<1>1. DOMAIN tasks = 1 .. Len(tasks) /\ Len(tasks) \in Nat
  BY TasksIndexed DEF BInv, BusTypeOK
<1>2. j \notin 1 .. (i - 1) /\ i \notin 1 .. (j - 1)
  BY DEF EntityFirst
<1> QED BY <1>1, <1>2

LEMMA CallStep ==
  ASSUME BInv, NEW i \in DOMAIN tasks, Begin(i) \/ Complete(i) \/ Throw(i) \/ Mark(i) \/ Bury(i)
  PROVE  PublishInv' /\ RanInv' /\ NothingLost' /\ Serial' /\ OnceInv' /\ OrderInv'
<1>1. /\ tasks' \in Seq(Task)
      /\ \E up, gone, a : /\ Turn(i, up, gone, a)
                          /\ \/ gone = 0 /\ Stays(i, a)
                             \/ gone = i /\ Leaves(i)
  BY CallTurns DEF BInv
<1>2. PICK up, gone, a : Turn(i, up, gone, a) /\ ((gone = 0 /\ Stays(i, a)) \/ (gone = i /\ Leaves(i)))
  BY <1>1
<1>3. /\ \A j \in DOMAIN tasks' :
           /\ up[j] \in DOMAIN tasks /\ up[j] # gone
           /\ tasks'[j].ev = tasks[up[j]].ev /\ Pair(tasks'[j]) = Pair(tasks[up[j]])
           /\ tasks'[j].named = tasks[up[j]].named
           /\ tasks'[j].at = IF up[j] = i THEN a ELSE tasks[up[j]].at
           /\ \A l \in DOMAIN tasks' : /\ j < l <=> up[j] < up[l]
                                       /\ up[j] = up[l] => j = l
      /\ \A k \in DOMAIN tasks : k # gone => \E j \in DOMAIN tasks' : up[j] = k
      /\ DOMAIN tasks' = 1 .. Len(tasks') /\ Len(tasks') \in Nat
      /\ DOMAIN tasks = 1 .. Len(tasks) /\ Len(tasks) \in Nat
  BY <1>1, <1>2, TurnMoves
<1>4. \A j \in DOMAIN tasks : tasks[j].ev \in Events /\ Pair(tasks[j]) = <<tasks[j].ev, tasks[j].h>> /\ Pair(tasks[j]) \in Pairs
  BY TasksIndexed, TaskFields DEF BInv, BusTypeOK
<1>5. PICK p \in Pairs : p = Pair(tasks[i]) /\ p[1] = tasks[i].ev
  BY <1>4
<1>6. /\ UNCHANGED <<pub, wal, subs, recovery, sent, missed>>
      /\ processed \subseteq processed' /\ processed' \subseteq processed \union {p}
      /\ dlq \subseteq dlq' /\ dlq' \subseteq dlq \union {p}
      /\ cut \subseteq cut' /\ unmarked \subseteq unmarked'
      /\ p \in processed' => runs'[p] > 0
      /\ \A q \in Pairs : /\ q # p => runs'[q] = runs[q]
                          /\ runs[q] > 0 => runs'[q] > 0
      /\ a = "mark" /\ gone = 0 => runs'[p] > 0
      /\ runs' = runs \/ (Complete(i) /\ a = "mark" /\ gone = 0 /\ (runs'[p] > 1 => runs[p] > 0))
      /\ \A q \in Pairs : Settled(q) => Settled(q)'
      /\ gone = i => Settled(p)'
  BY <1>2, <1>5, CallEffects
<1>7. i # 0
  BY <1>3
<1>8. PublishInv'
  <2>1. ASSUME NEW x \in Events, ~Sent(x)
        PROVE  \A h \in Handlers : runs'[<<x, h>>] = 0 /\ <<x, h>> \notin dlq'
    <3>1. Sent(p[1])
      BY <1>5 DEF BInv, PublishInv
    <3>2. \A h \in Handlers : <<x, h>> \in Pairs /\ <<x, h>> # p
      BY <2>1, <3>1 DEF Pairs
    <3> QED BY <1>6, <2>1, <3>2 DEF BInv, PublishInv
  <2>2. \A j \in DOMAIN tasks' : /\ tasks'[j].ev \in ToSet(sent)
                                 /\ tasks'[j].named => wal[tasks'[j].ev] # "none"
    BY <1>3 DEF BInv, PublishInv, Sent
  <2> QED BY <1>6, <2>1, <2>2 DEF BInv, PublishInv, Sent, recovery
<1>9. RanInv'
  <2>1. \A q \in processed' : runs'[q] > 0
    BY <1>6 DEF BInv, BusTypeOK, RanInv
  <2>2. ASSUME NEW j \in DOMAIN tasks', tasks'[j].at = "mark" PROVE runs'[Pair(tasks'[j])] > 0
    <3>1. CASE up[j] = i
      <4>1. a = "mark" /\ gone = 0
        BY <1>2, <1>3, <2>2, <3>1
      <4> QED BY <1>3, <1>5, <1>6, <3>1, <4>1
    <3>2. CASE up[j] # i
      <4>1. runs[Pair(tasks[up[j]])] > 0
        BY <1>3, <2>2, <3>2 DEF BInv, RanInv
      <4> QED BY <1>3, <1>4, <1>6, <4>1
    <3> QED BY <3>1, <3>2
  <2> QED BY <2>1, <2>2 DEF RanInv
<1>10. NothingLost'
  <2>1. ASSUME NEW x \in Events, NEW h \in Handlers, Sent(x), ~Settled(<<x, h>>)' PROVE Called(<<x, h>>)'
    <3>1. <<x, h>> \in Pairs /\ ~Settled(<<x, h>>)
      BY <1>6, <2>1 DEF Pairs
    <3>2. PICK k \in DOMAIN tasks : Pair(tasks[k]) = <<x, h>>
      BY <2>1, <3>1 DEF BInv, NothingLost, Called, ToSet
    <3>3. k # gone
      BY <1>2, <1>3, <1>5, <1>6, <2>1, <3>2
    <3>4. PICK j \in DOMAIN tasks' : up[j] = k
      BY <1>3, <3>3
    <3>5. Pair(tasks'[j]) = <<x, h>>
      BY <1>3, <3>2, <3>4
    <3> QED BY <3>5 DEF Called, ToSet
  <2> QED BY <1>6, <2>1 DEF NothingLost, Sent
<1>11. Stays(i, a) /\ a \in {"run", "mark"} => EntityFirst(i)
  BY DEF Stays, Begin, Complete, BInv, Serial
<1>12. Serial'
  <2>1. SUFFICES ASSUME NEW j \in DOMAIN tasks', tasks'[j].at \in {"run", "mark"} PROVE EntityFirst(j)'
    BY DEF Serial
  <2>2. EntityFirst(up[j])
    <3>1. CASE up[j] = i
      <4>1. a \in {"run", "mark"} /\ gone = 0 /\ Stays(i, a)
        BY <1>2, <1>3, <2>1, <3>1
      <4> QED BY <1>11, <3>1, <4>1
    <3>2. CASE up[j] # i
      BY <1>3, <2>1, <3>2 DEF BInv, Serial
    <3> QED BY <3>1, <3>2
  <2>3. CASE EntityOf[tasks[up[j]].ev] = NoEntity
    BY <1>3, <2>3 DEF EntityFirst
  <2>4. CASE EntityOf[tasks[up[j]].ev] # NoEntity
    <3>1. SUFFICES ASSUME NEW k \in 1 .. (j - 1)
                   PROVE  tasks'[k].at = "bury" \/ EntityOf[tasks'[k].ev] # EntityOf[tasks'[j].ev]
      BY DEF EntityFirst
    <3>2. k \in DOMAIN tasks' /\ k < j
      BY <1>3
    <3>3. up[k] \in 1 .. (up[j] - 1)
      BY <1>3, <3>2
    <3>4. tasks[up[k]].at = "bury" \/ EntityOf[tasks[up[k]].ev] # EntityOf[tasks[up[j]].ev]
      BY <2>2, <2>4, <3>3 DEF EntityFirst
    <3>5. tasks[i].at = "bury" => ~Stays(i, a)
      BY DEF Stays, Begin, Complete, Throw
    <3>6. tasks[up[k]].at = "bury" => tasks'[k].at = "bury"
      BY <1>2, <1>3, <3>2, <3>5
    <3> QED BY <1>3, <3>2, <3>4, <3>6
  <2> QED BY <2>3, <2>4
<1>13. ASSUME Begin(i), EntityOf[p[1]] # NoEntity, runs[p] > 0
       PROVE  p \in processed \union unmarked \union dlq
  <2>1. tasks[i].at = "wait" /\ EntityFirst(i)
    BY <1>13 DEF Begin
  <2>2. ASSUME NEW j \in DOMAIN tasks, Pair(tasks[j]) = p, tasks[j].at = "mark" PROVE FALSE
    <3>1. EntityFirst(j) /\ tasks[j].ev = tasks[i].ev
      BY <1>4, <1>5, <2>2 DEF BInv, Serial
    <3>2. j = i
      BY <1>5, <1>13, <2>1, <2>2, <3>1, OneFirst
    <3> QED BY <2>1, <2>2, <3>2
  <2> QED BY <1>13, <2>2 DEF BInv, OnceInv, RunAccounted
<1>14. RunAccounted'
  <2>1. SUFFICES ASSUME NEW q \in Pairs, EntityOf[q[1]] # NoEntity, runs'[q] > 0
                 PROVE  \/ q \in processed' \union unmarked' \union dlq'
                        \/ \E j \in DOMAIN tasks' : Pair(tasks'[j]) = q /\ tasks'[j].at = "mark"
    BY <1>6 DEF RunAccounted
  <2>2. CASE gone = 0 /\ a = "mark" /\ q = p
    <3>1. gone = 0 /\ a = "mark"
      BY <2>2
    <3>2. PICK j \in DOMAIN tasks' : up[j] = i
      BY <1>3, <1>7, <3>1
    <3> QED BY <1>3, <1>5, <2>2, <3>1, <3>2
  <2>3. CASE ~(gone = 0 /\ a = "mark" /\ q = p)
    <3>1. runs[q] > 0
      BY <1>6, <2>1, <2>3
    <3>2. CASE q \in processed \union unmarked \union dlq
      BY <1>6, <3>2
    <3>3. CASE \E k \in DOMAIN tasks : Pair(tasks[k]) = q /\ tasks[k].at = "mark"
      <4>1. PICK k \in DOMAIN tasks : Pair(tasks[k]) = q /\ tasks[k].at = "mark"
        BY <3>3
      <4>2. CASE k = i
        <5>1. Mark(i)
          BY <4>1, <4>2 DEF Begin, Complete, Throw, Bury
        <5>2. q = p
          BY <1>5, <4>1, <4>2
        <5>3. ~tasks[i].named => p \in unmarked
          BY <1>5, <4>1, <4>2 DEF BInv, OnceInv, UnnamedMissed
        <5> QED BY <1>5, <1>6, <5>1, <5>2, <5>3 DEF Mark, Accepts
      <4>3. CASE k # i
        <5>1. k # gone
          BY <1>2, <1>3, <4>3
        <5>2. PICK j \in DOMAIN tasks' : up[j] = k
          BY <1>3, <5>1
        <5> QED BY <1>3, <4>1, <4>3, <5>2
      <4> QED BY <4>2, <4>3
    <3> QED BY <2>1, <3>1, <3>2, <3>3 DEF BInv, OnceInv, RunAccounted
  <2> QED BY <2>2, <2>3
<1>15. RerunHasCause'
  <2>1. ASSUME NEW j \in DOMAIN tasks', EntityOf[tasks'[j].ev] # NoEntity, tasks'[j].at = "run",
               runs'[Pair(tasks'[j])] > 0
        PROVE  Pair(tasks'[j]) \in unmarked' \union dlq'
    <3>1. CASE up[j] = i
      <4>1. Begin(i) /\ Pair(tasks'[j]) = p /\ EntityOf[p[1]] # NoEntity /\ Stays(i, a)
        BY <1>2, <1>3, <1>5, <2>1, <3>1 DEF Stays
      <4>2. runs' = runs
        BY <4>1 DEF Begin
      <4>3. p \in processed => p \in unmarked'
        BY <1>5, <4>1 DEF AlreadyProcessed, Stays, Begin, Complete, Throw
      <4> QED BY <1>6, <1>13, <2>1, <4>1, <4>2, <4>3
    <3>2. CASE up[j] # i
      <4>1. tasks[up[j]].at = "run" /\ EntityOf[tasks[up[j]].ev] # NoEntity /\ up[j] \in DOMAIN tasks
        BY <1>3, <2>1, <3>2
      <4>2. PICK q \in Pairs : q = Pair(tasks'[j]) /\ q = Pair(tasks[up[j]])
        BY <1>3, <1>4
      <4>3. CASE runs[q] > 0
        BY <1>6, <4>1, <4>2, <4>3 DEF BInv, OnceInv, RerunHasCause
      <4>4. CASE ~(runs[q] > 0)
        <5>1. Complete(i) /\ q = p
          BY <1>6, <2>1, <4>2, <4>4
        <5>2. tasks[i].at = "run" /\ EntityFirst(i) /\ EntityFirst(up[j])
          BY <4>1, <5>1 DEF Complete, BInv, Serial
        <5>3. tasks[i].ev = tasks[up[j]].ev
          <6>1. Pair(tasks[up[j]])[1] = tasks[up[j]].ev
            BY <1>4, <4>1
          <6> QED BY <1>5, <4>2, <5>1, <6>1
        <5> QED BY <3>2, <4>1, <5>2, <5>3, OneFirst
      <4> QED BY <4>3, <4>4
    <3> QED BY <3>1, <3>2
  <2>2. ASSUME NEW q \in Pairs, EntityOf[q[1]] # NoEntity, runs'[q] > 1 PROVE q \in unmarked' \union dlq'
    <3>1. CASE runs[q] > 1
      BY <1>6, <2>2, <3>1 DEF BInv, OnceInv, RerunHasCause
    <3>2. CASE ~(runs[q] > 1)
      <4>1. Complete(i) /\ q = p /\ runs[p] > 0
        BY <1>6, <2>2, <3>2
      <4> QED BY <1>5, <1>6, <2>2, <4>1 DEF BInv, OnceInv, RerunHasCause, Complete
    <3> QED BY <3>1, <3>2
  <2> QED BY <2>1, <2>2 DEF RerunHasCause
<1>16. UnnamedMissed'
  <2>1. SUFFICES ASSUME NEW j \in DOMAIN tasks', ~tasks'[j].named, tasks'[j].at \in {"run", "mark"}
                 PROVE  Pair(tasks'[j]) \in unmarked'
    BY DEF UnnamedMissed
  <2>2. CASE up[j] = i
    <3>1. ~tasks[i].named /\ Pair(tasks'[j]) = p /\ gone = 0 /\ Stays(i, a) /\ a \in {"run", "mark"}
      BY <1>2, <1>3, <1>5, <2>1, <2>2
    <3>2. CASE tasks[i].at = "run"
      BY <1>5, <1>6, <3>1, <3>2 DEF BInv, OnceInv, UnnamedMissed
    <3>3. CASE tasks[i].at # "run"
      BY <1>5, <3>1, <3>3 DEF Stays, Complete
    <3> QED BY <3>2, <3>3
  <2>3. CASE up[j] # i
    BY <1>3, <1>6, <2>1, <2>3 DEF BInv, OnceInv, UnnamedMissed
  <2> QED BY <2>2, <2>3
<1>17. OrderInv'
  <2>1. SUFFICES ASSUME NEW x \in Events, NEW y \in Events, Before(x, y)
                 PROVE  /\ x # y
                        /\ SameEntity(x, y) => \A h \in Handlers :
                             /\ Settled(<<x, h>>)' \/ Ahead(<<x, h>>, y)'
                             /\ Begun(<<y, h>>)' => Settled(<<x, h>>)'
    BY <1>6 DEF OrderInv, SameEntity, Before
  <2>2. SUFFICES ASSUME SameEntity(x, y), NEW h \in Handlers
                 PROVE  /\ Settled(<<x, h>>)' \/ Ahead(<<x, h>>, y)'
                        /\ Begun(<<y, h>>)' => Settled(<<x, h>>)'
    BY <2>1 DEF BInv, OrderInv
  <2>3. /\ Settled(<<x, h>>) \/ Ahead(<<x, h>>, y)
        /\ Begun(<<y, h>>) => Settled(<<x, h>>)
    BY <2>1, <2>2 DEF BInv, OrderInv
  <2>4. /\ <<x, h>> \in Pairs /\ <<y, h>> \in Pairs
        /\ Settled(<<x, h>>) => Settled(<<x, h>>)'
    BY <1>6 DEF Pairs
  <2>5. ASSUME ~Settled(<<x, h>>)' PROVE Ahead(<<x, h>>, y)'
    <3>1. PICK k \in DOMAIN tasks : Pair(tasks[k]) = <<x, h>> /\ \A l \in DOMAIN tasks : tasks[l].ev = y => k < l
      BY <2>3, <2>4, <2>5 DEF Ahead
    <3>2. k # gone
      BY <1>2, <1>3, <1>5, <1>6, <2>5, <3>1
    <3>3. PICK j \in DOMAIN tasks' : up[j] = k
      BY <1>3, <3>2
    <3>4. \A l \in DOMAIN tasks' : tasks'[l].ev = y => j < l
      BY <1>3, <3>1, <3>3
    <3>5. Pair(tasks'[j]) = <<x, h>>
      BY <1>3, <3>1, <3>3
    <3> QED BY <3>4, <3>5 DEF Ahead
  <2>6. ASSUME Begun(<<y, h>>)', ~Settled(<<x, h>>) PROVE FALSE
    <3>1. PICK k \in DOMAIN tasks : Pair(tasks[k]) = <<x, h>> /\ \A l \in DOMAIN tasks : tasks[l].ev = y => k < l
      BY <2>3, <2>6 DEF Ahead
    <3>2. tasks[k].at # "bury"
      BY <2>6, <3>1 DEF Settled, Excused, DeadLettered
    <3>3. ASSUME NEW l \in DOMAIN tasks, tasks[l].ev = y PROVE ~EntityFirst(l)
      <4>1. k \in 1 .. (l - 1)
        BY <1>3, <3>1, <3>3
      <4>2. tasks[k].ev = x
        BY <1>4, <3>1
      <4> QED BY <2>2, <3>2, <3>3, <4>1, <4>2 DEF EntityFirst, SameEntity
    <3>4. ~Begun(<<y, h>>)
      BY <2>3, <2>6
    <3>5. ~(Begin(i) \/ Complete(i) \/ Mark(i)) \/ p # <<y, h>>
      BY <1>4, <1>5, <3>3, <3>4 DEF Begun, Begin, Complete, Mark, BInv, Serial
    <3>6. ~(Throw(i) \/ Bury(i)) \/ p # <<y, h>>
      BY <1>5, <3>4 DEF Begun, Throw, Bury
    <3>7. p # <<y, h>>
      BY <3>5, <3>6
    <3>8. ~(runs'[<<y, h>>] > 0) /\ <<y, h>> \notin dlq'
      BY <1>6, <2>4, <3>4, <3>7 DEF Begun
    <3>9. ASSUME NEW j \in DOMAIN tasks', Pair(tasks'[j]) = <<y, h>>, tasks'[j].at # "wait" PROVE FALSE
      <4>1. up[j] # i /\ up[j] \in DOMAIN tasks /\ Pair(tasks[up[j]]) = <<y, h>>
        BY <1>3, <1>5, <3>7, <3>9
      <4>2. tasks[up[j]].at # "wait"
        BY <1>3, <3>9, <4>1
      <4> QED BY <3>4, <4>1, <4>2 DEF Begun
    <3> QED BY <2>6, <3>8, <3>9 DEF Begun
  <2> QED BY <2>4, <2>5, <2>6
<1> QED BY <1>8, <1>9, <1>10, <1>12, <1>14, <1>15, <1>16, <1>17 DEF OnceInv

------------------------------------------------------------------------------
(* The results.                                                            *)

LEMMA InvStep ==
  ASSUME EventBusAssumption, BInv, [Next]_vars PROVE BInv'
<1>1. BusTypeOK'
  BY TypesStep DEF BInv
<1>2. CASE UNCHANGED vars
  <2>1. RanInv' /\ NothingLost' /\ Serial' /\ OnceInv' /\ OrderInv'
    BY <1>2, TablesStep DEF vars, store, memory
  <2>2. PublishInv'
    BY <1>2 DEF BInv, PublishInv, Sent, vars, store, memory, recovery, history
  <2> QED BY <1>1, <2>1, <2>2 DEF BInv
<1>3. CASE Next
  <2>1. ASSUME NEW e \in Events, Persist(e) \/ Emit(e) \/ MarkDispatched(e) \/ Recover(e) PROVE BInv'
    BY <1>1, <2>1, PersistStep, EmitStep, MarkDispatchedStep DEF BInv
  <2>2. CASE StartRecovery \/ MarkRecovered
    BY <1>1, <2>2, RecoveryStep DEF BInv
  <2>3. ASSUME NEW i \in DOMAIN tasks, Begin(i) \/ Complete(i) \/ Throw(i) \/ Mark(i) \/ Bury(i) PROVE BInv'
    BY <1>1, <2>3, CallStep DEF BInv
  <2>4. ASSUME NEW p \in Pairs, RetryDeadLetter(p) PROVE BInv'
    BY <1>1, <2>4, RetryStep DEF BInv
  <2>5. ASSUME NEW handlers \in SUBSET Handlers, Restart(handlers) PROVE BInv'
    BY <1>1, <2>5, RestartStep DEF BInv
  <2> QED BY <1>3, <2>1, <2>2, <2>3, <2>4, <2>5 DEF Next
<1> QED BY <1>2, <1>3

\* The inductive invariant: where each event stands, what of it is settled or still to
\* be called, and that calls of an entity wait for one another in the order of emission.
THEOREM BusInvariance == Spec => []BInv
<1>1. Init => BInv
  BY InvInit, EventBusAssumption
<1>2. BInv /\ [Next]_vars => BInv'
  BY InvStep, EventBusAssumption
<1> QED BY <1>1, <1>2, PTL DEF Spec

\* Every variable keeps its type: a row of the idempotency log or of the dead letters is
\* always of a stored event.
THEOREM BusTypes == Spec => []BusTypeOK
<1>1. BInv => BusTypeOK
  BY DEF BInv
<1> QED BY <1>1, BusInvariance, PTL

\* No handler loses an event without a cause the code leaves open: what was emitted, or
\* is marked dispatched, has been handled, is still to be, has a dead letter, or fell
\* to a crash, a failing insert or a build without the handler.
THEOREM NothingLostUnexplained == Spec => []LossHasCause
<1>1. BInv => LossHasCause
  BY DEF BInv, PublishInv, NothingLost, LossHasCause, Settled, Sent
<1> QED BY <1>1, BusInvariance, PTL

\* A handler never handles the later of two events of an entity before the earlier,
\* save for a dead letter or a loss: the queue of an entity in the event bus keeps the
\* order of emission through recovery, retries and restarts.
THEOREM OrderIsKept == Spec => []NoOvertaking
<1>1. BInv => NoOvertaking
  <2>1. SUFFICES ASSUME BInv, NEW i \in DOMAIN sent, NEW j \in DOMAIN sent, i < j,
                        EntityOf[sent[i]] = EntityOf[sent[j]], EntityOf[sent[i]] # NoEntity,
                        NEW h \in Handlers, runs[<<sent[j], h>>] > 0
                 PROVE  runs[<<sent[i], h>>] > 0 \/ Excused(<<sent[i], h>>)
    BY DEF NoOvertaking
  <2>2. sent[i] \in Events /\ sent[j] \in Events
    <3>1. sent \in Seq(Events)
      BY <2>1 DEF BInv, BusTypeOK
    <3> QED BY <3>1, ElementOfSeq, LenProperties
  <2>3. Before(sent[i], sent[j]) /\ SameEntity(sent[i], sent[j])
    BY <2>1 DEF Before, SameEntity
  <2>4. Begun(<<sent[j], h>>)
    BY <2>1 DEF Begun
  <2> QED BY <2>1, <2>2, <2>3, <2>4 DEF BInv, OrderInv, Settled
<1> QED BY <1>1, BusInvariance, PTL

\* A handler completes an event of an entity twice only where the idempotency log failed
\* to tell of a run or the event has a dead letter.
THEOREM RerunsExplained == Spec => []OnceHasCause
<1>1. BInv => OnceHasCause
  BY DEF BInv, OnceInv, RerunHasCause, OnceHasCause, DeadLettered
<1> QED BY <1>1, BusInvariance, PTL
===============================================================================
