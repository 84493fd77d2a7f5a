--------------------------- MODULE DeadLettersProofs ---------------------------
(* Proofs about the dead letters, for any rows, passes and bounds. *)
EXTENDS DeadLetters, FiniteSetTheorems, WellFoundedInduction, TLAPS

\* A pass that is at work has a row in hand, each row once.
WorkInv ==
  \A p \in Passes :
    /\ pc[p] = "idle" <=> todo[p] = {}
    /\ \A x, y \in todo[p] : x.row = y.row => x = y

\* A count of tries, in the table or in the hands of a pass, never exceeds the
\* calls of the handler; where a pass is about to count one more, it was made.
SpentInv ==
  /\ \A k \in Rows : tries[k] <= spent[k]
  /\ \A p \in Passes : \A x \in todo[p] : x.tries <= spent[x.row]
  /\ \A p \in Passes : pc[p] \in {"good", "bad"} => TriesAfter(p) <= spent[Current(p)]
  /\ \A p \in Passes : pc[p] = "good" => Current(p) \in done

\* What a call of the route is about to resolve was given to publish() anew.
RedoInv == \A u \in Redos : redo[u] \subseteq done \union refused

\* A row that was never in the hands of two is in the hands of one at most, and
\* pending while it is.
HeldInv ==
  \A k \in Rows \ shared :
    /\ \A p, q \in Holders(k) : p = q
    /\ Holders(k) # {} => status[k] = "pending"

TriesInv == DeadTypeOK /\ WorkInv /\ SpentInv /\ RedoInv /\ SettledByTries

------------------------------------------------------------------------------

\* A set of natural numbers has a least one.
LEMMA LeastNatural ==
  ASSUME NEW T \in SUBSET Nat, T # {} PROVE \E x \in T : \A y \in T : x <= y
<1> DEFINE R == {ss \in Nat \X Nat : ss[1] < ss[2]}
<1>1. IsWellFoundedOn(R, Nat)
  BY NatLessThanWellFounded DEF OpToRel
<1> HIDE DEF R
<1>2. PICK x \in T : \A y \in T : ~ (<<y, x>> \in R)
  BY <1>1, WFMin
<1>3. \A y \in T : x <= y
  <2> SUFFICES ASSUME NEW y \in T, ~ (x <= y) PROVE FALSE
    OBVIOUS
  <2>1. x \in Nat /\ y \in Nat /\ y < x
    OBVIOUS
  <2>2. <<y, x>> \in R
    BY <2>1 DEF R
  <2> QED BY <2>2, <1>2
<1> QED BY <1>3

\* The row a pass works on is one it has in hand.
LEMMA FirstInHand ==
  ASSUME DeadTypeOK, NEW p \in Passes, todo[p] # {}
  PROVE  First(p) \in todo[p] /\ Current(p) \in Rows
<1> DEFINE T == {x.row : x \in todo[p]}
<1>1. \A x \in todo[p] : x.row \in Rows /\ x.row \in Nat
  <2> SUFFICES ASSUME NEW x \in todo[p] PROVE x.row \in Rows
    BY DeadLettersAssumption
  <2>1. x \in [row : Rows, tries : 0 .. (MaxRetries - 1)]
    BY DEF DeadTypeOK
  <2> QED BY <2>1
<1>2. PICK n \in T : \A m \in T : n <= m
  <2>1. T \in SUBSET Nat
    BY <1>1
  <2>2. PICK x \in todo[p] : TRUE
    OBVIOUS
  <2>3. x.row \in T
    BY <2>2
  <2> HIDE DEF T
  <2> QED BY <2>1, <2>3, LeastNatural
<1>3. PICK x \in todo[p] : x.row = n
  BY <1>2
<1>4. \A y \in todo[p] : x.row <= y.row
  BY <1>2, <1>3
<1>5. First(p) \in todo[p]
  BY <1>4 DEF First
<1> QED BY <1>1, <1>5 DEF Current

\* What a pass reads: rows with their present counts, at least one.
LEMMA PassReads ==
  ASSUME NEW due \in SUBSET Retriable, due # {}
  PROVE  Oldest(due) # {} /\ Oldest(due) \subseteq due
<1>1. due \in SUBSET Nat
  BY DeadLettersAssumption DEF Retriable
<1>2. PICK k \in due : \A j \in due : k <= j
  BY <1>1, LeastNatural
<1>3. {j \in due : j < k} = {}
  <2>1. \A j \in due : j \in Nat /\ k \in Nat /\ k <= j
    BY <1>1, <1>2
  <2>2. \A j \in due : ~ (j < k)
    BY <2>1
  <2> QED BY <2>2
<1>4. Cardinality({j \in due : j < k}) < Limit
  BY <1>3, FS_EmptySet, DeadLettersAssumption
<1> QED BY <1>4 DEF Oldest

------------------------------------------------------------------------------

\* Counting a try keeps the count within the row's limit.
LEMMA CountTyped ==
  ASSUME DeadTypeOK, NEW p \in Passes, todo[p] # {}
  PROVE  First(p).tries \in Nat /\ TriesAfter(p) \in 0 .. MaxRetries
<1>1. First(p) \in [row : Rows, tries : 0 .. (MaxRetries - 1)]
  BY FirstInHand DEF DeadTypeOK
<1>2. First(p).tries \in 0 .. (MaxRetries - 1)
  BY <1>1
<1> QED BY <1>2, DeadLettersAssumption DEF TriesAfter

LEMMA TypeStep ==
  ASSUME DeadTypeOK, WorkInv, [Next]_vars PROVE DeadTypeOK'
<1> USE DEF DeadTypeOK, table, passes, hands, history, bounds
<1>0. MaxRetries \in Nat \ {0} /\ MaxFaults \in Nat /\ MaxCrashes \in Nat
  BY DeadLettersAssumption
<1>1. ASSUME NEW k \in Rows, New(k) \/ Abandon(k) PROVE DeadTypeOK'
  BY <1>1 DEF New, Abandon, Share, Settled
<1>9. ASSUME NEW u \in Redos, ResolveRepublished(u) \/ \E k \in Rows : Republish(u, k) PROVE DeadTypeOK'
  BY <1>0, <1>9 DEF Republish, ResolveRepublished, Share, NoFault, Fault, Settled
<1>2. ASSUME NEW p \in Passes, NEW due \in SUBSET Retriable, StartPass(p, due) PROVE DeadTypeOK'
  <2>1. \A k \in Oldest(due) : k \in Rows /\ tries[k] \in 0 .. (MaxRetries - 1)
    BY <1>0, <1>2, PassReads DEF StartPass, Retriable
  <2>2. {[row |-> k, tries |-> tries[k]] : k \in Oldest(due)} \subseteq [row : Rows, tries : 0 .. (MaxRetries - 1)]
    BY <2>1
  <2>3. todo' \in [Passes -> SUBSET [row : Rows, tries : 0 .. (MaxRetries - 1)]]
    BY <1>2, <2>2 DEF StartPass
  <2>4. shared' \subseteq Rows
    BY <1>2, <2>1 DEF StartPass, Share
  <2> QED BY <1>2, <2>3, <2>4 DEF StartPass
<1>3. ASSUME NEW p \in Passes, Look(p) PROVE DeadTypeOK'
  <2>1. todo[p] # {}
    BY <1>3 DEF Look, WorkInv
  <2>2. Current(p) \in Rows
    BY <2>1, FirstInHand
  <2> QED BY <1>0, <1>3, <2>2 DEF Look, Settle, EndPass, NextRow, NoFault, Fault, Settled
<1>4. ASSUME NEW p \in Passes, CallHandler(p) PROVE DeadTypeOK'
  <2>1. Current(p) \in Rows
    BY <1>4, FirstInHand DEF CallHandler, WorkInv
  <2>2. \A n \in 0..MaxRetries : (IF n < MaxRetries THEN n + 1 ELSE n) \in 0..MaxRetries
    BY <1>0
  <2> QED BY <1>4, <2>1, <2>2 DEF CallHandler
<1>5. ASSUME NEW p \in Passes, Resolve(p) PROVE DeadTypeOK'
  <2>1. Current(p) \in Rows
    BY <1>5, FirstInHand DEF Resolve, WorkInv
  <2> QED BY <1>0, <1>5, <2>1 DEF Resolve, NextRow, NoFault, Fault, Settled
<1>6. ASSUME NEW p \in Passes, CountTry(p) PROVE DeadTypeOK'
  <2>1. todo[p] # {}
    BY <1>6 DEF CountTry, WorkInv
  <2>2. Current(p) \in Rows /\ TriesAfter(p) \in 0 .. MaxRetries
    BY <2>1, FirstInHand, CountTyped
  <2> QED BY <1>0, <1>6, <2>2 DEF CountTry, EndPass, NextRow, NoFault, Fault, Settled
<1>7. ASSUME NEW handlers \in SUBSET Handlers, Restart(handlers) PROVE DeadTypeOK'
  BY <1>0, <1>7 DEF Restart
<1>8. CASE UNCHANGED vars
  BY <1>8 DEF vars
<1> QED BY <1>1, <1>2, <1>3, <1>4, <1>5, <1>6, <1>7, <1>8, <1>9 DEF Next

LEMMA WorkStep ==
  ASSUME DeadTypeOK, WorkInv, [Next]_vars PROVE WorkInv'
<1> USE DEF DeadTypeOK, table, passes, hands, history, bounds
<1>1. ASSUME NEW k \in Rows, New(k) \/ Abandon(k) PROVE WorkInv'
  BY <1>1 DEF New, Abandon, WorkInv
<1>6. ASSUME NEW u \in Redos, ResolveRepublished(u) \/ \E k \in Rows : Republish(u, k) PROVE WorkInv'
  BY <1>6 DEF Republish, ResolveRepublished, WorkInv
<1>2. ASSUME NEW p \in Passes, NEW due \in SUBSET Retriable, StartPass(p, due) PROVE WorkInv'
  <2> DEFINE read == {[row |-> k, tries |-> tries[k]] : k \in Oldest(due)}
  <2>1. read # {} /\ \A x, y \in read : x.row = y.row => x = y
    <3>1. PICK k \in Oldest(due) : TRUE
      BY <1>2, PassReads DEF StartPass
    <3>2. [row |-> k, tries |-> tries[k]] \in read
      OBVIOUS
    <3> QED BY <3>2
  <2>2. /\ todo' = [todo EXCEPT ![p] = read] /\ pc' = [pc EXCEPT ![p] = "next"]
    BY <1>2 DEF StartPass
  <2> HIDE DEF read
  <2> QED BY <2>1, <2>2 DEF WorkInv
<1>3. ASSUME NEW p \in Passes, Look(p) \/ CallHandler(p) \/ Resolve(p) \/ CountTry(p) PROVE WorkInv'
  <2>1. todo[p] # {} /\ pc[p] # "idle"
    BY <1>3 DEF Look, CallHandler, Resolve, CountTry, WorkInv
  <2>2. First(p) \in todo[p]
    BY <2>1, FirstInHand
  <2>3. \/ EndPass(p)
        \/ NextRow(p)
        \/ UNCHANGED todo /\ \E s \in {"run", "good", "bad"} : pc' = [pc EXCEPT ![p] = s]
    BY <1>3 DEF Look, CallHandler, Resolve, CountTry, Settle
  <2>4. CASE EndPass(p)
    BY <2>4 DEF EndPass, WorkInv
  <2>5. CASE NextRow(p)
    BY <2>2, <2>5 DEF NextRow, WorkInv
  <2>6. CASE UNCHANGED todo /\ \E s \in {"run", "good", "bad"} : pc' = [pc EXCEPT ![p] = s]
    BY <2>1, <2>6 DEF WorkInv
  <2> QED BY <2>3, <2>4, <2>5, <2>6
<1>4. ASSUME NEW handlers \in SUBSET Handlers, Restart(handlers) PROVE WorkInv'
  BY <1>4 DEF Restart, WorkInv
<1>5. CASE UNCHANGED vars
  BY <1>5 DEF vars, WorkInv
<1> QED BY <1>1, <1>2, <1>3, <1>4, <1>5, <1>6 DEF Next

------------------------------------------------------------------------------

\* What a pass has in hand after one of its own steps it had before.
LEMMA HandsShrink ==
  ASSUME DeadTypeOK, WorkInv, NEW p \in Passes,
         Look(p) \/ CallHandler(p) \/ Resolve(p) \/ CountTry(p)
  PROVE  /\ todo[p] # {} /\ First(p) \in todo[p] /\ Current(p) \in Rows
         /\ \A q \in Passes : todo'[q] \subseteq todo[q]
         /\ \A q \in Passes \ {p} : todo'[q] = todo[q] /\ pc'[q] = pc[q]
         /\ pc'[p] \in {"good", "bad"} => todo'[p] = todo[p]
<1>1. todo[p] # {} /\ pc[p] # "idle"
  BY DEF Look, CallHandler, Resolve, CountTry, WorkInv
<1>2. First(p) \in todo[p] /\ Current(p) \in Rows
  BY <1>1, FirstInHand
<1>3. \/ EndPass(p)
      \/ NextRow(p)
      \/ UNCHANGED todo /\ \E s \in {"run", "good", "bad"} : pc' = [pc EXCEPT ![p] = s]
  BY DEF Look, CallHandler, Resolve, CountTry, Settle, passes
<1>4. CASE EndPass(p)
  BY <1>1, <1>2, <1>4 DEF EndPass, DeadTypeOK
<1>5. CASE NextRow(p)
  BY <1>1, <1>2, <1>5 DEF NextRow, DeadTypeOK
<1>6. CASE UNCHANGED todo /\ \E s \in {"run", "good", "bad"} : pc' = [pc EXCEPT ![p] = s]
  BY <1>1, <1>2, <1>6 DEF DeadTypeOK
<1> QED BY <1>3, <1>4, <1>5, <1>6

\* A pass that keeps what it has in hand keeps its row.
LEMMA SameHands ==
  ASSUME NEW q \in Passes, todo'[q] = todo[q]
  PROVE  First(q)' = First(q) /\ Current(q)' = Current(q) /\ TriesAfter(q)' = TriesAfter(q)
<1>1. First(q)' = First(q)
  BY DEF First
<1> QED BY <1>1 DEF Current, TriesAfter

\* A new count was read, or is one more than one that was read and followed by a call.
LEMMA SpentStep ==
  ASSUME TriesInv, DeadTypeOK', [Next]_vars PROVE SpentInv'
<1> USE DEF TriesInv, table, passes, hands, history, bounds
<1>1. ASSUME NEW k \in Rows, New(k) \/ Abandon(k) PROVE SpentInv'
  BY <1>1 DEF New, Abandon, SpentInv, First, Current, TriesAfter
<1>6. ASSUME NEW u \in Redos, ResolveRepublished(u) \/ \E k \in Rows : Republish(u, k) PROVE SpentInv'
  <2>1. UNCHANGED <<tries, pc, todo, spent>> /\ done \subseteq done'
    BY <1>6 DEF Republish, ResolveRepublished
  <2>2. \A q \in Passes : First(q)' = First(q) /\ Current(q)' = Current(q) /\ TriesAfter(q)' = TriesAfter(q)
    BY <2>1, SameHands
  <2> QED BY <2>1, <2>2 DEF SpentInv
<1>2. ASSUME NEW p \in Passes, NEW due \in SUBSET Retriable, StartPass(p, due) PROVE SpentInv'
  <2>1. Oldest(due) \subseteq Rows
    BY <1>2, PassReads DEF StartPass, Retriable
  <2>2. /\ tries' = tries /\ spent' = spent /\ done' = done
        /\ todo' = [todo EXCEPT ![p] = {[row |-> k, tries |-> tries[k]] : k \in Oldest(due)}]
        /\ pc' = [pc EXCEPT ![p] = "next"]
    BY <1>2 DEF StartPass
  <2>3. \A x \in todo'[p] : x.tries <= spent'[x.row]
    BY <2>1, <2>2 DEF SpentInv, DeadTypeOK
  <2>4. \A q \in Passes \ {p} : todo'[q] = todo[q] /\ pc'[q] = pc[q]
    BY <2>2 DEF DeadTypeOK
  <2>5. \A q \in Passes : \A x \in todo'[q] : x.tries <= spent'[x.row]
    BY <2>2, <2>3, <2>4 DEF SpentInv
  <2>6. pc'[p] = "next"
    BY <2>2 DEF DeadTypeOK
  <2>7. ASSUME NEW q \in Passes, pc'[q] \in {"good", "bad"}
        PROVE  /\ TriesAfter(q)' <= spent'[Current(q)']
               /\ pc'[q] = "good" => Current(q)' \in done'
    <3>1. q # p
      BY <2>6, <2>7
    <3>2. TriesAfter(q)' = TriesAfter(q) /\ Current(q)' = Current(q)
      BY <2>4, <3>1, SameHands
    <3> QED BY <2>2, <2>4, <2>7, <3>1, <3>2 DEF SpentInv
  <2> QED BY <2>2, <2>5, <2>7 DEF SpentInv
<1>3. ASSUME NEW p \in Passes, Look(p) \/ CallHandler(p) \/ Resolve(p) \/ CountTry(p) PROVE SpentInv'
  <2>0. /\ todo[p] # {} /\ First(p) \in todo[p] /\ Current(p) \in Rows
        /\ \A q \in Passes : todo'[q] \subseteq todo[q]
        /\ \A q \in Passes \ {p} : todo'[q] = todo[q] /\ pc'[q] = pc[q]
        /\ pc'[p] \in {"good", "bad"} => todo'[p] = todo[p]
    BY <1>3, HandsShrink
  <2>1. First(p).tries \in Nat /\ TriesAfter(p) = First(p).tries + 1 /\ Current(p) = First(p).row
    BY <2>0, CountTyped DEF TriesAfter, Current
  <2>2. \A k \in Rows : spent[k] \in Nat /\ spent'[k] \in Nat /\ spent[k] <= spent'[k]
    BY <1>3, <2>0, DeadLettersAssumption DEF DeadTypeOK, Look, CallHandler, Resolve, CountTry
  <2>3. done \subseteq done'
    BY <1>3 DEF Look, CallHandler, Resolve, CountTry
  <2>4. \A k \in Rows : tries'[k] <= spent'[k]
    <3>1. CASE tries' = tries
      BY <2>2, <3>1 DEF SpentInv, DeadTypeOK
    <3>2. CASE tries' # tries
      <4>1. CountTry(p) /\ tries' = [tries EXCEPT ![Current(p)] = TriesAfter(p)] /\ spent' = spent
        BY <1>3, <3>2 DEF Look, CallHandler, Resolve, CountTry
      <4>2. TriesAfter(p) <= spent[Current(p)]
        BY <4>1 DEF CountTry, SpentInv
      <4> QED BY <2>0, <4>1, <4>2 DEF SpentInv, DeadTypeOK
    <3> QED BY <3>1, <3>2
  <2>5. ASSUME NEW q \in Passes, NEW x \in todo'[q] PROVE x.tries <= spent'[x.row]
    <3>1. x \in todo[q]
      BY <2>0, <2>5
    <3>2. x \in [row : Rows, tries : 0 .. (MaxRetries - 1)]
      BY <3>1 DEF DeadTypeOK
    <3>3. x.row \in Rows /\ x.tries \in Nat
      BY <3>2
    <3>4. x.tries <= spent[x.row]
      BY <3>1 DEF SpentInv
    <3> QED BY <2>2, <3>3, <3>4
  <2>6. ASSUME NEW q \in Passes, pc'[q] \in {"good", "bad"}
        PROVE  /\ TriesAfter(q)' <= spent'[Current(q)']
               /\ pc'[q] = "good" => Current(q)' \in done'
    <3>0. todo'[q] = todo[q]
      BY <2>0, <2>6
    <3>1. TriesAfter(q)' = TriesAfter(q) /\ Current(q)' = Current(q)
      BY <3>0, SameHands
    <3>2. todo[q] # {}
      BY <2>0, <2>6 DEF WorkInv
    <3>3. Current(q) \in Rows /\ TriesAfter(q) \in Nat
      BY <3>2, FirstInHand, CountTyped DEF TriesAfter
    <3>4. CASE q # p
      <4>1. pc[q] = pc'[q]
        BY <2>0, <3>4
      <4> QED BY <2>2, <2>3, <2>6, <3>1, <3>3, <4>1 DEF SpentInv
    <3>5. CASE q = p /\ CallHandler(p)
      <4>1. First(p).tries <= spent[Current(p)]
        BY <2>0, <2>1 DEF SpentInv
      <4>2. spent'[Current(p)] = IF spent[Current(p)] < MaxRetries THEN spent[Current(p)] + 1
                                                                  ELSE spent[Current(p)]
        BY <2>0, <3>5 DEF CallHandler, DeadTypeOK
      <4>3. TriesAfter(p) \in Nat /\ TriesAfter(p) <= MaxRetries /\ MaxRetries \in Nat
        BY <2>0, CountTyped, DeadLettersAssumption
      <4>5. TriesAfter(p) <= spent'[Current(p)]
        BY <2>0, <2>1, <2>2, <4>1, <4>2, <4>3
      <4>4. pc'[p] = "good" => Current(p) \in done'
        BY <3>5 DEF CallHandler, DeadTypeOK
      <4> QED BY <3>1, <3>5, <4>4, <4>5
    <3>6. CASE q = p /\ ~CallHandler(p)
      <4>1. Resolve(p) /\ pc[p] = "good" /\ spent' = spent /\ pc'[p] = "bad"
        BY <1>3, <2>6, <3>6 DEF Look, Resolve, CountTry, Settle, EndPass, NextRow, DeadTypeOK
      <4> QED BY <3>1, <3>6, <4>1 DEF SpentInv
    <3> QED BY <3>4, <3>5, <3>6
  <2> QED BY <2>4, <2>5, <2>6 DEF SpentInv
<1>4. ASSUME NEW handlers \in SUBSET Handlers, Restart(handlers) PROVE SpentInv'
  BY <1>4 DEF Restart, SpentInv
<1>5. CASE UNCHANGED vars
  BY <1>5 DEF vars, SpentInv, First, Current, TriesAfter
<1> QED BY <1>1, <1>2, <1>3, <1>4, <1>5, <1>6 DEF Next

LEMMA SettledStep ==
  ASSUME TriesInv, [Next]_vars PROVE SettledByTries'
<1> USE DEF TriesInv, SettledByTries, table, passes, hands, history, bounds
<1>1. ASSUME NEW k \in Rows, New(k) \/ Abandon(k) PROVE SettledByTries'
  BY <1>1 DEF New, Abandon, DeadTypeOK
<1>6. ASSUME NEW u \in Redos, ResolveRepublished(u) \/ \E k \in Rows : Republish(u, k) PROVE SettledByTries'
  <2>1. CASE ResolveRepublished(u)
    BY <2>1 DEF ResolveRepublished, DeadTypeOK, RedoInv
  <2>2. CASE \E k \in Rows : Republish(u, k)
    BY <2>2 DEF Republish
  <2> QED BY <1>6, <2>1, <2>2
<1>2. ASSUME NEW p \in Passes, NEW due \in SUBSET Retriable, StartPass(p, due) PROVE SettledByTries'
  BY <1>2 DEF StartPass
<1>3. ASSUME NEW p \in Passes, Look(p) \/ CallHandler(p) \/ Resolve(p) \/ CountTry(p)
      PROVE  SettledByTries'
  <2>0. todo[p] # {} /\ Current(p) \in Rows /\ TriesAfter(p) \in Nat
    BY <1>3, HandsShrink, CountTyped
  <2>1. CASE Look(p)
    BY <2>0, <2>1 DEF Look, Settle, DeadTypeOK
  <2>2. CASE CallHandler(p)
    <3>1. \A k \in Rows : spent[k] = MaxRetries => spent'[k] = MaxRetries
      BY <2>0, <2>2, DeadLettersAssumption DEF CallHandler, DeadTypeOK
    <3>2. status' = status /\ done \subseteq done' /\ refused' = refused
      BY <2>2 DEF CallHandler
    <3> QED BY <3>1, <3>2
  <2>3. CASE Resolve(p)
    BY <2>0, <2>3 DEF Resolve, DeadTypeOK, SpentInv
  <2>4. CASE CountTry(p)
    <3>1. TriesAfter(p) <= spent[Current(p)]
      BY <2>4 DEF CountTry, SpentInv
    <3>2. GivesUp(p) => spent[Current(p)] = MaxRetries
      <4>1. spent[Current(p)] \in 0..MaxRetries /\ MaxRetries \in Nat
        BY <2>0, DeadLettersAssumption DEF DeadTypeOK
      <4> QED BY <2>0, <3>1, <4>1 DEF GivesUp
    <3> QED BY <2>0, <2>4, <3>2 DEF CountTry, DeadTypeOK
  <2> QED BY <1>3, <2>1, <2>2, <2>3, <2>4
<1>4. ASSUME NEW handlers \in SUBSET Handlers, Restart(handlers) PROVE SettledByTries'
  BY <1>4 DEF Restart
<1>5. CASE UNCHANGED vars
  BY <1>5 DEF vars
<1> QED BY <1>1, <1>2, <1>3, <1>4, <1>5, <1>6 DEF Next

\* An event that a call of the route has in hand was given to publish().
LEMMA RedoStep ==
  ASSUME TriesInv, [Next]_vars PROVE RedoInv'
<1> USE DEF TriesInv, RedoInv, table, passes, hands, history, bounds
<1>1. ASSUME NEW k \in Rows, New(k) \/ Abandon(k) PROVE RedoInv'
  BY <1>1 DEF New, Abandon
<1>2. ASSUME NEW u \in Redos, NEW k \in Rows, Republish(u, k) PROVE RedoInv'
  <2> SUFFICES ASSUME NEW v \in Redos PROVE redo'[v] \subseteq done' \union refused'
    OBVIOUS
  <2>1. done \union refused \union {k} \subseteq done' \union refused'
    BY <1>2 DEF Republish
  <2>2. redo'[v] = IF v = u THEN {k} ELSE redo[v]
    BY <1>2 DEF Republish, DeadTypeOK
  <2>3. redo[v] \subseteq done \union refused
    OBVIOUS
  <2> QED BY <2>1, <2>2, <2>3
<1>6. ASSUME NEW u \in Redos, ResolveRepublished(u) PROVE RedoInv'
  <2> SUFFICES ASSUME NEW v \in Redos PROVE redo'[v] \subseteq done' \union refused'
    OBVIOUS
  <2>1. done' = done /\ refused' = refused
    BY <1>6 DEF ResolveRepublished
  <2>2. redo'[v] = IF v = u THEN {} ELSE redo[v]
    BY <1>6 DEF ResolveRepublished, DeadTypeOK
  <2> QED BY <2>1, <2>2
<1>3. ASSUME NEW p \in Passes,
             (\E due \in SUBSET Retriable : StartPass(p, due)) \/ Look(p) \/ CallHandler(p)
               \/ Resolve(p) \/ CountTry(p)
      PROVE  RedoInv'
  BY <1>3 DEF StartPass, Look, CallHandler, Resolve, CountTry
<1>4. ASSUME NEW handlers \in SUBSET Handlers, Restart(handlers) PROVE RedoInv'
  BY <1>4 DEF Restart
<1>5. CASE UNCHANGED vars
  BY <1>5 DEF vars
<1> QED BY <1>1, <1>2, <1>3, <1>4, <1>5, <1>6 DEF Next

LEMMA TriesInit == Init => TriesInv /\ HeldInv
BY DeadLettersAssumption
   DEF Init, TriesInv, DeadTypeOK, WorkInv, SpentInv, RedoInv, SettledByTries, HeldInv, Holders

LEMMA TriesInductive == TriesInv /\ [Next]_vars => TriesInv'
<1> SUFFICES ASSUME TriesInv, [Next]_vars PROVE TriesInv'
  OBVIOUS
<1>1. DeadTypeOK' /\ WorkInv'
  BY TypeStep, WorkStep DEF TriesInv
<1>2. SpentInv' /\ RedoInv' /\ SettledByTries'
  BY <1>1, SpentStep, RedoStep, SettledStep
<1> QED BY <1>1, <1>2 DEF TriesInv

THEOREM TriesInvariant == Spec => []TriesInv
BY TriesInit, TriesInductive, PTL DEF Spec

\* Every reachable state of the dead letters is typed; above all, no count of tries
\* exceeds the row's limit, however many passes overlap.
THEOREM DeadTypeCorrect == Spec => []DeadTypeOK
BY TriesInvariant, PTL DEF TriesInv

\* No row is resolved without its handler having completed, or its event having been
\* given to publish() anew, and none fails for good before its handler was called
\* max_retries times: for any number of passes, whether or not payloads can be parsed.
THEOREM DeadSettledByTries == Spec => []SettledByTries
BY TriesInvariant, PTL DEF TriesInv

------------------------------------------------------------------------------

\* A row that was not in the hands of two: only the pass that has it writes it, and
\* lets go of it when it does.
LEMMA HeldStep ==
  ASSUME TriesInv, HeldInv, [Next]_vars, NEW k \in Rows \ shared'
  PROVE  /\ \A p, q \in Holders(k)' : p = q
         /\ Holders(k)' # {} => status'[k] = "pending"
         /\ status[k] \in Settled => status'[k] = status[k]
<1> USE DEF TriesInv, table, passes, hands, history, bounds
<1>0. k \in Rows \ shared
  BY DEF Next, New, Abandon, Republish, ResolveRepublished, StartPass, Look, CallHandler, Resolve,
         CountTry, Restart, Share, vars
<1>1. /\ \A p, q \in Holders(k) : p = q
      /\ Holders(k) # {} => status[k] = "pending"
  BY <1>0 DEF HeldInv
<1>2. ASSUME NEW j \in Rows, New(j) \/ Abandon(j)
      PROVE  /\ Holders(k)' = Holders(k)
             /\ status[k] \in {"none", "pending"} \/ status'[k] = status[k]
             /\ Holders(k) # {} => status'[k] = status[k]
  <2>1. Holders(k)' = Holders(k)
    BY <1>2 DEF New, Abandon, Holders
  <2>2. CASE j = k
    BY <1>0, <1>1, <1>2, <2>1, <2>2 DEF New, Abandon, Share
  <2>3. CASE j # k
    BY <1>0, <1>2, <2>1, <2>3 DEF New, Abandon, DeadTypeOK
  <2> QED BY <2>1, <2>2, <2>3
<1>3. ASSUME NEW p \in Passes, NEW due \in SUBSET Retriable, StartPass(p, due)
      PROVE  /\ \A q, r \in Holders(k)' : q = r
             /\ Holders(k)' # {} => status'[k] = "pending"
             /\ status'[k] = status[k]
  <2>1. /\ Oldest(due) \subseteq due /\ \A j \in due : status[j] = "pending"
        /\ todo[p] = {}
    BY <1>3, PassReads DEF StartPass, Retriable, WorkInv
  <2>2. /\ status' = status
        /\ todo' = [todo EXCEPT ![p] = {[row |-> j, tries |-> tries[j]] : j \in Oldest(due)}]
        /\ redo' = redo
        /\ k \in Oldest(due) => Holders(k) = {}
    BY <1>0, <1>3 DEF StartPass, Share
  <2>3. CASE k \in Oldest(due)
    <3>1. Holders(k)' \subseteq {p}
      BY <2>2, <2>3 DEF Holders, DeadTypeOK
    <3> QED BY <2>1, <2>2, <2>3, <3>1
  <2>4. CASE k \notin Oldest(due)
    <3>1. Holders(k)' \subseteq Holders(k)
      BY <2>2, <2>4 DEF Holders, DeadTypeOK
    <3> QED BY <1>1, <2>2, <3>1
  <2> QED BY <2>3, <2>4
<1>11. ASSUME NEW u \in Redos, NEW j \in Rows, Republish(u, j)
       PROVE  /\ \A q, r \in Holders(k)' : q = r
              /\ Holders(k)' # {} => status'[k] = "pending"
              /\ status'[k] = status[k]
  <2>1. /\ status' = status /\ status[j] = "pending"
        /\ redo' = [redo EXCEPT ![u] = {j}] /\ redo[u] = {} /\ todo' = todo
        /\ k = j => Holders(k) = {}
    BY <1>0, <1>11 DEF Republish, Share
  <2>2. CASE k = j
    <3>1. Holders(k)' \subseteq {u}
      BY <2>1, <2>2 DEF Holders, DeadTypeOK
    <3> QED BY <2>1, <2>2, <3>1
  <2>3. CASE k # j
    <3>1. Holders(k)' \subseteq Holders(k)
      BY <2>1, <2>3 DEF Holders, DeadTypeOK
    <3> QED BY <1>1, <2>1, <3>1
  <2> QED BY <2>2, <2>3
<1>12. ASSUME NEW u \in Redos, ResolveRepublished(u)
       PROVE  /\ Holders(k)' \subseteq Holders(k)
              /\ \/ status'[k] = status[k]
                 \/ u \in Holders(k) /\ Holders(k)' = {}
  <2>1. /\ redo' = [redo EXCEPT ![u] = {}] /\ todo' = todo
        /\ k \notin redo[u] => status'[k] = status[k]
    BY <1>0, <1>12 DEF ResolveRepublished, DeadTypeOK
  <2>2. Holders(k)' \subseteq Holders(k) /\ u \notin Holders(k)'
    BY <2>1, DeadLettersAssumption DEF Holders, DeadTypeOK
  <2>3. CASE k \in redo[u]
    <3>1. u \in Holders(k)
      BY <2>3 DEF Holders
    <3> QED BY <1>1, <2>2, <3>1
  <2> QED BY <2>1, <2>2, <2>3
<1>4. ASSUME NEW p \in Passes, Look(p) \/ CallHandler(p) \/ Resolve(p) \/ CountTry(p)
      PROVE  /\ Holders(k)' \subseteq Holders(k)
             /\ \/ status'[k] = status[k]
                \/ p \in Holders(k) /\ Holders(k)' = {}
  <2>0. /\ First(p) \in todo[p] /\ Current(p) \in Rows /\ todo[p] # {}
        /\ \A q \in Passes : todo'[q] \subseteq todo[q]
        /\ \A q \in Passes \ {p} : todo'[q] = todo[q]
    BY <1>4, HandsShrink
  <2>1. Holders(k)' \subseteq Holders(k) /\ redo' = redo
    BY <1>4, <2>0 DEF Holders, Look, CallHandler, Resolve, CountTry
  <2>2. CASE status'[k] # status[k]
    <3>1. /\ Current(p) = k /\ NextRow(p)
      BY <1>0, <1>4, <2>0, <2>2 DEF Look, CallHandler, Resolve, CountTry, Settle, DeadTypeOK
    <3>2. p \in Holders(k)
      BY <2>0, <3>1 DEF Holders, Current
    <3>3. todo'[p] = todo[p] \ {First(p)}
      BY <3>1 DEF NextRow, DeadTypeOK
    <3>4. \A x \in todo'[p] : x.row # k
      BY <2>0, <3>1, <3>3 DEF WorkInv, Current
    <3>5. p \notin Holders(k)'
      BY <3>4, DeadLettersAssumption DEF Holders
    <3>6. Holders(k)' = {}
      BY <1>1, <2>1, <3>2, <3>5
    <3> QED BY <2>1, <3>2, <3>6
  <2> QED BY <2>1, <2>2
<1>5. ASSUME NEW handlers \in SUBSET Handlers, Restart(handlers)
      PROVE  Holders(k)' = {} /\ status'[k] = status[k]
  BY <1>5 DEF Restart, Holders
<1>6. CASE UNCHANGED vars
  BY <1>1, <1>6 DEF vars, Holders
<1>7. CASE \E j \in Rows : New(j) \/ Abandon(j)
  BY <1>1, <1>2, <1>7 DEF Settled
<1>8. CASE \E p \in Passes, due \in SUBSET Retriable : StartPass(p, due)
  BY <1>3, <1>8
<1>9. CASE \E p \in Passes : Look(p) \/ CallHandler(p) \/ Resolve(p) \/ CountTry(p)
  BY <1>1, <1>4, <1>9 DEF Settled
<1>10. CASE \E handlers \in SUBSET Handlers : Restart(handlers)
  BY <1>5, <1>10
<1>13. CASE \E u \in Redos : ResolveRepublished(u) \/ \E j \in Rows : Republish(u, j)
  BY <1>1, <1>11, <1>12, <1>13 DEF Settled
<1> QED BY <1>6, <1>7, <1>8, <1>9, <1>10, <1>13 DEF Next

LEMMA HeldInductive == TriesInv /\ HeldInv /\ [Next]_vars => HeldInv'
BY HeldStep DEF HeldInv

\* A settled row stays as it is unless it was once in the hands of two at a time.
THEOREM DeadSettledStays == Spec => SettledStays
<1>1. TriesInv /\ HeldInv /\ [Next]_vars
        => [\A k \in Rows \ shared' : status[k] \in Settled => status'[k] = status[k]]_vars
  BY HeldStep
<1>2. Spec => [](TriesInv /\ HeldInv)
  BY TriesInit, TriesInductive, HeldInductive, PTL DEF Spec
<1> QED BY <1>1, <1>2, PTL DEF Spec, SettledStays

==============================================================================
