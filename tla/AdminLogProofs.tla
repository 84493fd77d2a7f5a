---------------------------- MODULE AdminLogProofs ----------------------------
(* Proofs about the administrators' log, for any calls and administrators. *)
EXTENDS AdminLog, TLAPS

Inserted == {c \in Calls : id[c] # 0}
Started == {"read", "inserted", "done"}

\* LastOf without CHOOSE.
IsLast(x, S) == IF S = {} THEN x = NoRow ELSE x \in S /\ \A d \in S : id[d] <= id[x]

\* Ids are those the sequence has given out, each once, and any rows that have
\* one have a last one.
IdsInv ==
  /\ \A c \in Calls : id[c] < next
  /\ \A c, d \in Inserted : id[c] = id[d] => c = d
  /\ \A c \in Calls : pc[c] \in {"inserted", "done"} => c \in Inserted
  /\ \A c \in Calls : pc[c] = "read" => c \notin Inserted
  /\ \A c \in Calls : pc[c] \in {"idle", "found", "refused"} => c \notin Inserted
  /\ \A S \in SUBSET Inserted : S # {} => \E c \in S : \A d \in S : id[d] <= id[c]

\* What a call read: committed rows, which all have smaller ids than its own, and
\* the last of them.
ReadInv ==
  \A c \in Calls : pc[c] \in Started =>
    /\ since[c] \subseteq Committed
    /\ IsLast(prev[c], since[c])
    /\ c \in Inserted => \A d \in since[c] : id[d] < id[c]

\* The request of an approval that was let through.
ApproveInv ==
  \A a \in Approvals :
    /\ pc[a] \in {"found"} \union Started =>
         /\ TargetOf[a] \in Requests
         /\ ActorOf[TargetOf[a]] # ActorOf[a]
    /\ pc[a] = "found" => TargetOf[a] \in Committed
    /\ pc[a] \in Started => TargetOf[a] \in since[a]

LogInv == AdminTypeOK /\ IdsInv /\ ReadInv /\ ApproveInv

------------------------------------------------------------------------------

\* Among rows with ids LastOf is the last one, and there is only one.
LEMMA LastOfIsLast ==
  ASSUME AdminTypeOK, IdsInv, NEW S \in SUBSET Inserted
  PROVE  IsLast(LastOf(S), S)
<1>1. CASE S = {}
  BY <1>1 DEF IsLast, LastOf
<1>2. CASE S # {}
  BY <1>2 DEF IsLast, LastOf, IdsInv
<1> QED BY <1>1, <1>2

LEMMA LastIsUnique ==
  ASSUME AdminTypeOK, IdsInv, NEW S \in SUBSET Inserted, NEW x, IsLast(x, S)
  PROVE  x = LastOf(S)
<1>1. IsLast(LastOf(S), S)
  BY LastOfIsLast
<1>2. CASE S = {}
  BY <1>2, <1>1 DEF IsLast
<1>3. CASE S # {}
  <2>1. x \in S /\ LastOf(S) \in S
    BY <1>1, <1>3 DEF IsLast
  <2>2. id[x] <= id[LastOf(S)] /\ id[LastOf(S)] <= id[x]
    BY <1>1, <1>3, <2>1 DEF IsLast
  <2>3. id[x] \in Nat /\ id[LastOf(S)] \in Nat
    BY <2>1 DEF AdminTypeOK, Inserted
  <2>4. id[x] = id[LastOf(S)]
    BY <2>2, <2>3
  <2> QED BY <2>1, <2>4 DEF IdsInv
<1> QED BY <1>2, <1>3

LEMMA CommittedInserted == ASSUME IdsInv PROVE Committed \subseteq Inserted
BY DEF IdsInv, Committed, Inserted

LEMMA LastTyped ==
  ASSUME AdminTypeOK, IdsInv PROVE LastHash \in Committed \union {NoRow}
<1>1. IsLast(LastOf(Committed), Committed)
  BY LastOfIsLast, CommittedInserted
<1> QED BY <1>1 DEF IsLast, LastHash

------------------------------------------------------------------------------

LEMMA LogInit == Init => LogInv
<1> SUFFICES ASSUME Init PROVE LogInv
  OBVIOUS
<1>1. AdminTypeOK
  BY DEF Init, AdminTypeOK
<1>2. IdsInv
  BY DEF Init, IdsInv, Inserted
<1>3. ReadInv /\ ApproveInv
  BY AdminLogAssumption DEF Init, ReadInv, ApproveInv, Started, Calls
<1> QED BY <1>1, <1>2, <1>3 DEF LogInv

LEMMA TypeStep ==
  ASSUME AdminTypeOK, IdsInv, [Next]_vars PROVE AdminTypeOK'
<1> USE DEF AdminTypeOK
<1>1. ASSUME NEW a \in Approvals, FindRequest(a) PROVE AdminTypeOK'
  BY <1>1 DEF FindRequest, Calls
<1>2. ASSUME NEW c \in Calls, ReadLastHash(c) PROVE AdminTypeOK'
  <2>1. LastHash \in Calls \union {NoRow}
    BY LastTyped DEF Committed
  <2>2. Committed \subseteq Calls
    BY DEF Committed
  <2> QED BY <1>2, <2>1, <2>2 DEF ReadLastHash
<1>3. ASSUME NEW c \in Calls, Insert(c) PROVE AdminTypeOK'
  BY <1>3 DEF Insert
<1>4. ASSUME NEW c \in Calls, Commit(c) PROVE AdminTypeOK'
  BY <1>4 DEF Commit
<1>5. ASSUME NEW c \in Calls, Fail(c) PROVE AdminTypeOK'
  BY <1>5 DEF Fail
<1>6. ASSUME NEW r \in Requests, Expire(r) PROVE AdminTypeOK'
  BY <1>6 DEF Expire
<1>7. CASE UNCHANGED vars
  BY <1>7 DEF vars
<1> QED BY <1>1, <1>2, <1>3, <1>4, <1>5, <1>6, <1>7 DEF Next

\* The row that is inserted has the largest id.
LEMMA InsertIds ==
  ASSUME AdminTypeOK, IdsInv, NEW c \in Calls, Insert(c) PROVE IdsInv'
<1>1. /\ id' = [id EXCEPT ![c] = next] /\ next' = next + 1 /\ pc' = [pc EXCEPT ![c] = "inserted"]
      /\ pc[c] = "read" /\ c \notin Inserted /\ id[c] = 0
  BY DEF Insert, IdsInv, Inserted
<1>2. /\ id \in [Calls -> Nat] /\ next \in Nat \ {0}
      /\ pc \in [Calls -> {"idle", "found", "read", "inserted", "done", "refused", "failed"}]
      /\ \A d \in Calls : id[d] < next
  BY DEF AdminTypeOK, IdsInv
<1>3. /\ id'[c] = next /\ \A d \in Calls \ {c} : id'[d] = id[d] /\ pc'[d] = pc[d]
  BY <1>1, <1>2
<1>4. Inserted' = Inserted \union {c}
  BY <1>1, <1>2, <1>3 DEF Inserted
<1>5. \A d \in Calls : id'[d] < next'
  BY <1>1, <1>2, <1>3
<1>6. \A d, e \in Inserted' : id'[d] = id'[e] => d = e
  <2> SUFFICES ASSUME NEW d \in Inserted', NEW e \in Inserted', id'[d] = id'[e] PROVE d = e
    OBVIOUS
  <2>1. d \in Calls /\ e \in Calls
    BY DEF Inserted
  <2>2. CASE d # c /\ e # c
    BY <2>1, <2>2, <1>3, <1>4 DEF IdsInv
  <2>3. CASE d = c \/ e = c
    BY <2>1, <2>3, <1>2, <1>3
  <2> QED BY <2>2, <2>3
<1>7. ASSUME NEW S \in SUBSET Inserted', S # {}
      PROVE  \E x \in S : \A d \in S : id'[d] <= id'[x]
  <2>0. S \subseteq Calls
    BY <1>7 DEF Inserted
  <2>1. CASE c \in S
    <3>1. \A d \in S : id'[d] <= id'[c]
      BY <1>2, <1>3, <2>0
    <3> QED BY <2>1, <3>1
  <2>2. CASE c \notin S
    <3>1. S \in SUBSET Inserted
      BY <1>4, <1>7, <2>2
    <3>2. PICK x \in S : \A d \in S : id[d] <= id[x]
      BY <3>1, <1>7 DEF IdsInv
    <3> QED BY <3>2, <1>3, <2>0, <2>2
  <2> QED BY <2>1, <2>2
<1>8. \A d \in Calls : pc'[d] \in {"inserted", "done"} => d \in Inserted'
  BY <1>1, <1>2, <1>3, <1>4 DEF IdsInv
<1>9. /\ \A d \in Calls : pc'[d] = "read" => d \notin Inserted'
      /\ \A d \in Calls : pc'[d] \in {"idle", "found", "refused"} => d \notin Inserted'
  BY <1>1, <1>2, <1>3, <1>4 DEF IdsInv
<1> QED BY <1>5, <1>6, <1>7, <1>8, <1>9 DEF IdsInv

LEMMA IdsStep ==
  ASSUME AdminTypeOK, IdsInv, [Next]_vars PROVE IdsInv'
<1>1. ASSUME NEW a \in Approvals, FindRequest(a) PROVE IdsInv'
  BY <1>1 DEF FindRequest, IdsInv, Inserted, AdminTypeOK, Calls
<1>2. ASSUME NEW c \in Calls, ReadLastHash(c) PROVE IdsInv'
  BY <1>2 DEF ReadLastHash, IdsInv, Inserted, AdminTypeOK
<1>3. ASSUME NEW c \in Calls, Insert(c) PROVE IdsInv'
  BY <1>3, InsertIds
<1>4. ASSUME NEW c \in Calls, Commit(c) PROVE IdsInv'
  BY <1>4 DEF Commit, IdsInv, Inserted, AdminTypeOK
<1>5. ASSUME NEW c \in Calls, Fail(c) PROVE IdsInv'
  BY <1>5 DEF Fail, IdsInv, Inserted, AdminTypeOK
<1>6. ASSUME NEW r \in Requests, Expire(r) PROVE IdsInv'
  BY <1>6 DEF Expire, IdsInv, Inserted
<1>7. CASE UNCHANGED vars
  BY <1>7 DEF vars, IdsInv, Inserted
<1> QED BY <1>1, <1>2, <1>3, <1>4, <1>5, <1>6, <1>7 DEF Next

\* What is committed stays committed, with its id; what a call has read does not
\* change once it has started to append.
LEMMA LogGrows ==
  ASSUME AdminTypeOK, IdsInv, [Next]_vars
  PROVE  /\ Committed \subseteq Committed'
         /\ \A c \in Inserted : id'[c] = id[c]
         /\ \A c \in Calls : pc[c] \in Started => since'[c] = since[c] /\ prev'[c] = prev[c]
<1> USE DEF Committed, Inserted, Started, AdminTypeOK
<1>1. CASE \E a \in Approvals : FindRequest(a)
  BY <1>1 DEF FindRequest, Calls
<1>2. CASE \E c \in Calls : ReadLastHash(c)
  BY <1>2 DEF ReadLastHash
<1>3. CASE \E c \in Calls : Insert(c)
  BY <1>3 DEF Insert, IdsInv
<1>4. CASE \E c \in Calls : Commit(c) \/ Fail(c)
  BY <1>4 DEF Commit, Fail
<1>5. CASE \E r \in Requests : Expire(r)
  BY <1>5 DEF Expire
<1>6. CASE UNCHANGED vars
  BY <1>6 DEF vars
<1> QED BY <1>1, <1>2, <1>3, <1>4, <1>5, <1>6 DEF Next

\* A call that is appending started to before this step, or reads the last hash in it.
LEMMA StartedBefore ==
  ASSUME AdminTypeOK, [Next]_vars, NEW c \in Calls, pc'[c] \in Started
  PROVE  pc[c] \in Started \/ ReadLastHash(c)
<1> USE DEF Started, AdminTypeOK
<1>1. CASE \E a \in Approvals : FindRequest(a)
  BY <1>1 DEF FindRequest, Calls
<1>2. CASE \E d \in Calls : ReadLastHash(d)
  BY <1>2 DEF ReadLastHash
<1>3. CASE \E d \in Calls : Insert(d) \/ Commit(d) \/ Fail(d)
  BY <1>3 DEF Insert, Commit, Fail
<1>4. CASE UNCHANGED vars \/ \E r \in Requests : Expire(r)
  BY <1>4 DEF vars, Expire
<1> QED BY <1>1, <1>2, <1>3, <1>4 DEF Next

LEMMA ReadStep ==
  ASSUME AdminTypeOK, IdsInv, ReadInv, [Next]_vars PROVE ReadInv'
<1> SUFFICES ASSUME NEW c \in Calls, pc'[c] \in Started
             PROVE  /\ since'[c] \subseteq Committed'
                    /\ IsLast(prev[c], since[c])'
                    /\ c \in Inserted' => \A d \in since'[c] : id'[d] < id'[c]
  BY DEF ReadInv
<1>1. CASE ReadLastHash(c)
  <2>1. /\ since'[c] = Committed /\ prev'[c] = LastHash /\ id' = id
        /\ pc'[c] = "read"
    BY <1>1 DEF ReadLastHash, AdminTypeOK
  <2>2. Committed \subseteq Committed'
    BY LogGrows
  <2>3. IsLast(LastHash, Committed)
    BY LastOfIsLast, CommittedInserted DEF LastHash
  <2>4. IsLast(prev[c], since[c])'
    BY <2>1, <2>3 DEF IsLast
  <2>5. c \notin Inserted'
    BY IdsStep, <2>1 DEF IdsInv
  <2> QED BY <2>1, <2>2, <2>4, <2>5
<1>2. CASE pc[c] \in Started
  <2>1. /\ since'[c] = since[c] /\ prev'[c] = prev[c]
        /\ Committed \subseteq Committed' /\ \A d \in Inserted : id'[d] = id[d]
    BY <1>2, LogGrows
  <2>2. /\ since[c] \subseteq Committed /\ since[c] \subseteq Inserted
        /\ IsLast(prev[c], since[c])
    BY <1>2, CommittedInserted DEF ReadInv
  <2>3. IsLast(prev[c], since[c])'
    BY <2>1, <2>2 DEF IsLast
  <2>4. ASSUME c \in Inserted', NEW d \in since'[c] PROVE id'[d] < id'[c]
    <3>1. d \in since[c] /\ d \in Calls /\ id'[d] = id[d] /\ id[d] < next
      BY <2>1, <2>2, <2>4 DEF IdsInv, Inserted
    <3>2. CASE c \in Inserted
      BY <3>1, <3>2, <1>2, <2>1 DEF ReadInv
    <3>3. CASE c \notin Inserted
      <4>1. id[c] = 0 /\ id'[c] # 0
        BY <2>4, <3>3 DEF Inserted
      <4>2. Insert(c)
        BY <4>1 DEF Next, vars, FindRequest, ReadLastHash, Insert, Commit, Fail, Expire, AdminTypeOK
      <4>3. id'[c] = next
        BY <4>2 DEF Insert, AdminTypeOK
      <4> QED BY <3>1, <4>3
    <3> QED BY <3>2, <3>3
  <2> QED BY <2>1, <2>2, <2>3, <2>4
<1> QED BY <1>1, <1>2, StartedBefore

LEMMA ApproveStep ==
  ASSUME AdminTypeOK, IdsInv, ApproveInv, [Next]_vars PROVE ApproveInv'
<1> SUFFICES ASSUME NEW a \in Approvals
             PROVE  /\ pc'[a] \in {"found"} \union Started =>
                         /\ TargetOf[a] \in Requests
                         /\ ActorOf[TargetOf[a]] # ActorOf[a]
                    /\ pc'[a] = "found" => TargetOf[a] \in Committed'
                    /\ pc'[a] \in Started => TargetOf[a] \in since'[a]
  BY DEF ApproveInv
<1>0. a \in Calls /\ Committed \subseteq Committed'
  BY LogGrows DEF Calls
<1>1. CASE pc'[a] \in Started
  <2>1. CASE ReadLastHash(a)
    BY <1>0, <1>1, <2>1 DEF ReadLastHash, ApproveInv, AdminTypeOK, Started
  <2>2. CASE pc[a] \in Started
    BY <1>0, <1>1, <2>2, LogGrows DEF ApproveInv, Started
  <2> QED BY <1>0, <1>1, <2>1, <2>2, StartedBefore
<1>2. CASE pc'[a] = "found"
  <2>1. CASE pc[a] = "found"
    BY <1>0, <1>2, <2>1 DEF ApproveInv, Started
  <2>2. CASE pc[a] # "found"
    <3>1. FindRequest(a) /\ MayApprove(a)
      BY <1>0, <1>2, <2>2 DEF Next, vars, FindRequest, ReadLastHash, Insert, Commit, Fail, Expire, AdminTypeOK
    <3> QED BY <1>0, <1>2, <3>1 DEF MayApprove, Started
  <2> QED BY <2>1, <2>2
<1> QED BY <1>1, <1>2

LEMMA LogInductive == LogInv /\ [Next]_vars => LogInv'
BY TypeStep, IdsStep, ReadStep, ApproveStep DEF LogInv

THEOREM LogInvariant == Spec => []LogInv
<1>1. Init => LogInv
  BY LogInit
<1> QED BY <1>1, LogInductive, PTL DEF Spec

------------------------------------------------------------------------------

\* Every reachable state of the log is typed, for any calls and administrators.
THEOREM AdminTypeCorrect == Spec => []AdminTypeOK
BY LogInvariant, PTL DEF LogInv

\* The rows a call read are all before its own in the order of the ids.
LEMMA SinceBefore ==
  ASSUME LogInv, NEW c \in Committed PROVE since[c] \subseteq Before(c)
BY CommittedInserted DEF LogInv, ReadInv, Before, Committed, Started

\* The chain forks at a row only if an append with a smaller id committed after the
\* row's own read of the last hash: whatever fails, and in whatever order appends
\* commit.
THEOREM ForksHaveCause == Spec => []ForkHasCause
<1>1. LogInv => ForkHasCause
  <2> SUFFICES ASSUME LogInv, NEW c \in Unlinked, \A d \in Before(c) : d \in since[c]
               PROVE  FALSE
    BY DEF ForkHasCause
  <2>1. c \in Committed /\ prev[c] # LastOf(Before(c))
    BY DEF Unlinked
  <2>2. since[c] = Before(c)
    BY <2>1, SinceBefore
  <2>3. IsLast(prev[c], since[c])
    BY <2>1 DEF LogInv, ReadInv, Committed, Started
  <2>4. Before(c) \in SUBSET Inserted
    BY CommittedInserted DEF LogInv, Before
  <2> QED BY <2>1, <2>2, <2>3, <2>4, LastIsUnique DEF LogInv
<1> QED BY <1>1, LogInvariant, PTL

\* An approval in the log is of a request of another administrator that was
\* committed when the approval's own transaction began.
THEOREM ApprovalsByAnother == Spec => []ApprovedByAnother
<1>1. LogInv => ApprovedByAnother
  <2> SUFFICES ASSUME LogInv, NEW a \in Approvals \intersect Committed
               PROVE  /\ TargetOf[a] \in Requests \intersect since[a]
                      /\ id[TargetOf[a]] < id[a]
                      /\ ActorOf[TargetOf[a]] # ActorOf[a]
    BY DEF ApprovedByAnother
  <2>1. pc[a] \in Started /\ a \in Calls /\ a \in Inserted
    BY CommittedInserted DEF Committed, Started, LogInv
  <2> QED BY <2>1 DEF LogInv, ReadInv, ApproveInv
<1> QED BY <1>1, LogInvariant, PTL

------------------------------------------------------------------------------

LEMMA BreakStays ==
  ASSUME LogInv, [Next]_vars PROVE Unlinked \subseteq Unlinked'
<1> SUFFICES ASSUME NEW c \in Unlinked, c \notin Unlinked' PROVE FALSE
  OBVIOUS
<1>1. LogInv'
  BY LogInductive
<1>2. /\ Committed \subseteq Committed' /\ \A d \in Inserted : id'[d] = id[d]
      /\ c \in Committed /\ c \in Committed' /\ c \in Inserted
      /\ Committed \subseteq Inserted
  BY LogGrows, CommittedInserted DEF LogInv, Unlinked
<1>3. prev'[c] = prev[c] /\ since'[c] = since[c]
  BY <1>2, LogGrows DEF LogInv, Committed, Started
<1>4. prev[c] = LastOf(Before(c))'
  BY <1>2, <1>3 DEF Unlinked
<1>5. prev[c] # LastOf(Before(c))
  BY <1>4 DEF Unlinked
<1>6. Before(c) \subseteq Before(c)' /\ Before(c) \in SUBSET Inserted
  BY <1>2 DEF Before
<1>7. Before(c)' \in SUBSET Inserted'
  BY <1>1 DEF LogInv, IdsInv, Before, Committed, Inserted
<1>8. IsLast(prev[c], Before(c))'
  <2>1. Before(c)' # {} => \E x \in Before(c)' : \A d \in Before(c)' : id'[d] <= id'[x]
    BY <1>1, <1>7 DEF LogInv, IdsInv
  <2> QED BY <1>3, <1>4, <2>1 DEF IsLast, LastOf
<1>9. IsLast(prev[c], since[c])
  BY <1>2 DEF LogInv, ReadInv, Committed, Started
<1>10. since[c] \subseteq Before(c)
  BY <1>2, SinceBefore
<1>11. IsLast(prev[c], Before(c))
  <2>1. CASE Before(c)' = {}
    BY <2>1, <1>3, <1>6, <1>8 DEF IsLast
  <2>2. CASE Before(c)' # {}
    <3>1. prev[c] \in Before(c)' /\ \A d \in Before(c)' : id'[d] <= id'[prev[c]]
      BY <2>2, <1>3, <1>8 DEF IsLast
    <3>2. prev[c] # NoRow
      BY <3>1, AdminLogAssumption DEF Before, Committed
    <3>3. prev[c] \in since[c]
      BY <1>9, <3>2 DEF IsLast
    <3>4. prev[c] \in Before(c) /\ \A d \in Before(c) : id[d] <= id[prev[c]]
      BY <1>2, <1>6, <1>10, <3>1, <3>3
    <3> QED BY <3>4 DEF IsLast
  <2> QED BY <2>1, <2>2
<1> QED BY <1>5, <1>6, <1>11, LastIsUnique DEF LogInv

\* A row that is not linked to the row before it stays so: no later commit hides a
\* fork.
THEOREM BreaksAreForGood == Spec => BreaksStay
<1>1. LogInv /\ [Next]_vars => [Unlinked \subseteq Unlinked']_vars
  BY BreakStays
<1> QED BY <1>1, LogInvariant, PTL DEF Spec, BreaksStay

==============================================================================
