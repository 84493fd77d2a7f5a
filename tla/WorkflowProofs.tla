---------------------------- MODULE WorkflowProofs ----------------------------
(* Proofs about the approval of a workflow step, for any calls and        *)
(* connections and a chain of any length.                                  *)
EXTENDS Workflow, FiniteSetTheorems, TLAPS

Raises == {"approve", "escalate"}

\* What keeps the chain whole: below every step the request is at, or a call read,
\* each step has an entry in the log; and only a request nobody has decided is read.
ChainInv ==
  /\ \A c \in Calls : pc[c] = "logged" => KindOf[c] # "delegate"
  /\ \A c \in Decided : KindOf[c] = "approve" => at[c] = Steps
  /\ \A s \in Nat \ {0} : s < step => Entries(s, Raises) # {}
  /\ \A s \in Nat \ {0}, c \in Calls : s < at[c] => Entries(s, Raises) # {}
  /\ status \in {"none", "pending"} => Decided = {}
  /\ \A c \in Calls : pc[c] \notin {"idle", "refused"} => found[c] = {}

ApprovalInv == ApprovalsTypeOK /\ ChainInv

\* What a step of the workflow does to the request and its calls.
Lost ==
  /\ pc' = [c \in Calls |-> IF pc[c] \in {"read", "logged"} THEN "failed" ELSE pc[c]]
  /\ UNCHANGED <<status, step, at, found>>
ApprovalStep == Submit \/ (\E c \in Calls : CallNext(c)) \/ Lost \/ UNCHANGED avars

LEMMA StepsOfApprovals == [Next]_vars => ApprovalStep
BY DEF Next, vars, Ask, Link, Pause, Call, Resolve, FindLink, SetRunning, Check, CompleteRow,
       CreateNext, End, Complete, FailRow, FailExec, TryLock, Unlock, Break, Crash, Close,
       ApprovalStep, Lost, request

LEMMA ApprovalInit == Init => ApprovalInv
BY ApprovalsAssumption DEF Init, ApprovalsInit, ApprovalInv, ApprovalsTypeOK, ChainInv, Decided

LEMMA ApprovalTypeStep == ApprovalInv /\ ApprovalStep => ApprovalsTypeOK'
<1> SUFFICES ASSUME ApprovalInv, ApprovalStep PROVE ApprovalsTypeOK'
  OBVIOUS
<1> USE DEF ApprovalInv, ApprovalsTypeOK, request, calls
<1>1. CASE Submit \/ Lost \/ UNCHANGED avars
  BY <1>1 DEF Submit, Lost, avars
<1>2. ASSUME NEW c \in Calls, Read(c) \/ Log(c) \/ Fail(c) PROVE ApprovalsTypeOK'
  BY <1>2 DEF Read, Log, Fail, Decided
<1>3. ASSUME NEW c \in Calls, Advance(c) PROVE ApprovalsTypeOK'
  <2>1. at[c] + 1 \in 1..Steps
    BY <1>3, ApprovalsAssumption DEF Advance, Deciding
  <2> QED BY <1>3, <2>1 DEF Advance, NextStep
<1>4. ASSUME NEW c \in Calls, Decide(c) PROVE ApprovalsTypeOK'
  <2>1. KindOf[c] \in {"approve", "reject", "escalate"}
    BY <1>4, ApprovalsAssumption DEF Decide, ChainInv, Kinds
  <2>2. Outcome[KindOf[c]] \in {"approved", "rejected", "escalated"}
    BY <2>1 DEF Outcome
  <2> QED BY <1>4, <2>2 DEF Decide
<1> QED BY <1>1, <1>2, <1>3, <1>4 DEF ApprovalStep, CallNext

\* An entry of the log stays.
LEMMA EntriesStay ==
  ASSUME ApprovalInv, ApprovalStep, NEW s
  PROVE  Entries(s, Raises) \subseteq Entries(s, Raises)'
<1> USE DEF ApprovalInv, ApprovalsTypeOK, Entries
<1>1. CASE Submit \/ Lost \/ UNCHANGED avars
  BY <1>1 DEF Submit, Lost, avars, calls
<1>2. ASSUME NEW c \in Calls, CallNext(c) PROVE Entries(s, Raises) \subseteq Entries(s, Raises)'
  BY <1>2 DEF CallNext, Read, Log, Advance, Decide, Fail
<1> QED BY <1>1, <1>2 DEF ApprovalStep

LEMMA ChainStep ==
  ASSUME ApprovalInv, ApprovalStep PROVE ChainInv'
<1> USE DEF ApprovalInv, ApprovalsTypeOK, request, calls
<1>0. \A s : Entries(s, Raises) \subseteq Entries(s, Raises)'
  BY EntriesStay
<1>1. CASE Submit \/ Lost \/ UNCHANGED avars
  <2>1. /\ Decided' = Decided /\ UNCHANGED <<step, at, found>>
        /\ status' = status \/ status = "none"
        /\ \A c \in Calls : pc'[c] = pc[c] \/ (pc[c] \in {"read", "logged"} /\ pc'[c] = "failed")
    BY <1>1 DEF Submit, Lost, avars, Decided
  <2>2. /\ \A c \in Calls : pc'[c] = "logged" => KindOf[c] # "delegate"
        /\ \A c \in Decided' : KindOf[c] = "approve" => at'[c] = Steps
        /\ status' \in {"none", "pending"} => Decided' = {}
        /\ \A c \in Calls : pc'[c] \notin {"idle", "refused"} => found'[c] = {}
    BY <2>1 DEF ChainInv
  <2>3. /\ \A s \in Nat \ {0} : s < step' => Entries(s, Raises)' # {}
        /\ \A s \in Nat \ {0}, c \in Calls : s < at'[c] => Entries(s, Raises)' # {}
    BY <1>0, <2>1 DEF ChainInv
  <2> QED BY <2>2, <2>3 DEF ChainInv
<1>2. ASSUME NEW c \in Calls, Read(c) PROVE ChainInv'
  <2>1. Open => Decided = {}
    BY <1>2 DEF ChainInv, Open
  <2>2. /\ Decided' = Decided /\ UNCHANGED <<status, step>>
        /\ \A d \in Calls \ {c} : pc'[d] = pc[d] /\ at'[d] = at[d] /\ found'[d] = found[d]
        /\ at'[c] = step /\ found'[c] = Decided
        /\ pc'[c] = IF Open THEN "read" ELSE "refused"
    BY <1>2 DEF Read, Decided
  <2>3. /\ \A d \in Calls : pc'[d] = "logged" => KindOf[d] # "delegate"
        /\ \A d \in Decided' : KindOf[d] = "approve" => at'[d] = Steps
        /\ status' \in {"none", "pending"} => Decided' = {}
        /\ \A d \in Calls : pc'[d] \notin {"idle", "refused"} => found'[d] = {}
    BY <1>2, <2>1, <2>2 DEF ChainInv, Read, Decided
  <2>4. /\ \A s \in Nat \ {0} : s < step' => Entries(s, Raises)' # {}
        /\ \A s \in Nat \ {0}, d \in Calls : s < at'[d] => Entries(s, Raises)' # {}
    BY <1>0, <2>2 DEF ChainInv
  <2> QED BY <2>3, <2>4 DEF ChainInv
<1>3. ASSUME NEW c \in Calls, Log(c) \/ Fail(c) PROVE ChainInv'
  <2>1. /\ Decided' = Decided /\ UNCHANGED <<status, step, at, found>>
        /\ \A d \in Calls \ {c} : pc'[d] = pc[d]
        /\ pc[c] \in {"read", "logged"} /\ pc'[c] \in {"logged", "over", "failed"}
        /\ pc'[c] = "logged" => KindOf[c] # "delegate"
    BY <1>3 DEF Log, Fail, Decided
  <2>2. /\ \A d \in Calls : pc'[d] = "logged" => KindOf[d] # "delegate"
        /\ \A d \in Decided' : KindOf[d] = "approve" => at'[d] = Steps
        /\ status' \in {"none", "pending"} => Decided' = {}
        /\ \A d \in Calls : pc'[d] \notin {"idle", "refused"} => found'[d] = {}
    BY <2>1 DEF ChainInv
  <2>3. /\ \A s \in Nat \ {0} : s < step' => Entries(s, Raises)' # {}
        /\ \A s \in Nat \ {0}, d \in Calls : s < at'[d] => Entries(s, Raises)' # {}
    BY <1>0, <2>1 DEF ChainInv
  <2> QED BY <2>2, <2>3 DEF ChainInv
<1>4. ASSUME NEW c \in Calls, Advance(c) PROVE ChainInv'
  <2>1. /\ Decided' = Decided /\ UNCHANGED <<status, at, found>>
        /\ \A d \in Calls \ {c} : pc'[d] = pc[d]
        /\ pc[c] = "logged" /\ pc'[c] = "over" /\ step' = at[c] + 1
    BY <1>4 DEF Advance, Decided, NextStep
  <2>2. KindOf[c] \in Raises
    BY <1>4, ApprovalsAssumption DEF Advance, Deciding, ChainInv, Kinds, Raises
  <2>3. \A s : s = at[c] => c \in Entries(s, Raises)'
    BY <2>1, <2>2 DEF Entries
  <2>4. \A s \in Nat \ {0} : s < step' => Entries(s, Raises)' # {}
    <3> SUFFICES ASSUME NEW s \in Nat \ {0}, s < at[c] + 1 PROVE Entries(s, Raises)' # {}
      BY <2>1
    <3>1. CASE s = at[c]
      BY <2>3, <3>1
    <3>2. CASE s # at[c]
      <4>1. at[c] \in Nat
        BY ApprovalsAssumption
      <4>2. s < at[c]
        BY <3>2, <4>1
      <4> QED BY <1>0, <4>2 DEF ChainInv
    <3> QED BY <3>1, <3>2
  <2>5. \A s \in Nat \ {0}, d \in Calls : s < at'[d] => Entries(s, Raises)' # {}
    BY <1>0, <2>1 DEF ChainInv
  <2> QED BY <2>1, <2>4, <2>5 DEF ChainInv
<1>5. ASSUME NEW c \in Calls, Decide(c) PROVE ChainInv'
  <2>1. /\ Decided' = Decided \union {c} /\ UNCHANGED <<step, at, found>>
        /\ \A d \in Calls \ {c} : pc'[d] = pc[d]
        /\ pc[c] = "logged" /\ pc'[c] = "decided"
    BY <1>5 DEF Decide, Decided
  <2>2. KindOf[c] \in {"approve", "reject", "escalate"}
    BY <2>1, ApprovalsAssumption DEF ChainInv, Kinds
  <2>3. status' \in {"approved", "rejected", "escalated"}
    BY <1>5, <2>2 DEF Decide, Outcome
  <2>4. KindOf[c] = "approve" => at[c] = Steps
    BY <1>5, ApprovalsAssumption DEF Decide, Deciding
  <2>5. /\ \A s \in Nat \ {0} : s < step' => Entries(s, Raises)' # {}
        /\ \A s \in Nat \ {0}, d \in Calls : s < at'[d] => Entries(s, Raises)' # {}
    BY <1>0, <2>1 DEF ChainInv
  <2> QED BY <2>1, <2>3, <2>4, <2>5 DEF ChainInv
<1> QED BY <1>1, <1>2, <1>3, <1>4, <1>5 DEF ApprovalStep, CallNext

THEOREM ApprovalInvariant == Spec => []ApprovalInv
<1>1. ApprovalInv /\ [Next]_vars => ApprovalInv'
  BY StepsOfApprovals, ApprovalTypeStep, ChainStep DEF ApprovalInv
<1> QED BY <1>1, ApprovalInit, PTL DEF Spec

\* No request is approved over a step of its chain that nobody approved or
\* escalated, for a chain of any length and any calls.
THEOREM ChainIsWhole == Spec => []EveryStepDecided
<1>1. ApprovalInv => EveryStepDecided
  <2> SUFFICES ASSUME ApprovalInv, NEW c \in Decided, KindOf[c] = "approve"
               PROVE  at[c] = Steps /\ \A s \in 1..(Steps - 1) : Entries(s, Raises) # {}
    BY DEF EveryStepDecided, Raises
  <2>1. at[c] = Steps /\ c \in Calls /\ Steps \in Nat
    BY ApprovalsAssumption DEF ApprovalInv, ChainInv, Decided
  <2>2. \A s \in 1..(Steps - 1) : s \in Nat \ {0} /\ s < Steps
    BY <2>1
  <2> QED BY <2>1, <2>2 DEF ApprovalInv, ChainInv
<1> QED BY <1>1, ApprovalInvariant, PTL

\* Two calls decide one request only if each read it before the other wrote it.
THEOREM DecisionsOnlyOverlap == Spec => []DecisionsOverlap
<1>1. ApprovalInv => DecisionsOverlap
  BY DEF ApprovalInv, ChainInv, DecisionsOverlap, Decided
<1> QED BY <1>1, ApprovalInvariant, PTL

------------------------------------------------------------------------------

\* Places of a resolution that come before it has created the next step.
Ahead == {"link", "run", "lock", "check", "row", "create"}
Upcoming == {c \in Approvers : res[c] \in Ahead}

\* What bounds the engine: a resolution is that of a decision, only approvals
\* advance, each has at most one next step to create, and what has ended the
\* execution is a resolution that is through.
ResInv ==
  /\ \A c \in Calls : res[c] # "none" => c \in Deciders
  /\ \A c \in Calls : res[c] \in (Ahead \ {"link"}) \union {"end"} => c \in Approvers
  /\ IsFiniteSet(Decided)
  /\ nexts + Cardinality(Upcoming) <= Cardinality(Approvers)
  /\ Ended => \E c \in Decided : res[c] \in {"unlock", "over"}

EngineInv == ApprovalInv /\ WorkflowTypeOK /\ ResInv

LEMMA EngineInit == Init => EngineInv
<1> SUFFICES ASSUME Init PROVE EngineInv
  OBVIOUS
<1>1. ApprovalInv /\ ApprovalsTypeOK
  BY ApprovalInit DEF ApprovalInv
<1>2. WorkflowTypeOK
  BY <1>1 DEF Init, WorkflowTypeOK
<1>3. Decided = {} /\ Approvers = {} /\ Upcoming = {}
  BY DEF Init, ApprovalsInit, Decided, Approvers, Upcoming
<1>4. ResInv
  <2>1. IsFiniteSet(Decided) /\ nexts + Cardinality(Upcoming) <= Cardinality(Approvers)
    <3>1. nexts = 0
      BY DEF Init
    <3>2. IsFiniteSet({}) /\ Cardinality({}) = 0
      BY FS_EmptySet
    <3> QED BY <1>3, <3>1, <3>2
  <2>2. \A c \in Calls : res[c] = "none"
    BY DEF Init
  <2>3. ~Ended
    BY DEF Init, Ended
  <2> QED BY <2>1, <2>2, <2>3 DEF ResInv, Ahead
<1> QED BY <1>1, <1>2, <1>4 DEF EngineInv

LEMMA EngineTypeStep ==
  ASSUME EngineInv, [Next]_vars PROVE WorkflowTypeOK'
<1>0. ApprovalsTypeOK'
  BY StepsOfApprovals, ApprovalTypeStep DEF EngineInv
<1> USE DEF EngineInv, WorkflowTypeOK, Resolving
<1>1. CASE Ask \/ Link \/ Pause
  BY <1>0, <1>1 DEF Ask, Link, Pause
<1>2. ASSUME NEW c \in Calls, Call(c) PROVE WorkflowTypeOK'
  BY <1>0, <1>2 DEF Call
<1>3. ASSUME NEW c \in Calls, FindLink(c) \/ SetRunning(c) \/ Check(c) \/ CompleteRow(c)
                                \/ Complete(c) PROVE WorkflowTypeOK'
  <2>1. \E s \in Resolving \union {"over"} : res' = [res EXCEPT ![c] = s]
    BY <1>3 DEF FindLink, SetRunning, Check, CompleteRow, Complete, To
  <2>2. /\ trouble' \in BOOLEAN /\ exec' \in {"running", "paused", "completed", "failed"}
        /\ row' \in {"active", "completed", "failed"}
    BY <1>3 DEF FindLink, SetRunning, Check, CompleteRow, Complete, Done
  <2>3. UNCHANGED <<asking, linked, nexts, held>>
    BY <1>3 DEF FindLink, SetRunning, Check, CompleteRow, Complete
  <2> QED BY <1>0, <2>1, <2>2, <2>3
<1>4. ASSUME NEW c \in Calls, CreateNext(c) \/ End(c) \/ FailRow(c) \/ FailExec(c)
      PROVE  WorkflowTypeOK'
  BY <1>0, <1>4 DEF CreateNext, End, FailRow, FailExec, To, Done
<1>5. ASSUME NEW c \in Calls, NEW k \in Conns, TryLock(c, k) PROVE WorkflowTypeOK'
  BY <1>0, <1>5 DEF TryLock, To
<1>6. ASSUME NEW c \in Calls, NEW k \in Conns, Unlock(c, k) PROVE WorkflowTypeOK'
  <2>1. held' \in [Conns -> Nat]
    <3>1. \A n \in Nat : (IF n = 0 THEN 0 ELSE n - 1) \in Nat
      OBVIOUS
    <3> QED BY <1>6, <3>1 DEF Unlock
  <2> QED BY <1>0, <1>6, <2>1 DEF Unlock, To, AfterUnlock
<1>7. ASSUME NEW c \in Calls, Break(c) PROVE WorkflowTypeOK'
  BY <1>0, <1>7 DEF Break, To
<1>8. CASE Crash
  <2>1. held' \in [Conns -> Nat] /\ asking' = "done" /\ trouble' = TRUE
    BY <1>8 DEF Crash
  <2>2. res' \in [Calls -> Resolving \union {"none", "over"}]
    BY <1>8 DEF Crash
  <2>3. UNCHANGED <<linked, exec, row, nexts>>
    BY <1>8 DEF Crash
  <2> QED BY <1>0, <2>1, <2>2, <2>3
<1>9. ASSUME NEW k \in Conns, Close(k) PROVE WorkflowTypeOK'
  BY <1>0, <1>9 DEF Close
<1>10. CASE UNCHANGED vars
  BY <1>0, <1>10 DEF vars, engine
<1> QED BY <1>1, <1>2, <1>3, <1>4, <1>5, <1>6, <1>7, <1>8, <1>9, <1>10 DEF Next, Resolve

LEMMA ApproversFinite ==
  ASSUME IsFiniteSet(Decided)
  PROVE  /\ IsFiniteSet(Approvers) /\ IsFiniteSet(Upcoming)
         /\ Cardinality(Approvers) \in Nat /\ Cardinality(Upcoming) \in Nat
<1>1. Approvers \in SUBSET Decided /\ Upcoming \in SUBSET Decided
  BY DEF Approvers, Upcoming
<1>2. IsFiniteSet(Approvers) /\ IsFiniteSet(Upcoming)
  BY <1>1, FS_Subset
<1> QED BY <1>2, FS_CardinalityType

\* A step of the resolution of c leaves the others alone and sends c on, never back
\* to a place ahead of the next step, and creates at most what c was ahead of.
LEMMA ResolutionStep ==
  ASSUME EngineInv, NEW c \in Calls, Resolve(c) \/ Break(c)
  PROVE  /\ res[c] \notin {"none", "over"} /\ res'[c] # "none"
         /\ \A d \in Calls \ {c} : res'[d] = res[d]
         /\ res'[c] \in Ahead => res[c] \in Ahead
         /\ res'[c] \in (Ahead \ {"link"}) \union {"end"} => c \in Approvers
         /\ res[c] = "unlock" => res'[c] = "over"
         /\ exec' = exec \/ res[c] \in {"run", "end", "failexec"}
         /\ exec' # exec /\ res[c] # "run" => res'[c] \in {"unlock", "over"}
         /\ \/ nexts' = nexts
            \/ nexts' = nexts + 1 /\ res[c] = "create" /\ res'[c] = "end"
         /\ UNCHANGED avars
<1> USE DEF EngineInv, WorkflowTypeOK, Resolving, Ahead, To
<1>1. CASE FindLink(c)
  BY <1>1, ApprovalsAssumption DEF FindLink, ResInv, Deciders, Approvers
<1>2. CASE SetRunning(c)
  BY <1>2 DEF SetRunning, ResInv
<1>3. CASE Check(c) \/ CompleteRow(c)
  BY <1>3 DEF Check, CompleteRow, ResInv
<1>4. CASE CreateNext(c) \/ End(c)
  BY <1>4 DEF CreateNext, End, ResInv
<1>5. CASE Complete(c) \/ FailRow(c) \/ FailExec(c)
  BY <1>5 DEF Complete, FailRow, FailExec
<1>6. ASSUME NEW k \in Conns, TryLock(c, k) PROVE res[c] = "lock" /\ \E s \in {"check", "complete"} : To(c, s)
  BY <1>6 DEF TryLock
<1>7. ASSUME NEW k \in Conns, Unlock(c, k)
      PROVE  \/ res[c] = "unlock" /\ To(c, "over")
             \/ res[c] = "giveup" /\ To(c, "complete")
  BY <1>7 DEF Unlock, AfterUnlock
<1>8. CASE \E k \in Conns : TryLock(c, k)
  <2>1. UNCHANGED <<avars, exec, nexts>>
    BY <1>8 DEF TryLock
  <2> QED BY <1>6, <1>8, <2>1 DEF ResInv
<1>9. CASE \E k \in Conns : Unlock(c, k)
  <2>1. UNCHANGED <<avars, exec, nexts>>
    BY <1>9 DEF Unlock
  <2> QED BY <1>7, <1>9, <2>1
<1>10. CASE Break(c)
  BY <1>10 DEF Break, Advancing
<1> QED BY <1>1, <1>2, <1>3, <1>4, <1>5, <1>8, <1>9, <1>10 DEF Resolve

\* What a call does to the decisions, and to its own resolution.
LEMMA CallStep ==
  ASSUME EngineInv, NEW c \in Calls, Call(c)
  PROVE  /\ UNCHANGED <<exec, nexts>>
         /\ \A d \in Calls \ {c} : res'[d] = res[d]
         /\ \/ Decided' = Decided /\ res' = res
            \/ /\ c \notin Decided /\ Decided' = Decided \union {c} /\ res[c] = "none"
               /\ res'[c] = IF KindOf[c] = "escalate" THEN "none" ELSE "link"
<1> USE DEF EngineInv, WorkflowTypeOK, ApprovalsTypeOK
<1>0. \A d \in Calls \ {c} : pc'[d] = pc[d]
  BY DEF Call, CallNext, Read, Log, Advance, Decide, Fail
<1>1. /\ UNCHANGED <<exec, nexts>> /\ res' = [res EXCEPT ![c] = IF Notifies(c) THEN "link" ELSE @]
  BY DEF Call
<1>2. CASE pc'[c] = "decided"
  <2>1. pc[c] = "logged"
    BY <1>2 DEF Call, CallNext, Read, Log, Advance, Decide, Fail
  <2>2. c \notin Decided /\ Decided' = Decided \union {c}
    BY <1>0, <1>2, <2>1 DEF Decided
  <2>3. res[c] = "none"
    BY <2>2 DEF ResInv, Deciders
  <2> QED BY <1>1, <1>2, <2>2, <2>3 DEF Notifies
<1>3. CASE pc'[c] # "decided"
  <2>1. pc[c] # "decided"
    BY DEF Call, CallNext, Read, Log, Advance, Decide, Fail
  <2>2. Decided' = Decided
    BY <1>0, <1>3, <2>1 DEF Decided
  <2> QED BY <1>1, <1>3, <2>2 DEF Notifies
<1> QED BY <1>2, <1>3

LEMMA ResStep ==
  ASSUME EngineInv, [Next]_vars PROVE ResInv'
<1> USE DEF EngineInv, WorkflowTypeOK
<1>0. /\ IsFiniteSet(Approvers) /\ IsFiniteSet(Upcoming) /\ nexts \in Nat
      /\ Cardinality(Approvers) \in Nat /\ Cardinality(Upcoming) \in Nat
  BY ApproversFinite DEF ResInv
<1>1. ASSUME NEW c \in Calls, Call(c) PROVE ResInv'
  <2>0. /\ UNCHANGED <<exec, nexts>>
        /\ \A d \in Calls \ {c} : res'[d] = res[d]
        /\ \/ Decided' = Decided /\ res' = res
           \/ /\ c \notin Decided /\ Decided' = Decided \union {c} /\ res[c] = "none"
              /\ res'[c] = IF KindOf[c] = "escalate" THEN "none" ELSE "link"
    BY <1>1, CallStep
  <2>1. CASE Decided' = Decided /\ res' = res
    BY <2>0, <2>1 DEF ResInv, Deciders, Approvers, Upcoming, Ended
  <2>2. CASE /\ c \notin Decided /\ Decided' = Decided \union {c} /\ res[c] = "none"
             /\ res'[c] = IF KindOf[c] = "escalate" THEN "none" ELSE "link"
    <3>1. IsFiniteSet(Decided')
      BY <2>2, FS_AddElement DEF ResInv
    <3>2. /\ \A d \in Calls : res'[d] # "none" => d \in Deciders'
          /\ \A d \in Calls : res'[d] \in (Ahead \ {"link"}) \union {"end"} => d \in Approvers'
      BY <2>0, <2>2 DEF ResInv, Deciders, Approvers, Ahead, Decided
    <3>3. Ended' => \E d \in Decided' : res'[d] \in {"unlock", "over"}
      BY <2>0, <2>2 DEF ResInv, Ended, Decided
    <3>4. nexts' + Cardinality(Upcoming') <= Cardinality(Approvers')
      <4>1. CASE KindOf[c] = "approve"
        <5>1. /\ c \notin Approvers /\ Approvers' = Approvers \union {c}
              /\ c \notin Upcoming /\ Upcoming' = Upcoming \union {c}
          BY <2>0, <2>2, <4>1 DEF Approvers, Upcoming, Ahead, Decided
        <5>2. /\ Cardinality(Approvers') = Cardinality(Approvers) + 1
              /\ Cardinality(Upcoming') = Cardinality(Upcoming) + 1
          BY <1>0, <5>1, FS_AddElement
        <5> QED BY <1>0, <2>0, <5>2 DEF ResInv
      <4>2. CASE KindOf[c] # "approve"
        <5>1. Approvers' = Approvers /\ Upcoming' = Upcoming
          BY <2>0, <2>2, <4>2 DEF Approvers, Upcoming, Ahead, Decided
        <5> QED BY <2>0, <5>1 DEF ResInv
      <4> QED BY <4>1, <4>2
    <3> QED BY <3>1, <3>2, <3>3, <3>4 DEF ResInv
  <2> QED BY <2>0, <2>1, <2>2
<1>2. ASSUME NEW c \in Calls, Resolve(c) \/ Break(c) PROVE ResInv'
  <2>0. /\ res[c] \notin {"none", "over"} /\ res'[c] # "none"
        /\ \A d \in Calls \ {c} : res'[d] = res[d]
        /\ res'[c] \in Ahead => res[c] \in Ahead
        /\ res'[c] \in (Ahead \ {"link"}) \union {"end"} => c \in Approvers
        /\ res[c] = "unlock" => res'[c] = "over"
        /\ exec' = exec \/ res[c] \in {"run", "end", "failexec"}
        /\ exec' # exec /\ res[c] # "run" => res'[c] \in {"unlock", "over"}
        /\ \/ nexts' = nexts
           \/ nexts' = nexts + 1 /\ res[c] = "create" /\ res'[c] = "end"
        /\ UNCHANGED avars
    BY <1>2, ResolutionStep
  <2>1. Decided' = Decided /\ Approvers' = Approvers /\ Deciders' = Deciders /\ c \in Decided
    BY <2>0 DEF avars, calls, Decided, Approvers, Deciders, ResInv
  <2>2. /\ \A d \in Calls : res'[d] # "none" => d \in Deciders'
        /\ \A d \in Calls : res'[d] \in (Ahead \ {"link"}) \union {"end"} => d \in Approvers'
    BY <2>0, <2>1 DEF ResInv
  <2>3. Ended' => \E d \in Decided' : res'[d] \in {"unlock", "over"}
    <3>1. CASE exec' # exec /\ res[c] # "run"
      BY <2>0, <2>1, <3>1
    <3>2. CASE res[c] = "run" /\ exec' # exec
      <4>1. exec' = "running"
        BY <1>2, <3>2 DEF Resolve, Break, FindLink, SetRunning, Check, CompleteRow, CreateNext,
                          End, Complete, FailRow, FailExec, TryLock, Unlock
      <4> QED BY <4>1 DEF Ended
    <3>3. CASE exec' = exec
      <4>1. Ended' => Ended
        BY <3>3 DEF Ended
      <4>2. \A d \in Decided : res[d] \in {"unlock", "over"} => res'[d] \in {"unlock", "over"}
        BY <2>0 DEF Decided
      <4> QED BY <2>1, <4>1, <4>2 DEF ResInv
    <3> QED BY <3>1, <3>2, <3>3
  <2>4. nexts' + Cardinality(Upcoming') <= Cardinality(Approvers')
    <3>1. Upcoming' \in SUBSET Upcoming
      <4>1. \A d \in Approvers : d \in Calls
        BY DEF Approvers, Decided
      <4>2. \A d \in Calls : res'[d] \in Ahead => res[d] \in Ahead
        BY <2>0
      <4> QED BY <2>1, <4>1, <4>2 DEF Upcoming
    <3>2. Cardinality(Upcoming') <= Cardinality(Upcoming) /\ Cardinality(Upcoming') \in Nat
      BY <1>0, <3>1, FS_Subset, FS_CardinalityType
    <3>3. CASE nexts' = nexts
      BY <1>0, <2>1, <3>2, <3>3 DEF ResInv
    <3>4. CASE nexts' = nexts + 1 /\ res[c] = "create" /\ res'[c] = "end"
      <4>1. c \in Upcoming /\ c \notin Upcoming'
        BY <3>4 DEF ResInv, Upcoming, Ahead
      <4>2. Cardinality(Upcoming') # Cardinality(Upcoming)
        BY <1>0, <3>1, <4>1, FS_Subset
      <4> QED BY <1>0, <2>1, <3>2, <3>4, <4>2 DEF ResInv
    <3> QED BY <2>0, <3>3, <3>4
  <2> QED BY <2>1, <2>2, <2>3, <2>4 DEF ResInv
<1>3. CASE Crash
  <2>1. /\ Decided' = Decided /\ Approvers' = Approvers /\ Deciders' = Deciders
        /\ \A c \in Calls : res'[c] = IF res[c] = "none" THEN "none" ELSE "over"
        /\ UNCHANGED <<exec, nexts>>
    BY <1>3 DEF Crash, Decided, Approvers, Deciders, ApprovalsTypeOK
  <2>2. Upcoming' = {}
    BY <2>1 DEF Upcoming, Approvers, Decided, Ahead
  <2>3. nexts' + Cardinality(Upcoming') <= Cardinality(Approvers')
    <3>1. Cardinality(Upcoming') = 0
      BY <2>2, FS_EmptySet
    <3> QED BY <1>0, <2>1, <3>1 DEF ResInv
  <2>4. Ended' => \E c \in Decided' : res'[c] \in {"unlock", "over"}
    BY <2>1 DEF ResInv, Ended, Decided
  <2> QED BY <2>1, <2>3, <2>4 DEF ResInv, Ahead
<1>4. CASE Ask \/ Link \/ Pause \/ UNCHANGED vars \/ \E k \in Conns : Close(k)
  <2>1. /\ Decided' = Decided /\ res' = res /\ nexts' = nexts
        /\ exec' = exec \/ exec' = "paused"
    BY <1>4 DEF Ask, Link, Pause, Close, vars, avars, engine, calls, Submit, Decided
  <2>2. Approvers' = Approvers /\ Deciders' = Deciders /\ Upcoming' = Upcoming
    BY <2>1 DEF Approvers, Deciders, Upcoming
  <2>3. Ended' => Ended
    BY <2>1 DEF Ended
  <2> QED BY <2>1, <2>2, <2>3 DEF ResInv
<1> QED BY <1>1, <1>2, <1>3, <1>4 DEF Next

LEMMA EngineInductive == EngineInv /\ [Next]_vars => EngineInv'
<1> SUFFICES ASSUME EngineInv, [Next]_vars PROVE EngineInv'
  OBVIOUS
<1>1. ApprovalInv'
  BY StepsOfApprovals, ApprovalTypeStep, ChainStep DEF EngineInv, ApprovalInv
<1> QED BY <1>1, EngineTypeStep, ResStep DEF EngineInv

THEOREM EngineInvariant == Spec => []EngineInv
BY EngineInit, EngineInductive, PTL DEF Spec

------------------------------------------------------------------------------

\* Every reachable state of the request and of the engine is typed.
THEOREM WorkflowTypeCorrect == Spec => []WorkflowTypeOK
BY EngineInvariant, PTL DEF EngineInv

\* The engine creates no more next steps than approvals were given, whatever locks
\* are lost, refused or left behind: the lock is not what the bound rests on.
THEOREM AdvancesBounded == Spec => []AdvancesAreApprovals
<1>1. EngineInv => AdvancesAreApprovals
  <2> SUFFICES ASSUME EngineInv PROVE AdvancesAreApprovals
    OBVIOUS
  <2>1. nexts \in Nat /\ Cardinality(Approvers) \in Nat /\ Cardinality(Upcoming) \in Nat
    BY ApproversFinite DEF EngineInv, ResInv, WorkflowTypeOK
  <2>2. nexts + Cardinality(Upcoming) <= Cardinality(Approvers)
    BY DEF EngineInv, ResInv
  <2> QED BY <2>1, <2>2 DEF AdvancesAreApprovals
<1> QED BY <1>1, EngineInvariant, PTL

\* Two members make a finite set one of at least two.
LEMMA TwoMembers ==
  ASSUME NEW S, IsFiniteSet(S), NEW c \in S, NEW d \in S, c # d
  PROVE  Cardinality(S) > 1
<1>1. {c, d} \in SUBSET S /\ IsFiniteSet({c}) /\ Cardinality({c}) = 1
  BY FS_Singleton
<1>2. {c, d} = {c} \union {d} /\ d \notin {c}
  OBVIOUS
<1>3. Cardinality({c, d}) = 2
  BY <1>1, <1>2, FS_AddElement
<1>4. Cardinality({c, d}) <= Cardinality(S) /\ Cardinality(S) \in Nat
  BY <1>1, FS_Subset, FS_CardinalityType
<1> QED BY <1>3, <1>4

LEMMA EndChanges ==
  ASSUME EngineInv, [Next]_vars, Ended, exec' # exec, asking # "pause"
  PROVE  Cardinality(Decided) > 1
<1>1. PICK c \in Calls : Resolve(c) \/ Break(c)
  BY DEF Next, Ask, Link, Pause, Call, Crash, Close, vars, engine
<1>2. res[c] \in {"run", "end", "failexec"}
  BY <1>1, ResolutionStep
<1>3. c \in Decided /\ IsFiniteSet(Decided)
  BY <1>2 DEF EngineInv, ResInv, Deciders
<1>4. PICK d \in Decided : res[d] \in {"unlock", "over"}
  BY DEF EngineInv, ResInv
<1>5. c # d
  BY <1>2, <1>4
<1> QED BY <1>3, <1>5, TwoMembers

\* An execution that has ended changes only under a second decision, or by the pause
\* of an engine that was slower than the decision.
THEOREM EndsForGood == Spec => EndedStays
<1>1. EngineInv /\ [Next]_vars
        => [Ended => exec' = exec \/ asking = "pause" \/ Cardinality(Decided) > 1]_vars
  BY EndChanges
<1> QED BY <1>1, EngineInvariant, PTL DEF Spec, EndedStays

==============================================================================
