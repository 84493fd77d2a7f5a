------------------------------- MODULE Workflow -------------------------------
(***************************************************************************)
(* A workflow of platform-package that waits at an approval step: how the  *)
(* engine asks for the approval, and how it goes on when the request is    *)
(* decided.  The engine's calls are statements on whatever connections the *)
(* pool hands out; advancing takes a session's advisory lock with one      *)
(* statement and gives it back with another.                               *)
(*                                                                         *)
(* The step after the approval is the last one.                            *)
(***************************************************************************)
EXTENDS Approvals, FiniteSets

CONSTANTS Conns  \* connections of the pool

ASSUME WorkflowAssumption == Conns # {}

VARIABLES
  asking,   \* where createApprovalForStep is
  linked,   \* the request names the instance and the step
  exec,     \* status of the execution
  row,      \* status of the instance step that waits
  nexts,    \* instance steps created after it
  res,      \* where the resolution that a decision starts is
  held,     \* times a connection holds the instance's advisory lock
  trouble   \* history: a decision before the link, a failure, a refusal or a crash

engine == <<asking, linked, exec, row, nexts, res, held, trouble>>
vars == <<avars, engine>>

Resolving == {"link", "run", "lock", "check", "row", "create", "end", "unlock", "giveup", "complete", "failrow", "failexec"}
Advancing == {"check", "row", "create", "end"}

WorkflowTypeOK ==
  /\ ApprovalsTypeOK
  /\ asking \in {"submit", "link", "pause", "done"}
  /\ linked \in BOOLEAN
  /\ exec \in {"running", "paused", "completed", "failed"}
  /\ row \in {"active", "completed", "failed"}
  /\ nexts \in Nat
  /\ res \in [Calls -> Resolving \union {"none", "over"}]
  /\ held \in [Conns -> Nat]
  /\ trouble \in BOOLEAN

Init ==
  /\ ApprovalsInit
  /\ asking = "submit" /\ linked = FALSE
  /\ exec = "running" /\ row = "active" /\ nexts = 0
  /\ res = [c \in Calls |-> "none"]
  /\ held = [k \in Conns |-> 0]
  /\ trouble = FALSE

To(c, place) == res' = [res EXCEPT ![c] = place]

------------------------------------------------------------------------------
(* createApprovalForStep.  The approvers are told when the request is there. *)

\* A failure before the request is there, or right after it, ends all this.
Ask ==
  /\ asking = "submit"
  /\ \/ Submit /\ asking' \in {"link", "done"}
     \/ asking' = "done" /\ UNCHANGED avars
  /\ UNCHANGED <<linked, exec, row, nexts, res, held, trouble>>

\* A failure is swallowed.
Link ==
  /\ asking = "link"
  /\ asking' = "pause"
  /\ linked' \in {TRUE, linked}
  /\ UNCHANGED <<avars, exec, row, nexts, res, held, trouble>>

Pause ==
  /\ asking = "pause"
  /\ asking' = "done"
  /\ exec' \in {"paused", exec}
  /\ UNCHANGED <<avars, linked, row, nexts, res, held, trouble>>

------------------------------------------------------------------------------
(* The calls of the approval engine, and onApprovalResolved, which a call  *)
(* that has approved or rejected starts and does not wait for.             *)

NotifiesEveryStep(c) == pc'[c] \in {"decided", "over"} /\ KindOf[c] # "escalate"
Notifies(c) == pc'[c] = "decided" /\ KindOf[c] # "escalate"

Call(c) ==
  /\ CallNext(c)
  /\ res' = [res EXCEPT ![c] = IF Notifies(c) THEN "link" ELSE @]
  /\ UNCHANGED <<asking, linked, exec, row, nexts, held, trouble>>

FindLink(c) ==
  /\ res[c] = "link"
  /\ To(c, IF ~linked THEN "over" ELSE IF KindOf[c] = "approve" THEN "run" ELSE "failrow")
  /\ trouble' = (trouble \/ ~linked)
  /\ UNCHANGED <<avars, asking, linked, exec, row, nexts, held>>

SetRunning(c) ==
  /\ res[c] = "run"
  /\ exec' = "running"
  /\ To(c, "lock")
  /\ UNCHANGED <<avars, asking, linked, row, nexts, held, trouble>>

\* The lock is the connection's, and a connection that has it gets it again.
LockFree(k) == \A j \in Conns \ {k} : held[j] = 0

TryLock(c, k) ==
  /\ res[c] = "lock"
  /\ IF LockFree(k) THEN held' = [held EXCEPT ![k] = @ + 1] /\ To(c, "check")
                    ELSE UNCHANGED held /\ To(c, "complete")
  /\ UNCHANGED <<avars, asking, linked, exec, row, nexts, trouble>>

AdvancesRunning == {"running"}
Advances == {"running", "paused"}

\* The conditions of the transition and the lifecycle authorisation are checked in
\* Break.
Check(c) ==
  /\ res[c] = "check"
  /\ To(c, IF exec \in Advances THEN "row" ELSE "giveup")
  /\ UNCHANGED <<avars, asking, linked, exec, row, nexts, held, trouble>>

\* The step that is active is looked up and then written; here in one step, which
\* the properties do not tell from two.
Done(status0) == IF row = "active" THEN status0 ELSE row

CompleteRow(c) ==
  /\ res[c] = "row"
  /\ row' = Done("completed")
  /\ To(c, "create")
  /\ UNCHANGED <<avars, asking, linked, exec, nexts, held, trouble>>

CreateNext(c) ==
  /\ res[c] = "create"
  /\ nexts' = nexts + 1
  /\ To(c, "end")
  /\ UNCHANGED <<avars, asking, linked, exec, row, held, trouble>>

End(c) ==
  /\ res[c] = "end"
  /\ exec' = "completed"
  /\ To(c, "unlock")
  /\ UNCHANGED <<avars, asking, linked, row, nexts, held, trouble>>

AfterUnlockAgain(c) == IF res[c] = "unlock" THEN "over" ELSE "lock"
AfterUnlock(c) == IF res[c] = "unlock" THEN "over" ELSE "complete"

\* On a connection that does not have the lock this does nothing.
Unlock(c, k) ==
  /\ res[c] \in {"unlock", "giveup"}
  /\ held' = [held EXCEPT ![k] = IF @ = 0 THEN 0 ELSE @ - 1]
  /\ To(c, AfterUnlock(c))
  /\ UNCHANGED <<avars, asking, linked, exec, row, nexts, trouble>>

\* What an approval does when it cannot advance; without an active step it throws.
Complete(c) ==
  /\ res[c] = "complete"
  /\ row' = Done("completed")
  /\ To(c, "over")
  /\ UNCHANGED <<avars, asking, linked, exec, nexts, held, trouble>>

FailRow(c) ==
  /\ res[c] = "failrow"
  /\ row' = Done("failed")
  /\ To(c, "failexec")
  /\ UNCHANGED <<avars, asking, linked, exec, nexts, held, trouble>>

FailExec(c) ==
  /\ res[c] = "failexec"
  /\ exec' = "failed"
  /\ To(c, "over")
  /\ UNCHANGED <<avars, asking, linked, row, nexts, held, trouble>>

Resolve(c) ==
  \/ FindLink(c) \/ SetRunning(c) \/ Check(c) \/ CompleteRow(c) \/ CreateNext(c)
  \/ End(c) \/ Complete(c) \/ FailRow(c) \/ FailExec(c)
  \/ \E k \in Conns : TryLock(c, k) \/ Unlock(c, k)

\* A statement fails, or the advance is refused: under the lock it is given back and
\* the approval completes the step instead, elsewhere the resolution ends.
Break(c) ==
  /\ res[c] \in Resolving \ {"unlock", "giveup"}
  /\ trouble' = TRUE
  /\ To(c, IF res[c] \in Advancing THEN "giveup" ELSE "over")
  /\ UNCHANGED <<avars, asking, linked, exec, row, nexts, held>>

------------------------------------------------------------------------------
\* The process dies: what it was doing stops, its connections close.
Crash ==
  /\ trouble' = TRUE
  /\ asking' = "done"
  /\ pc' = [c \in Calls |-> IF pc[c] \in {"read", "logged"} THEN "failed" ELSE pc[c]]
  /\ res' = [c \in Calls |-> IF res[c] = "none" THEN "none" ELSE "over"]
  /\ held' = [k \in Conns |-> 0]
  /\ UNCHANGED <<request, at, found, linked, exec, row, nexts>>

\* The pool closes a connection; it does so when it has been idle.
Close(k) ==
  /\ held[k] > 0
  /\ held' = [held EXCEPT ![k] = 0]
  /\ UNCHANGED <<avars, asking, linked, exec, row, nexts, res, trouble>>

Next ==
  \/ Ask \/ Link \/ Pause
  \/ \E c \in Calls : Call(c) \/ Resolve(c) \/ Break(c)
  \/ \E k \in Conns : Close(k)
  \/ Crash

\* A process that is up goes on with what it has started.
Spec == Init /\ [][Next]_vars /\ \A c \in Calls : WF_vars(Resolve(c))

------------------------------------------------------------------------------
(* Properties.                                                             *)

Ended == exec \in {"completed", "failed"}
Deciders == {c \in Decided : KindOf[c] # "escalate"}
Approvers == {c \in Decided : KindOf[c] = "approve"}
Left == \E k \in Conns : held[k] > 0 /\ \A c \in Calls : res[c] \notin Advancing \union {"unlock", "giveup"}

\* The workflow goes on no more often than its approval was given, however often the
\* engine tries, gives up and falls back.
AdvancesAreApprovals == nexts <= Cardinality(Approvers)

\* An execution that has ended stays as it ended, unless two calls decided its
\* request, or the decision came before the engine had paused it.
EndedStays ==
  [][Ended => exec' = exec \/ asking = "pause" \/ Cardinality(Decided) > 1]_vars

\* An approval is followed by the next step, unless it came before the request was
\* linked, was overlapped by a rejection, met a failure or a refusal, or a lock that
\* an earlier call had left behind on another connection.
ApprovedAdvances ==
  Approvers # {} ~> nexts > 0 \/ trouble \/ Left \/ Approvers # Deciders

\* What the engine says of its lock: one call at a time advances an instance.
AdvanceExclusive == Cardinality({c \in Calls : res[c] \in Advancing}) <= 1
==============================================================================
