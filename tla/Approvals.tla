------------------------------ MODULE Approvals ------------------------------
(***************************************************************************)
(* One request of the approval engine of platform-package, which goes up a *)
(* chain of steps, and the calls that approve, reject, delegate and        *)
(* escalate it.  A call reads the request, adds to the log and writes the  *)
(* request, three statements with no transaction around them and no        *)
(* condition on the last: it writes what follows from what it read.        *)
(***************************************************************************)
EXTENDS Naturals

CONSTANTS
  Calls,
  KindOf,  \* what a call does
  Steps    \* length of the chain

Kinds == {"approve", "reject", "delegate", "escalate"}

ASSUME ApprovalsAssumption ==
  /\ KindOf \in [Calls -> Kinds]
  /\ Steps \in Nat \ {0}

VARIABLES
  status,  \* of the request, "none" before it is submitted
  step,    \* current_step of the request
  pc,      \* where a call is
  at,      \* the current_step a call read
  found    \* history: the calls that had decided when a call read

request == <<status, step>>
calls == <<pc, at, found>>
avars == <<request, calls>>

ApprovalsTypeOK ==
  /\ status \in {"none", "pending", "approved", "rejected", "escalated"}
  /\ step \in 1..Steps
  /\ pc \in [Calls -> {"idle", "read", "logged", "decided", "over", "refused", "failed"}]
  /\ at \in [Calls -> 1..Steps]
  /\ found \in [Calls -> SUBSET Calls]

ApprovalsInit ==
  /\ status = "none" /\ step = 1
  /\ pc = [c \in Calls |-> "idle"]
  /\ at = [c \in Calls |-> 1]
  /\ found = [c \in Calls |-> {}]

Decided == {c \in Calls : pc[c] = "decided"}
DecidingAnywhere(c) == KindOf[c] \in {"reject", "approve"} \/ at[c] >= Steps
\* Approving the last step, rejecting, and escalating the last step end a request.
Deciding(c) == KindOf[c] = "reject" \/ at[c] >= Steps

------------------------------------------------------------------------------

Submit ==
  /\ status = "none"
  /\ status' = "pending"
  /\ UNCHANGED <<step, calls>>

OpenWhenRejected == status \in {"pending", "rejected"}
Open == status = "pending"

Read(c) ==
  /\ pc[c] = "idle" /\ status # "none"
  /\ pc' = [pc EXCEPT ![c] = IF Open THEN "read" ELSE "refused"]
  /\ at' = [at EXCEPT ![c] = step]
  /\ found' = [found EXCEPT ![c] = Decided]
  /\ UNCHANGED request

\* A delegation is nothing but its entry in the log.
Log(c) ==
  /\ pc[c] = "read"
  /\ pc' = [pc EXCEPT ![c] = IF KindOf[c] = "delegate" THEN "over" ELSE "logged"]
  /\ UNCHANGED <<request, at, found>>

NextStep(c) == at[c] + 1

Advance(c) ==
  /\ pc[c] = "logged" /\ ~Deciding(c)
  /\ pc' = [pc EXCEPT ![c] = "over"]
  /\ step' = NextStep(c)
  /\ UNCHANGED <<status, at, found>>

Outcome == [approve |-> "approved", reject |-> "rejected", escalate |-> "escalated"]

Decide(c) ==
  /\ pc[c] = "logged" /\ Deciding(c)
  /\ pc' = [pc EXCEPT ![c] = "decided"]
  /\ status' = Outcome[KindOf[c]]
  /\ UNCHANGED <<step, at, found>>

\* A statement fails or the process dies: the entry in the log stays.
Fail(c) ==
  /\ pc[c] \in {"read", "logged"}
  /\ pc' = [pc EXCEPT ![c] = "failed"]
  /\ UNCHANGED <<request, at, found>>

CallNext(c) == Read(c) \/ Log(c) \/ Advance(c) \/ Decide(c) \/ Fail(c)

------------------------------------------------------------------------------
(* Properties.                                                             *)

\* A step that a call of this kind may have put in the log.
Entries(s, kinds) == {c \in Calls : pc[c] \in {"logged", "decided", "over", "failed"} /\ at[c] = s /\ KindOf[c] \in kinds}

\* A request is approved only with an approval of its last step in the log and an
\* approval or an escalation of every step before it: calls that overlap skip none.
EveryStepDecided ==
  \A c \in Decided : KindOf[c] = "approve" =>
    /\ at[c] = Steps
    /\ \A s \in 1..(Steps - 1) : Entries(s, {"approve", "escalate"}) # {}

\* Two calls decide one request only if each read it before the other wrote it.
DecisionsOverlap == \A c, d \in Decided : c \notin found[d]
==============================================================================
