------------------------------- MODULE AdminLog -------------------------------
(***************************************************************************)
(* The administrators' log of DOS: a table that only grows, each row with  *)
(* a hash over itself and over the hash of the row before it, and the      *)
(* request, approve and reject routes that append to it.  An append is one *)
(* transaction under READ COMMITTED that reads the last hash without       *)
(* locking anything; its row takes its id from a sequence when it is       *)
(* inserted, and is seen by others when it commits.                        *)
(*                                                                         *)
(* A call names the row it may append.  Its hash covers a fresh UUID and   *)
(* is like no other row's, so that the call stands for the hash too; the   *)
(* chain is the links between rows.                                        *)
(***************************************************************************)
EXTENDS Naturals

CONSTANTS
  Requests, Approvals, Rejections,  \* the calls that may happen
  NoRow,             \* the prev_hash of a first row
  ActorOf,           \* who makes a call
  TargetOf,          \* the row an approval names
  IdsComparable      \* the id column has the type the approve route casts to

Calls == Requests \union Approvals \union Rejections

ASSUME AdminLogAssumption ==
  /\ Requests \intersect Approvals = {}
  /\ Rejections \intersect (Requests \union Approvals) = {}
  /\ NoRow \notin Calls
  /\ TargetOf \in [Approvals -> Calls]
  /\ IdsComparable \in BOOLEAN

VARIABLES
  pc,       \* where a call is
  prev,     \* the prev_hash a call read
  id,       \* the id of a call's row, 0 before it is inserted
  next,     \* platform.admin_action_log_id_seq
  expired,  \* requests that are past their expires_at
  since     \* history: the rows that were committed when a call read the last hash

vars == <<pc, prev, id, next, expired, since>>

Committed == {c \in Calls : pc[c] = "done"}
LastOf(S) == IF S = {} THEN NoRow ELSE CHOOSE c \in S : \A d \in S : id[d] <= id[c]

AdminTypeOK ==
  /\ pc \in [Calls -> {"idle", "found", "read", "inserted", "done", "refused", "failed"}]
  /\ prev \in [Calls -> Calls \union {NoRow}]
  /\ id \in [Calls -> Nat]
  /\ next \in Nat \ {0}
  /\ expired \subseteq Requests
  /\ since \in [Calls -> SUBSET Calls]

Init ==
  /\ pc = [c \in Calls |-> "idle"]
  /\ prev = [c \in Calls |-> NoRow]
  /\ id = [c \in Calls |-> 0]
  /\ next = 1
  /\ expired = {}
  /\ since = [c \in Calls |-> {}]

------------------------------------------------------------------------------
(* Approving starts with a transaction of its own, which reads the request.*)

MayApproveOwn(a) ==
  /\ IdsComparable
  /\ TargetOf[a] \in Committed \intersect Requests
  /\ TargetOf[a] \notin expired

\* The row named is there, is a request, is another's and is not expired.
MayApprove(a) ==
  /\ IdsComparable
  /\ TargetOf[a] \in Committed \intersect Requests
  /\ ActorOf[TargetOf[a]] # ActorOf[a]
  /\ TargetOf[a] \notin expired

FindRequest(a) ==
  /\ pc[a] = "idle"
  /\ pc' = [pc EXCEPT ![a] = IF MayApprove(a) THEN "found" ELSE "refused"]
  /\ UNCHANGED <<prev, id, next, expired, since>>

------------------------------------------------------------------------------
(* Appending, the same for a request, an approval and a rejection.         *)

LastHashAny == LastOf({c \in Calls : pc[c] \in {"inserted", "done"}})
LastHashFirst ==
  IF Committed = {} THEN NoRow
  ELSE CHOOSE c \in Committed : \A d \in Committed : id[c] <= id[d]
LastHash == LastOf(Committed)

\* A rejection is not checked against anything.
ReadLastHash(c) ==
  /\ pc[c] = IF c \in Approvals THEN "found" ELSE "idle"
  /\ pc' = [pc EXCEPT ![c] = "read"]
  /\ prev' = [prev EXCEPT ![c] = LastHash]
  /\ since' = [since EXCEPT ![c] = Committed]
  /\ UNCHANGED <<id, next, expired>>

Insert(c) ==
  /\ pc[c] = "read"
  /\ pc' = [pc EXCEPT ![c] = "inserted"]
  /\ id' = [id EXCEPT ![c] = next]
  /\ next' = next + 1
  /\ UNCHANGED <<prev, expired, since>>

Commit(c) ==
  /\ pc[c] = "inserted"
  /\ pc' = [pc EXCEPT ![c] = "done"]
  /\ UNCHANGED <<prev, id, next, expired, since>>

\* The transaction rolls back; a number drawn from the sequence is gone.
Fail(c) ==
  /\ pc[c] \in {"read", "inserted"}
  /\ pc' = [pc EXCEPT ![c] = "failed"]
  /\ UNCHANGED <<prev, id, next, expired, since>>

Expire(r) ==
  /\ r \in Committed \ expired
  /\ expired' = expired \union {r}
  /\ UNCHANGED <<pc, prev, id, next, since>>

Next ==
  \/ \E a \in Approvals : FindRequest(a)
  \/ \E c \in Calls : ReadLastHash(c) \/ Insert(c) \/ Commit(c) \/ Fail(c)
  \/ \E r \in Requests : Expire(r)

Spec == Init /\ [][Next]_vars

------------------------------------------------------------------------------
(* What verifyChain checks of the links: one query over the committed rows *)
(* in the order of their ids, each to carry the hash of the row before it. *)
(* What else it checks, the hash of each row computed again, has no part   *)
(* here.                                                                   *)

Before(c) == {d \in Committed : id[d] < id[c]}
Unlinked == {c \in Committed : prev[c] # LastOf(Before(c))}

------------------------------------------------------------------------------
(* Properties.                                                             *)

\* The chain forks at a row only if another append, of a smaller id, had not
\* committed when this one read the last hash: failures, gaps in the ids and
\* commits out of the order of the ids unlink nothing by themselves.
ForkHasCause ==
  \A c \in Unlinked : \E d \in Before(c) : d \notin since[c]

\* A row that does not carry the hash of the row before it never will: no append,
\* however late it commits, hides a fork.
BreaksStay == [][Unlinked \subseteq Unlinked']_vars

\* An approval in the log comes after the request it approves, which was made by
\* another administrator and already committed when the approval's transaction began.
ApprovedByAnother ==
  \A a \in Approvals \intersect Committed :
    LET r == TargetOf[a] IN
      /\ r \in Requests \intersect since[a]
      /\ id[r] < id[a]
      /\ ActorOf[r] # ActorOf[a]
==============================================================================
