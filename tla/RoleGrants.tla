------------------------------ MODULE RoleGrants ------------------------------
(***************************************************************************)
(* Role assignments of one user of one tenant: the grant and revoke routes,*)
(* the unique key of platform.role_assignments, and the trigger that       *)
(* checks segregation-of-duties rules before a row is inserted.  The       *)
(* database runs READ COMMITTED: every statement, those inside the trigger *)
(* too, sees what is committed when it starts.                             *)
(*                                                                         *)
(* A grant call names the row it may insert, as a revoke call names itself.*)
(***************************************************************************)
EXTENDS Naturals

CONSTANTS
  Grants, Revokes,   \* the calls that may happen
  Roles, Scopes,     \* a scope is the pair (scope, scope_id)
  NoScopeId,         \* the scope whose scope_id is NULL
  RoleOf, ScopeOf,   \* what a call is about
  Rules, Conflicts,  \* static rules and their conflict_set
  RulesAtStart,      \* the rules' state when the first call begins
  MaxRuleEdits       \* bound: edits and deletions of rules in a behaviour

ASSUME RoleGrantsAssumption ==
  /\ Grants \intersect Revokes = {}
  /\ RoleOf \in [Grants \union Revokes -> Roles]
  /\ ScopeOf \in [Grants \union Revokes -> Scopes]
  /\ Conflicts \in [Rules -> SUBSET Roles]
  /\ RulesAtStart \in [Rules -> {"none", "off", "warn", "block"}]
  /\ MaxRuleEdits \in Nat

VARIABLES
  edits,       \* rule edits so far
  rule,        \* a rule: not created, disabled, enforced one way or the other, deleted
  pc,          \* where a grant's transaction is
  toCheck,     \* rules (with their enforce) the trigger has yet to look at
  warned,      \* rules the open transaction inserted a warning about
  row,         \* the row of a grant: absent, inserted (not committed), active, revoked
  violations,  \* committed rows of sod_violations
  rpc, hit,    \* a revoke's transaction, and the rows its update locked
  read,        \* history: the rules (with their enforce) the trigger read
  since        \* history: the grants that were committed when a call began

vars == <<edits, rule, pc, toCheck, warned, row, violations, rpc, hit, read, since>>

SameKey(a, b) == RoleOf[a] = RoleOf[b] /\ ScopeOf[a] = ScopeOf[b]
InForce(r) == rule[r] \in {"warn", "block"}

RTypeOK ==
  /\ edits \in 0 .. MaxRuleEdits
  /\ rule \in [Rules -> {"none", "off", "warn", "block", "deleted"}]
  /\ pc \in [Grants -> {"idle", "check", "open", "done", "blocked", "failed"}]
  /\ toCheck \in [Grants -> SUBSET (Rules \X {"warn", "block"})]
  /\ warned \in [Grants -> SUBSET Rules]
  /\ row \in [Grants -> {"absent", "inserted", "active", "revoked"}]
  /\ violations \subseteq Grants \X Rules \X {"warned", "blocked"}
  /\ rpc \in [Revokes -> {"idle", "open", "done", "failed"}]
  /\ hit \in [Revokes -> SUBSET Grants]
  /\ read \in [Grants -> SUBSET (Rules \X {"warn", "block"})]
  /\ since \in [Grants \union Revokes -> SUBSET Grants]

Init ==
  /\ edits = 0
  /\ rule = RulesAtStart
  /\ pc = [g \in Grants |-> "idle"]
  /\ toCheck = [g \in Grants |-> {}]
  /\ warned = [g \in Grants |-> {}]
  /\ row = [g \in Grants |-> "absent"]
  /\ violations = {}
  /\ rpc = [v \in Revokes |-> "idle"]
  /\ hit = [v \in Revokes |-> {}]
  /\ read = [g \in Grants |-> {}]
  /\ since = [c \in Grants \union Revokes |-> {}]

Committed == {g \in Grants : row[g] \in {"active", "revoked"}}

------------------------------------------------------------------------------
(* The grant route: one insert statement, then the enqueue and the commit. *)

\* The insert fires the trigger, whose loop reads the rules with the new role.
StartGrant(g) ==
  /\ pc[g] = "idle"
  /\ LET found == {<<r, rule[r]>> : r \in {q \in Rules : InForce(q) /\ RoleOf[g] \in Conflicts[q]}}
     IN  /\ toCheck' = [toCheck EXCEPT ![g] = found]
         /\ read' = [read EXCEPT ![g] = found]
  /\ pc' = [pc EXCEPT ![g] = "check"]
  /\ since' = [since EXCEPT ![g] = Committed]
  /\ UNCHANGED <<edits, rule, warned, row, violations, rpc, hit>>

\* Active assignments of another role in the rule's conflict set.
ConflictingSameScope(g, r) ==
  {h \in Grants : /\ row[h] = "active" /\ RoleOf[h] # RoleOf[g] /\ RoleOf[h] \in Conflicts[r]
                  /\ ScopeOf[h] = ScopeOf[g]}
Conflicting(g, r) ==
  {h \in Grants : row[h] = "active" /\ RoleOf[h] # RoleOf[g] /\ RoleOf[h] \in Conflicts[r]}

\* The transaction of a grant ends without its writes, and its history with it.
GiveUp(g, how) ==
  /\ read' = [read EXCEPT ![g] = {}]
  /\ since' = [since EXCEPT ![g] = {}]
  /\ pc' = [pc EXCEPT ![g] = how]
  /\ row' = [row EXCEPT ![g] = "absent"]
  /\ warned' = [warned EXCEPT ![g] = {}]
  /\ toCheck' = [toCheck EXCEPT ![g] = {}]

\* What the trigger does about a conflict: a warning is a row of the open
\* transaction, a block is a row and an exception that takes the row back.
\* A rule deleted since it was read makes the row's foreign key fail.
Warn(g, r) == warned' = [warned EXCEPT ![g] = @ \union {r}]

CheckRule(g) ==
  /\ pc[g] = "check"
  /\ \E c \in toCheck[g] : LET r == c[1] IN
       \/ /\ Conflicting(g, r) = {}
          /\ toCheck' = [toCheck EXCEPT ![g] = @ \ {c}]
          /\ UNCHANGED <<pc, warned, row, read, since>>
       \/ /\ Conflicting(g, r) # {} /\ rule[r] # "deleted" /\ c[2] = "warn"
          /\ Warn(g, r)
          /\ toCheck' = [toCheck EXCEPT ![g] = @ \ {c}]
          /\ UNCHANGED <<pc, row, read, since>>
       \/ /\ Conflicting(g, r) # {} /\ rule[r] # "deleted" /\ c[2] = "block"
          /\ GiveUp(g, "blocked")
       \/ /\ Conflicting(g, r) # {} /\ rule[r] = "deleted"
          /\ GiveUp(g, "failed")
  /\ UNCHANGED <<edits, rule, violations, rpc, hit>>

\* Rows with the same key; a NULL scope_id equals no other.
Rivals(g) ==
  {h \in Grants \ {g} : SameKey(g, h) /\ ScopeOf[g] # NoScopeId /\ row[h] # "absent"}

NeverWaits(g) == FALSE
MustWait(g) == \E h \in Rivals(g) : row[h] = "inserted"

\* The trigger let the row pass: on conflict do nothing, once it is decided
\* whether an uncommitted rival stays.
Insert(g) ==
  /\ pc[g] = "check" /\ toCheck[g] = {} /\ ~MustWait(g)
  /\ \/ Rivals(g) = {} /\ row' = [row EXCEPT ![g] = "inserted"]
     \/ Rivals(g) # {} /\ UNCHANGED row
  /\ pc' = [pc EXCEPT ![g] = "open"]
  /\ UNCHANGED <<edits, rule, toCheck, warned, violations, rpc, hit, read, since>>

\* The event role.granted commits with the row, or without one.
CommitGrant(g) ==
  /\ pc[g] = "open"
  /\ pc' = [pc EXCEPT ![g] = "done"]
  /\ row' = [row EXCEPT ![g] = IF @ = "inserted" THEN "active" ELSE @]
  /\ violations' = violations \union {<<g, r, "warned">> : r \in warned[g]}
  /\ warned' = [warned EXCEPT ![g] = {}]
  /\ UNCHANGED <<edits, rule, toCheck, rpc, hit, read, since>>

\* The enqueue, the connection or the process fails before the commit.  (Before
\* the insert a failure is not told from a transaction that goes no further.)
FailGrant(g) ==
  /\ pc[g] = "open"
  /\ GiveUp(g, "failed")
  /\ UNCHANGED <<edits, rule, violations, rpc, hit>>

------------------------------------------------------------------------------
(* The revoke route: one update statement, then the enqueue and the commit.*)

\* coalesce makes NULL scope ids equal here, and every matching row is taken.
MatchesNullNever(v) ==
  {g \in Grants : row[g] = "active" /\ SameKey(v, g) /\ ScopeOf[v] # NoScopeId}
Matches(v) == {g \in Grants : row[g] = "active" /\ SameKey(v, g)}

StartRevoke(v) ==
  /\ rpc[v] = "idle"
  /\ rpc' = [rpc EXCEPT ![v] = "open"]
  /\ hit' = [hit EXCEPT ![v] = Matches(v)]
  /\ since' = [since EXCEPT ![v] = Committed]
  /\ UNCHANGED <<edits, rule, pc, toCheck, warned, row, violations, read>>

CommitRevoke(v) ==
  /\ rpc[v] = "open"
  /\ rpc' = [rpc EXCEPT ![v] = "done"]
  /\ row' = [g \in Grants |-> IF g \in hit[v] THEN "revoked" ELSE row[g]]
  /\ hit' = [hit EXCEPT ![v] = {}]
  /\ UNCHANGED <<edits, rule, pc, toCheck, warned, violations, read, since>>

FailRevoke(v) ==
  /\ rpc[v] = "open"
  /\ rpc' = [rpc EXCEPT ![v] = "failed"]
  /\ hit' = [hit EXCEPT ![v] = {}]
  /\ since' = [since EXCEPT ![v] = {}]
  /\ UNCHANGED <<edits, rule, pc, toCheck, warned, row, violations, read>>

------------------------------------------------------------------------------
(* Administrators edit the rules; nothing looks at what is already held.   *)

EditRules == edits < MaxRuleEdits /\ edits' = edits + 1

\* The upsert creates a rule or changes whether and how it is enforced.
UpsertRule(r) ==
  /\ EditRules /\ rule[r] # "deleted"
  /\ \E how \in {"off", "warn", "block"} \ {rule[r]} : rule' = [rule EXCEPT ![r] = how]
  /\ UNCHANGED <<pc, toCheck, warned, row, violations, rpc, hit, read, since>>

\* Deleting a rule waits for open warnings about it, then takes its violations along
\* (a cascade, which row security does not stop).
DeleteRule(r) ==
  /\ EditRules /\ rule[r] \in {"off", "warn", "block"}
  /\ \A g \in Grants : r \notin warned[g]
  /\ rule' = [rule EXCEPT ![r] = "deleted"]
  /\ violations' = {x \in violations : x[2] # r}
  /\ UNCHANGED <<pc, toCheck, warned, row, rpc, hit, read, since>>

Next ==
  \/ \E g \in Grants : StartGrant(g) \/ CheckRule(g) \/ Insert(g) \/ CommitGrant(g) \/ FailGrant(g)
  \/ \E v \in Revokes : StartRevoke(v) \/ CommitRevoke(v) \/ FailRevoke(v)
  \/ \E r \in Rules : UpsertRule(r) \/ DeleteRule(r)

Spec == Init /\ [][Next]_vars
------------------------------------------------------------------------------
(* Properties.                                                             *)

Held(g, h, r) ==
  /\ row[g] = "active" /\ row[h] = "active"
  /\ RoleOf[g] # RoleOf[h] /\ {RoleOf[g], RoleOf[h]} \subseteq Conflicts[r]

\* Two roles a blocking rule keeps apart are held together only if their grants
\* overlapped, or the later grant did not find the rule blocking: nothing else
\* gets past the trigger, whatever was revoked, rolled back or granted between.
CoheldHasCause ==
  \A g, h \in Grants, r \in Rules :
    Held(g, h, r) /\ g \in since[h] => <<r, "block">> \notin read[h]

\* A granted role is held unless the same assignment was revoked at some time:
\* a grant is never skipped in favour of a row that is rolled back.
GrantedIsHeldOrRevoked ==
  \A g \in Grants : pc[g] = "done" =>
    \/ \E h \in Grants : SameKey(g, h) /\ row[h] = "active"
    \/ \E v \in Revokes : SameKey(g, v) /\ rpc[v] = "done"

\* A committed revoke reaches every assignment of its key that was committed
\* when it began, the duplicates a NULL scope_id allows included.
RevokeReachesAll ==
  \A v \in Revokes, g \in Grants :
    rpc[v] = "done" /\ g \in since[v] /\ SameKey(v, g) => row[g] # "active"

\* A grant made despite a warning has its violation on record, although the warning
\* is written before anything else of the grant.  It holds while no rule is deleted:
\* the cascade takes the records of a deleted rule along.
WarnedIsRecorded ==
  \A g, h \in Grants, r \in Rules :
    Held(g, h, r) /\ h \in since[g] /\ <<r, "warn">> \in read[g] =>
      <<g, r, "warned">> \in violations

\* Roles a blocking rule lists do not co-exist.
NeverCoexist ==
  \A g, h \in Grants, r \in Rules : ~(Held(g, h, r) /\ rule[r] = "block")
==============================================================================
