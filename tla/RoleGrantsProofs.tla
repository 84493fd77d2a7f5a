--------------------------- MODULE RoleGrantsProofs ---------------------------
(* Proofs about role assignments, for any calls, roles, scopes and rules. *)
EXTENDS RoleGrants, TLAPS

\* Rows and transactions agree: an assignment is in the table for others only when
\* its grant is done, and a grant that found its place taken found it taken for good.
RowsInv ==
  \A g \in Grants :
    /\ pc[g] \in {"idle", "check", "blocked", "failed"} => row[g] = "absent"
    /\ pc[g] = "open" => row[g] \in {"absent", "inserted"}
    /\ pc[g] = "done" => row[g] # "inserted"
    /\ pc[g] # "check" => toCheck[g] = {}
    /\ pc[g] \notin {"check", "open"} => warned[g] = {}
    /\ pc[g] \in {"open", "done"} /\ row[g] = "absent" =>
         \E h \in Committed : SameKey(g, h)

\* What a call found committed when it began is committed.
SinceInv == \A c \in Grants \union Revokes : since[c] \subseteq Committed

\* Two assignments a rule keeps apart.
Apart(g, h, r) == RoleOf[h] # RoleOf[g] /\ RoleOf[h] \in Conflicts[r]

\* A rule the trigger is through with: a blocking one found nothing, and a warning
\* is in the transaction, on record, or gone with its rule.
CheckedInv ==
  \A g \in Grants, r \in Rules : \A h \in since[g] : row[h] = "active" /\ Apart(g, h, r) =>
    /\ <<r, "block">> \notin read[g] \ toCheck[g]
    /\ <<r, "warn">> \in read[g] \ toCheck[g] =>
         r \in warned[g] \/ <<g, r, "warned">> \in violations \/ rule[r] = "deleted"

\* A revoke has locked what it found; and only a revoke takes an assignment back.
RevokesInv ==
  /\ \A v \in Revokes :
       /\ \A g \in hit[v] : SameKey(v, g) /\ g \in Committed
       /\ rpc[v] # "open" => hit[v] = {}
       /\ rpc[v] \in {"open", "done"} =>
            \A g \in since[v] : SameKey(v, g) => g \in hit[v] \/ row[g] # "active"
  /\ \A g \in Grants : row[g] = "revoked" =>
       \E v \in Revokes : SameKey(g, v) /\ rpc[v] = "done"

GrantsInv == RTypeOK /\ RowsInv /\ SinceInv /\ CheckedInv /\ RevokesInv

------------------------------------------------------------------------------

LEMMA TypeStep == ASSUME RTypeOK, [Next]_vars PROVE RTypeOK'
<1> USE DEF RTypeOK
<1>0. MaxRuleEdits \in Nat
  BY RoleGrantsAssumption
<1>1. ASSUME NEW g \in Grants, StartGrant(g) PROVE RTypeOK'
  <2> DEFINE found == {<<r, rule[r]>> : r \in {q \in Rules : InForce(q) /\ RoleOf[g] \in Conflicts[q]}}
  <2>1. found \in SUBSET (Rules \X {"warn", "block"})
    BY DEF InForce
  <2>2. /\ toCheck' = [toCheck EXCEPT ![g] = found] /\ read' = [read EXCEPT ![g] = found]
        /\ pc' = [pc EXCEPT ![g] = "check"] /\ since' = [since EXCEPT ![g] = Committed]
        /\ UNCHANGED <<edits, rule, warned, row, violations, rpc, hit>>
    BY <1>1 DEF StartGrant
  <2>3. Committed \in SUBSET Grants
    BY DEF Committed
  <2> HIDE DEF found
  <2> QED BY <2>1, <2>2, <2>3
<1>2. ASSUME NEW g \in Grants, CheckRule(g) PROVE RTypeOK'
  <2>1. PICK c \in toCheck[g] :
          \/ toCheck' = [toCheck EXCEPT ![g] = @ \ {c}] /\ UNCHANGED <<pc, warned, row, read, since>>
          \/ Warn(g, c[1]) /\ toCheck' = [toCheck EXCEPT ![g] = @ \ {c}] /\ UNCHANGED <<pc, row, read, since>>
          \/ GiveUp(g, "blocked")
          \/ GiveUp(g, "failed")
    BY <1>2 DEF CheckRule
  <2>2. c \in Rules \X {"warn", "block"} /\ UNCHANGED <<edits, rule, violations, rpc, hit>>
    BY <1>2 DEF CheckRule
  <2>3. CASE GiveUp(g, "blocked") \/ GiveUp(g, "failed")
    <3>0. /\ toCheck' = [toCheck EXCEPT ![g] = {}] /\ read' = [read EXCEPT ![g] = {}]
          /\ warned' = [warned EXCEPT ![g] = {}]
      BY <2>3 DEF GiveUp
    <3>1. /\ toCheck' \in [Grants -> SUBSET (Rules \X {"warn", "block"})]
          /\ read' \in [Grants -> SUBSET (Rules \X {"warn", "block"})]
          /\ warned' \in [Grants -> SUBSET Rules]
      BY <3>0
    <3>2. /\ pc' \in [Grants -> {"idle", "check", "open", "done", "blocked", "failed"}]
          /\ row' \in [Grants -> {"absent", "inserted", "active", "revoked"}]
      BY <2>3 DEF GiveUp
    <3>3. since' \in [Grants \union Revokes -> SUBSET Grants]
      BY <2>3 DEF GiveUp
    <3> QED BY <2>2, <3>1, <3>2, <3>3
  <2>4. CASE UNCHANGED <<pc, row, read, since>> /\ toCheck' = [toCheck EXCEPT ![g] = @ \ {c}]
    <3>1. toCheck' \in [Grants -> SUBSET (Rules \X {"warn", "block"})]
      BY <2>4
    <3>2. warned' \in [Grants -> SUBSET Rules]
      <4>1. warned' = warned \/ warned' = [warned EXCEPT ![g] = @ \union {c[1]}] \/ GiveUp(g, "blocked") \/ GiveUp(g, "failed")
        BY <2>1 DEF Warn
      <4> QED BY <2>2, <2>3, <4>1
    <3> QED BY <2>2, <2>4, <3>1, <3>2
  <2> QED BY <2>1, <2>3, <2>4
<1>3. ASSUME NEW g \in Grants, Insert(g) PROVE RTypeOK'
  BY <1>3 DEF Insert
<1>4. ASSUME NEW g \in Grants, CommitGrant(g) PROVE RTypeOK'
  BY <1>4 DEF CommitGrant
<1>5. ASSUME NEW g \in Grants, FailGrant(g) PROVE RTypeOK'
  BY <1>5 DEF FailGrant, GiveUp
<1>6. ASSUME NEW v \in Revokes, StartRevoke(v) PROVE RTypeOK'
  <2>1. Matches(v) \in SUBSET Grants /\ Committed \in SUBSET Grants
    BY DEF Matches, Committed
  <2> QED BY <1>6, <2>1 DEF StartRevoke
<1>7. ASSUME NEW v \in Revokes, CommitRevoke(v) \/ FailRevoke(v) PROVE RTypeOK'
  BY <1>7 DEF CommitRevoke, FailRevoke
<1>8. ASSUME NEW r \in Rules, UpsertRule(r) PROVE RTypeOK'
  BY <1>0, <1>8 DEF UpsertRule, EditRules
<1>9. ASSUME NEW r \in Rules, DeleteRule(r) PROVE RTypeOK'
  BY <1>0, <1>9 DEF DeleteRule, EditRules
<1>10. CASE UNCHANGED vars
  BY <1>10 DEF vars
<1> QED BY <1>1, <1>2, <1>3, <1>4, <1>5, <1>6, <1>7, <1>8, <1>9, <1>10 DEF Next

\* How an assignment's row moves: in with its grant's commit, out with a revoke's.
LEMMA RowMoves ==
  ASSUME GrantsInv, [Next]_vars
  PROVE  /\ Committed \subseteq Committed'
         /\ \A g \in Committed : row'[g] = "active" => row[g] = "active"
         /\ \A g \in Grants : row'[g] = "revoked" => row[g] = "revoked" \/ \E v \in Revokes : CommitRevoke(v) /\ g \in hit[v]
<1> USE DEF GrantsInv, RTypeOK, RowsInv, Committed
<1>1. ASSUME NEW g \in Grants, StartGrant(g) \/ Insert(g) \/ CommitGrant(g)
      PROVE  /\ Committed \subseteq Committed' /\ \A h \in Committed : row'[h] = row[h]
             /\ \A h \in Grants : row'[h] = "revoked" => row[h] = "revoked"
  BY <1>1 DEF StartGrant, Insert, CommitGrant
<1>2. ASSUME NEW g \in Grants, CheckRule(g) \/ FailGrant(g)
      PROVE  /\ Committed \subseteq Committed' /\ \A h \in Committed : row'[h] = row[h]
             /\ \A h \in Grants : row'[h] = "revoked" => row[h] = "revoked"
  BY <1>2 DEF CheckRule, FailGrant, GiveUp
<1>3. ASSUME NEW v \in Revokes, CommitRevoke(v)
      PROVE  /\ Committed \subseteq Committed'
             /\ \A g \in Committed : row'[g] = "active" => row[g] = "active"
             /\ \A g \in Grants : row'[g] = "revoked" => row[g] = "revoked" \/ g \in hit[v]
  BY <1>3 DEF CommitRevoke
<1>4. CASE row' = row
  BY <1>4
<1> QED BY <1>1, <1>2, <1>3, <1>4 DEF Next, vars, StartRevoke, FailRevoke, UpsertRule, DeleteRule

LEMMA SinceStep == ASSUME GrantsInv, [Next]_vars PROVE SinceInv'
<1>1. Committed \subseteq Committed'
  BY RowMoves
<1>2. \A c \in Grants \union Revokes : since'[c] = since[c] \/ since'[c] \in {{}, Committed}
  BY DEF Next, vars, StartGrant, CheckRule, Insert, CommitGrant, FailGrant, GiveUp, StartRevoke,
         CommitRevoke, FailRevoke, UpsertRule, DeleteRule, GrantsInv, RTypeOK
<1> QED BY <1>1, <1>2 DEF GrantsInv, SinceInv

LEMMA RowsStep == ASSUME GrantsInv, [Next]_vars PROVE RowsInv'
<1> USE DEF GrantsInv, RTypeOK
<1>0. Committed \subseteq Committed'
  BY RowMoves
<1>1. ASSUME NEW g \in Grants, StartGrant(g) PROVE RowsInv'
  BY <1>0, <1>1 DEF StartGrant, RowsInv
<1>2. ASSUME NEW g \in Grants, CheckRule(g) \/ FailGrant(g) PROVE RowsInv'
  <2>1. /\ pc[g] \in {"check", "open"} /\ \A h \in Grants \ {g} : pc'[h] = pc[h] /\ row'[h] = row[h]
                                             /\ toCheck'[h] = toCheck[h] /\ warned'[h] = warned[h]
        /\ \/ pc'[g] = "check" /\ row'[g] = row[g] /\ pc[g] = "check"
           \/ pc'[g] \in {"blocked", "failed"} /\ row'[g] = "absent" /\ toCheck'[g] = {} /\ warned'[g] = {}
    BY <1>2 DEF CheckRule, FailGrant, GiveUp, Warn
  <2> QED BY <1>0, <2>1 DEF RowsInv
<1>3. ASSUME NEW g \in Grants, Insert(g) PROVE RowsInv'
  <2>1. CASE Rivals(g) = {}
    BY <1>0, <1>3, <2>1 DEF Insert, RowsInv
  <2>2. CASE Rivals(g) # {}
    <3>1. PICK h \in Rivals(g) : row[h] # "inserted"
      BY <1>3, <2>2 DEF Insert, MustWait
    <3>2. h \in Committed /\ SameKey(g, h)
      BY <3>1 DEF Rivals, Committed
    <3> QED BY <1>0, <1>3, <2>2, <3>2 DEF Insert, RowsInv
  <2> QED BY <2>1, <2>2
<1>4. ASSUME NEW g \in Grants, CommitGrant(g) PROVE RowsInv'
  BY <1>0, <1>4 DEF CommitGrant, RowsInv
<1>5. ASSUME NEW v \in Revokes, CommitRevoke(v) PROVE RowsInv'
  <2>1. \A g \in hit[v] : row[g] \in {"active", "revoked"}
    BY <1>5 DEF RevokesInv, Committed
  <2> QED BY <1>0, <1>5, <2>1 DEF CommitRevoke, RowsInv
<1>6. CASE UNCHANGED <<pc, row, toCheck, warned>>
  <2>1. Committed' = Committed
    BY <1>6 DEF Committed
  <2> QED BY <1>6, <2>1 DEF RowsInv
<1> QED BY <1>1, <1>2, <1>3, <1>4, <1>5, <1>6 DEF Next, vars, StartRevoke, FailRevoke, UpsertRule, DeleteRule

LEMMA CheckedStep == ASSUME GrantsInv, [Next]_vars PROVE CheckedInv'
<1> USE DEF GrantsInv, RTypeOK
<1>0. RTypeOK' /\ \A h \in Committed : row'[h] = "active" => row[h] = "active"
  BY TypeStep, RowMoves
<1>1. \A g \in Grants : since[g] \subseteq Committed
  BY DEF SinceInv
<1>2. ASSUME NEW g \in Grants, StartGrant(g) PROVE CheckedInv'
  BY <1>0, <1>1, <1>2 DEF StartGrant, CheckedInv, Apart
<1>3. ASSUME NEW g \in Grants, CheckRule(g) PROVE CheckedInv'
  <2>1. /\ UNCHANGED <<rule, violations>>
        /\ \A h \in Grants \ {g} : /\ read'[h] = read[h] /\ toCheck'[h] = toCheck[h] /\ warned'[h] = warned[h]
                                 /\ since'[h] = since[h]
    BY <1>3 DEF CheckRule, GiveUp, Warn
  <2>2. CASE since'[g] = {}
    BY <1>0, <1>1, <2>1, <2>2 DEF CheckedInv, Apart
  <2>3. ASSUME NEW c \in toCheck[g], toCheck' = [toCheck EXCEPT ![g] = @ \ {c}],
               UNCHANGED <<pc, row, read, since>>,
               \/ Conflicting(g, c[1]) = {} /\ UNCHANGED warned
               \/ c[2] = "warn" /\ Warn(g, c[1])
        PROVE  CheckedInv'
    <3>1. c \in Rules \X {"warn", "block"} /\ c = <<c[1], c[2]>>
      OBVIOUS
    <3>2. \A q \in Rules : q \in warned[g] => q \in warned'[g]
      BY <2>3, <3>1 DEF Warn
    <3>3. ASSUME NEW r \in Rules, NEW h \in since[g], row[h] = "active", Apart(g, h, r)
          PROVE  /\ <<r, "block">> \notin read[g] \ toCheck'[g]
                 /\ <<r, "warn">> \in read[g] \ toCheck'[g] =>
                      r \in warned'[g] \/ <<g, r, "warned">> \in violations \/ rule[r] = "deleted"
      <4>1. CASE r # c[1]
        BY <2>3, <3>1, <3>2, <3>3, <4>1 DEF CheckedInv
      <4>2. CASE r = c[1]
        <5>1. h \in Conflicting(g, r)
          BY <3>3 DEF Apart, Conflicting
        <5>2. c = <<r, "warn">> /\ Warn(g, r)
          BY <2>3, <3>1, <4>2, <5>1
        <5>3. r \in warned'[g]
          BY <5>2 DEF Warn
        <5>4. <<r, "block">> \in toCheck'[g] <=> <<r, "block">> \in toCheck[g]
          BY <2>3, <5>2
        <5> QED BY <3>3, <5>3, <5>4 DEF CheckedInv
      <4> QED BY <4>1, <4>2
    <3>4. ASSUME NEW f \in Grants, NEW r \in Rules, NEW h \in since'[f], row'[h] = "active", Apart(f, h, r)
          PROVE  /\ <<r, "block">> \notin read'[f] \ toCheck'[f]
                 /\ <<r, "warn">> \in read'[f] \ toCheck'[f] =>
                      r \in warned'[f] \/ <<f, r, "warned">> \in violations' \/ rule'[r] = "deleted"
      <4>1. h \in since[f] /\ row[h] = "active"
        BY <2>3, <3>4
      <4>2. CASE f = g
        BY <2>1, <2>3, <3>3, <3>4, <4>1, <4>2
      <4>3. CASE f # g
        BY <2>1, <3>4, <4>1, <4>3 DEF CheckedInv
      <4> QED BY <4>2, <4>3
    <3> QED BY <3>4 DEF CheckedInv, Apart
  <2>4. since'[g] = {} \/ \E c \in toCheck[g] :
               /\ toCheck' = [toCheck EXCEPT ![g] = @ \ {c}]
               /\ UNCHANGED <<pc, row, read, since>>
               /\ \/ Conflicting(g, c[1]) = {} /\ UNCHANGED warned
                  \/ c[2] = "warn" /\ Warn(g, c[1])
    BY <1>3 DEF CheckRule, GiveUp
  <2> QED BY <2>2, <2>3, <2>4
<1>4. ASSUME NEW g \in Grants, CommitGrant(g) PROVE CheckedInv'
  <2>1. \A r \in Rules : r \in warned[g] => <<g, r, "warned">> \in violations'
    BY <1>4 DEF CommitGrant
  <2>2. violations \subseteq violations' /\ UNCHANGED <<rule, read, toCheck, since>>
        /\ \A h \in Grants \ {g} : warned'[h] = warned[h]
    BY <1>4 DEF CommitGrant
  <2> QED BY <1>0, <1>1, <2>1, <2>2 DEF CheckedInv, Apart
<1>5. ASSUME NEW g \in Grants, FailGrant(g) PROVE CheckedInv'
  BY <1>0, <1>1, <1>5 DEF FailGrant, GiveUp, CheckedInv, Apart
<1>6. ASSUME NEW g \in Grants, Insert(g) PROVE CheckedInv'
  BY <1>0, <1>1, <1>6 DEF Insert, CheckedInv, Apart
<1>7. ASSUME NEW v \in Revokes, StartRevoke(v) \/ CommitRevoke(v) \/ FailRevoke(v) PROVE CheckedInv'
  <2>1. UNCHANGED <<rule, violations, read, toCheck, warned>> /\ \A h \in Grants : since'[h] = since[h]
    BY <1>7, RoleGrantsAssumption DEF StartRevoke, CommitRevoke, FailRevoke
  <2> QED BY <1>0, <1>1, <2>1 DEF CheckedInv, Apart
<1>8. ASSUME NEW r \in Rules, UpsertRule(r) PROVE CheckedInv'
  BY <1>0, <1>1, <1>8 DEF UpsertRule, CheckedInv, Apart
<1>9. ASSUME NEW r \in Rules, DeleteRule(r) PROVE CheckedInv'
  <2>1. \A g \in Grants, q \in Rules \ {r} : <<g, q, "warned">> \in violations => <<g, q, "warned">> \in violations'
    BY <1>9 DEF DeleteRule
  <2>2. rule'[r] = "deleted" /\ (\A q \in Rules \ {r} : rule'[q] = rule[q]) /\ UNCHANGED <<read, toCheck, warned, since>>
    BY <1>9 DEF DeleteRule
  <2>3. SUFFICES ASSUME NEW g \in Grants, NEW q \in Rules, NEW h \in since[g], row'[h] = "active", Apart(g, h, q)
                 PROVE  /\ <<q, "block">> \notin read[g] \ toCheck[g]
                        /\ <<q, "warn">> \in read[g] \ toCheck[g] =>
                             q \in warned[g] \/ <<g, q, "warned">> \in violations' \/ rule'[q] = "deleted"
    BY <2>2 DEF CheckedInv, Apart
  <2>4. row[h] = "active"
    BY <1>0, <1>1, <2>3
  <2>5. /\ <<q, "block">> \notin read[g] \ toCheck[g]
        /\ <<q, "warn">> \in read[g] \ toCheck[g] =>
             q \in warned[g] \/ <<g, q, "warned">> \in violations \/ rule[q] = "deleted"
    BY <2>3, <2>4 DEF CheckedInv
  <2> QED BY <2>1, <2>2, <2>5
<1>10. CASE UNCHANGED vars
  BY <1>0, <1>1, <1>10 DEF vars, CheckedInv, Apart
<1> QED BY <1>2, <1>3, <1>4, <1>5, <1>6, <1>7, <1>8, <1>9, <1>10 DEF Next

LEMMA RevokesStep == ASSUME GrantsInv, [Next]_vars PROVE RevokesInv'
<1> USE DEF GrantsInv, RTypeOK
<1>0. /\ Committed \subseteq Committed' /\ \A h \in Committed : row'[h] = "active" => row[h] = "active"
      /\ \A g \in Grants : row'[g] = "revoked" => row[g] = "revoked" \/ \E v \in Revokes : CommitRevoke(v) /\ g \in hit[v]
      /\ \A v \in Revokes : since[v] \subseteq Committed
  BY RowMoves DEF SinceInv
<1>1. ASSUME NEW v \in Revokes, StartRevoke(v) PROVE RevokesInv'
  BY <1>0, <1>1, RoleGrantsAssumption DEF StartRevoke, RevokesInv, Matches, Committed, SameKey
<1>2. ASSUME NEW v \in Revokes, CommitRevoke(v) PROVE RevokesInv'
  <2>1. /\ rpc' = [rpc EXCEPT ![v] = "done"] /\ hit' = [hit EXCEPT ![v] = {}] /\ UNCHANGED since
        /\ rpc[v] = "open" /\ \A g \in Grants : row'[g] = IF g \in hit[v] THEN "revoked" ELSE row[g]
    BY <1>2 DEF CommitRevoke
  <2>2. \A g \in Grants : row'[g] = "revoked" => row[g] = "revoked" \/ g \in hit[v]
    BY <2>1
  <2>3. \A g \in hit[v] : SameKey(g, v)
    BY DEF RevokesInv, SameKey
  <2> QED BY <1>0, <2>1, <2>2, <2>3 DEF RevokesInv, SameKey
<1>3. ASSUME NEW v \in Revokes, FailRevoke(v) PROVE RevokesInv'
  BY <1>0, <1>3, RoleGrantsAssumption DEF FailRevoke, RevokesInv, Committed, SameKey
<1>4. CASE /\ UNCHANGED <<rpc, hit>> /\ \A v \in Revokes : since'[v] = since[v]
           /\ \A g \in Grants : row'[g] = "revoked" => row[g] = "revoked"
  BY <1>0, <1>4 DEF RevokesInv, SameKey
<1>5. ASSUME NEW g \in Grants, StartGrant(g) \/ CheckRule(g) \/ Insert(g) \/ CommitGrant(g) \/ FailGrant(g)
      PROVE  /\ UNCHANGED <<rpc, hit>> /\ (\A v \in Revokes : since'[v] = since[v])
             /\ \A h \in Grants : row'[h] = "revoked" => row[h] = "revoked"
  BY <1>5, RoleGrantsAssumption DEF StartGrant, CheckRule, Insert, CommitGrant, FailGrant, GiveUp
<1>6. ASSUME UNCHANGED <<rpc, hit, since, row>> PROVE RevokesInv'
  BY <1>4, <1>6
<1> QED BY <1>1, <1>2, <1>3, <1>4, <1>5, <1>6 DEF Next, vars, UpsertRule, DeleteRule

LEMMA GrantsInit == Init => GrantsInv
<1> SUFFICES ASSUME Init PROVE GrantsInv
  OBVIOUS
<1>1. RTypeOK
  BY RoleGrantsAssumption DEF Init, RTypeOK
<1> QED BY <1>1 DEF Init, GrantsInv, RowsInv, SinceInv, CheckedInv, RevokesInv

LEMMA GrantsInductive == GrantsInv /\ [Next]_vars => GrantsInv'
<1> SUFFICES ASSUME GrantsInv, [Next]_vars PROVE GrantsInv'
  OBVIOUS
<1>1. RTypeOK'
  BY TypeStep DEF GrantsInv
<1> QED BY <1>1, RowsStep, SinceStep, CheckedStep, RevokesStep DEF GrantsInv

\* The invariant the theorems below are read off.
LEMMA GrantsInvariant == Spec => []GrantsInv
BY GrantsInit, GrantsInductive, PTL DEF Spec

\* Calls, rules and rows stay of their kind, the bound on rule edits included.
THEOREM GrantsTypeCorrect == Spec => []RTypeOK
<1>1. GrantsInv => RTypeOK
  BY DEF GrantsInv
<1> QED BY <1>1, GrantsInvariant, PTL

\* The trigger lets two roles together only for a reason: the grants overlapped, or
\* the later one did not find the rule blocking.
THEOREM CoheldOnlyWithCause == Spec => []CoheldHasCause
<1>1. GrantsInv => CoheldHasCause
  <2> SUFFICES ASSUME GrantsInv, NEW g \in Grants, NEW h \in Grants, NEW r \in Rules,
                      Held(g, h, r), g \in since[h]
               PROVE  <<r, "block">> \notin read[h]
    BY DEF CoheldHasCause
  <2>1. toCheck[h] = {}
    BY DEF GrantsInv, RTypeOK, RowsInv, Held
  <2> QED BY <2>1 DEF GrantsInv, CheckedInv, Held, Apart
<1> QED BY <1>1, GrantsInvariant, PTL

\* A grant answered with success is held, by its own row or another's, or was revoked.
THEOREM GrantsAreHeldOrRevoked == Spec => []GrantedIsHeldOrRevoked
<1>1. GrantsInv => GrantedIsHeldOrRevoked
  <2> SUFFICES ASSUME GrantsInv, NEW g \in Grants, pc[g] = "done"
               PROVE  \/ \E h \in Grants : SameKey(g, h) /\ row[h] = "active"
                      \/ \E v \in Revokes : SameKey(g, v) /\ rpc[v] = "done"
    BY DEF GrantedIsHeldOrRevoked
  <2>1. PICK h \in Committed : SameKey(g, h)
    BY DEF GrantsInv, RTypeOK, RowsInv, Committed, SameKey
  <2>2. row[h] = "active" \/ \E v \in Revokes : SameKey(h, v) /\ rpc[v] = "done"
    BY DEF GrantsInv, RevokesInv, Committed
  <2> QED BY <2>1, <2>2 DEF SameKey, Committed
<1> QED BY <1>1, GrantsInvariant, PTL

\* A revoke that commits leaves none of the assignments it could see.
THEOREM RevokesReachAll == Spec => []RevokeReachesAll
<1>1. GrantsInv => RevokeReachesAll
  BY DEF GrantsInv, RevokesInv, RevokeReachesAll
<1> QED BY <1>1, GrantsInvariant, PTL

NoneDeleted == \A r \in Rules : rule[r] # "deleted"
NeverDeletes == [][~ \E r \in Rules : DeleteRule(r)]_vars

LEMMA NoneDeletedStep ==
  ASSUME RTypeOK, NoneDeleted, [Next]_vars, [~ \E r \in Rules : DeleteRule(r)]_vars
  PROVE  NoneDeleted'
<1>1. CASE \E r \in Rules : UpsertRule(r)
  BY <1>1 DEF UpsertRule, NoneDeleted, RTypeOK
<1>2. CASE UNCHANGED rule
  BY <1>2 DEF NoneDeleted
<1> QED
  BY <1>1, <1>2 DEF Next, vars, StartGrant, CheckRule, Insert, CommitGrant, FailGrant, StartRevoke,
     CommitRevoke, FailRevoke

\* A role held against a warning has its violation on record as long as nobody
\* deletes a rule: switching and editing rules, revoking, failing and overlapping
\* grants take no record away.
THEOREM WarningsAreRecorded == Spec /\ NeverDeletes => []WarnedIsRecorded
<1>1. GrantsInv /\ NoneDeleted => WarnedIsRecorded
  <2> SUFFICES ASSUME GrantsInv, NoneDeleted, NEW g \in Grants, NEW h \in Grants, NEW r \in Rules,
                      Held(g, h, r), h \in since[g], <<r, "warn">> \in read[g]
               PROVE  <<g, r, "warned">> \in violations
    BY DEF WarnedIsRecorded
  <2>1. toCheck[g] = {} /\ warned[g] = {}
    BY DEF GrantsInv, RTypeOK, RowsInv, Held
  <2> QED BY <2>1 DEF GrantsInv, CheckedInv, Held, Apart, NoneDeleted
<1>2. Init => NoneDeleted
  BY RoleGrantsAssumption DEF Init, NoneDeleted
<1>3. GrantsInv /\ NoneDeleted /\ [Next]_vars /\ [~ \E r \in Rules : DeleteRule(r)]_vars => NoneDeleted'
  BY NoneDeletedStep DEF GrantsInv
<1> QED BY <1>1, <1>2, <1>3, GrantsInvariant, PTL DEF Spec, NeverDeletes
==============================================================================
