---------------------------- MODULE SessionsProofs ----------------------------
(***************************************************************************)
(* Proofs about Sessions for any number of calls, clients and sweepers.    *)
(***************************************************************************)
EXTENDS Sessions, FiniteSetTheorems, TLAPS

\* A request past the preflight takes its place in the count already: what is
\* open and what is on its way stay below the bound together.
RoomLeft == Cardinality(Open) + Cardinality(InFlight) <= Limit + Clients - 1

\* A report is about a session the sweeper revoked after it expired.
HitIsDue == \A w \in Sweepers : \A c \in hit[w] : ExpiresAt[c] <= now

SInv == STypeOK /\ RoomLeft /\ HitIsDue /\ ReportedOnce /\ ExpireHasCause

\* The sets that are counted are finite.
LEMMA CountedFinite ==
  /\ IsFiniteSet(Open) /\ IsFiniteSet(InFlight)
  /\ Cardinality(Open) \in Nat /\ Cardinality(InFlight) \in Nat
  <1>1. Open \subseteq Calls /\ InFlight \subseteq Calls
    BY DEF Open, Created, InFlight
  <1>2. IsFiniteSet(Open) /\ IsFiniteSet(InFlight)
    BY <1>1, FS_Subset, SessionsAssumption
  <1> QED
    BY <1>2, FS_CardinalityType

\* Steps that open no session and let no request past the preflight.
LEMMA NothingOpens ==
  ASSUME RoomLeft, Open' \subseteq Open, InFlight' = InFlight
  PROVE  RoomLeft'
  <1>1. Cardinality(Open') <= Cardinality(Open) /\ Cardinality(Open') \in Nat
    BY CountedFinite, FS_Subset, FS_CardinalityType
  <1> QED
    BY <1>1, CountedFinite, SessionsAssumption DEF RoomLeft

LEMMA InitSInv == Init => SInv
  <1> SUFFICES ASSUME Init PROVE SInv
    OBVIOUS
  <1>1. Open = {} /\ InFlight = {}
    BY DEF Init, Open, Created, InFlight
  <1>2. RoomLeft
    BY <1>1, FS_EmptySet, SessionsAssumption DEF RoomLeft
  <1>3. STypeOK
    BY SessionsAssumption DEF Init, STypeOK
  <1> QED
    BY <1>2, <1>3 DEF Init, SInv, HitIsDue, ReportedOnce, ExpireHasCause

LEMMA PreflightSInv == ASSUME SInv, NEW c \in Calls, Preflight(c) PROVE SInv'
  <1>1. /\ call[c] = "idle" /\ Cardinality(InFlight) < Clients
        /\ UNCHANGED <<now, revoked, spc, hit, expires, told, faults>>
        /\ \/ Cardinality(Open) < Limit /\ call' = [call EXCEPT ![c] = "passed"]
           \/ call' = [call EXCEPT ![c] = "refused"]
    BY DEF Preflight, BelowLimit
  <1>2. Created' = Created
    BY <1>1 DEF Created, SInv, STypeOK
  <1>3. Open' = Open
    BY <1>1, <1>2 DEF Open
  <1>4. RoomLeft'
    <2>1. CASE Cardinality(Open) < Limit /\ call' = [call EXCEPT ![c] = "passed"]
      <3>1. InFlight' = InFlight \union {c} /\ c \notin InFlight
        BY <1>1, <2>1 DEF InFlight, SInv, STypeOK
      <3>2. Cardinality(InFlight') = Cardinality(InFlight) + 1
        BY <3>1, CountedFinite, FS_AddElement
      <3> QED
        BY <1>1, <1>3, <2>1, <3>2, CountedFinite, SessionsAssumption DEF RoomLeft
    <2>2. CASE call' = [call EXCEPT ![c] = "refused"]
      <3>1. InFlight' = InFlight
        BY <1>1, <2>2 DEF InFlight, SInv, STypeOK
      <3> QED
        BY <1>3, <3>1, NothingOpens DEF SInv
    <2> QED
      BY <1>1, <2>1, <2>2
  <1>5. STypeOK'
    BY <1>1, <1>2 DEF SInv, STypeOK
  <1> QED
    BY <1>1, <1>2, <1>4, <1>5 DEF SInv, HitIsDue, ReportedOnce, ExpireHasCause

LEMMA CreateSInv == ASSUME SInv, NEW c \in Calls, Create(c) PROVE SInv'
  <1>1. /\ call[c] = "passed"
        /\ UNCHANGED <<now, revoked, spc, hit, expires, told>>
        /\ \/ call' = [call EXCEPT ![c] = "created"]
           \/ call' = [call EXCEPT ![c] = "failed"]
    BY DEF Create
  <1>2. faults' \in 0 .. MaxFaults
    BY SessionsAssumption DEF Create, Fails, Fault, SInv, STypeOK
  <1>3. Created \subseteq Created' /\ Created' \subseteq Created \union {c}
    BY <1>1 DEF Created, SInv, STypeOK
  <1>4. RoomLeft'
    <2>1. InFlight' = InFlight \ {c} /\ c \in InFlight
      BY <1>1 DEF InFlight, SInv, STypeOK
    <2>2. Cardinality(InFlight') = Cardinality(InFlight) - 1
      BY <2>1, CountedFinite, FS_RemoveElement
    <2>3. Open' \subseteq Open \union {c} /\ c \notin Open
      BY <1>1, <1>3 DEF Open, Created
    <2>4. IsFiniteSet(Open \union {c}) /\ Cardinality(Open \union {c}) = Cardinality(Open) + 1
      BY <2>3, CountedFinite, FS_AddElement
    <2>5. Cardinality(Open') <= Cardinality(Open) + 1 /\ Cardinality(Open') \in Nat
      BY <2>3, <2>4, FS_Subset, FS_CardinalityType
    <2> QED
      BY <2>2, <2>5, CountedFinite, SessionsAssumption DEF SInv, RoomLeft
  <1>5. STypeOK'
    BY <1>1, <1>2, <1>3 DEF SInv, STypeOK
  <1> QED
    BY <1>1, <1>3, <1>4, <1>5 DEF SInv, HitIsDue, ReportedOnce, ExpireHasCause

LEMMA OtherSInv ==
  ASSUME SInv,
         \/ Tick
         \/ \E c \in Calls : Revoke(c)
         \/ \E w \in Sweepers : Select(w) \/ Sweep(w) \/ SweepFails(w)
  PROVE  SInv'
  <1> USE SessionsAssumption
  <1>1. call' = call
    BY DEF Tick, Revoke, Select, Sweep, SweepFails
  <1>2. Created' = Created /\ InFlight' = InFlight
    BY <1>1 DEF Created, InFlight
  <1>3. now' \in 0 .. Horizon /\ now' >= now /\ now \in Nat
    BY DEF Tick, Revoke, Select, Sweep, SweepFails, SInv, STypeOK
  <1>4. revoked \subseteq revoked'
    BY DEF Tick, Revoke, Select, Sweep, SweepFails
  <1>5. RoomLeft'
    <2>1. Open' \subseteq Open
      BY <1>2, <1>3, <1>4 DEF Open, Created
    <2> QED
      BY <1>2, <2>1, NothingOpens DEF SInv
  <1>6. CASE Tick
    <2>1. UNCHANGED <<revoked, spc, hit, expires, told, faults>>
      BY <1>6 DEF Tick
    <2>2. STypeOK'
      BY <1>1, <1>2, <1>3, <2>1 DEF SInv, STypeOK
    <2>3. \A c \in Calls : ExpiresAt[c] <= now => ExpiresAt[c] <= now'
      BY <1>3
    <2>4. HitIsDue' /\ ExpireHasCause'
      BY <1>2, <2>1, <2>3 DEF SInv, STypeOK, HitIsDue, ExpireHasCause, Created
    <2> QED
      BY <1>5, <2>1, <2>2, <2>4 DEF SInv, ReportedOnce
  <1>7. ASSUME NEW c \in Calls, Revoke(c) PROVE SInv'
    <2>1. /\ c \in Created /\ revoked' = revoked \union {c} /\ told' = told \union {c}
          /\ UNCHANGED <<now, spc, hit, expires, faults>>
      BY <1>7 DEF Revoke, Created
    <2>2. STypeOK'
      BY <1>1, <1>2, <2>1 DEF SInv, STypeOK
    <2> QED
      BY <1>2, <1>5, <2>1, <2>2 DEF SInv, HitIsDue, ReportedOnce, ExpireHasCause
  <1>8. ASSUME NEW w \in Sweepers, Select(w) PROVE SInv'
    <2>1. PICK S \in SUBSET Due : hit' = [hit EXCEPT ![w] = S]
      BY <1>8 DEF Select
    <2>2. UNCHANGED <<now, revoked, expires, told, faults>> /\ spc' = [spc EXCEPT ![w] = "update"]
      BY <1>8 DEF Select
    <2>3. S \subseteq Created /\ \A c \in S : ExpiresAt[c] <= now
      BY <2>1 DEF Due
    <2>4. STypeOK'
      BY <1>1, <1>2, <2>1, <2>2, <2>3 DEF SInv, STypeOK
    <2>5. HitIsDue'
      BY <2>1, <2>2, <2>3 DEF SInv, STypeOK, HitIsDue
    <2> QED
      BY <1>2, <1>5, <2>2, <2>4, <2>5 DEF SInv, ReportedOnce, ExpireHasCause
  <1>9. ASSUME NEW w \in Sweepers, Sweep(w) PROVE SInv'
    <2>1. /\ revoked' = revoked \union hit[w]
          /\ expires' = [c \in Calls |-> IF c \in hit[w] THEN 1 ELSE expires[c]]
          /\ spc' = [spc EXCEPT ![w] = "idle"] /\ hit' = [hit EXCEPT ![w] = {}]
          /\ UNCHANGED <<now, told, faults>>
      BY <1>9 DEF Sweep, Report
    <2>2. hit[w] \subseteq Created
      BY DEF SInv, STypeOK
    <2>3. expires' \in [Calls -> 0 .. 2]
      BY <2>1 DEF SInv, STypeOK
    <2>4. STypeOK'
      BY <1>1, <1>2, <2>1, <2>2, <2>3 DEF SInv, STypeOK
    <2>5. HitIsDue'
      BY <2>1 DEF SInv, STypeOK, HitIsDue
    <2>6. ReportedOnce'
      BY <2>1 DEF SInv, STypeOK, ReportedOnce
    <2>7. ExpireHasCause'
      BY <1>2, <2>1, <2>2 DEF SInv, ExpireHasCause, HitIsDue
    <2> QED
      BY <1>5, <2>4, <2>5, <2>6, <2>7 DEF SInv
  <1>10. ASSUME NEW w \in Sweepers, SweepFails(w) PROVE SInv'
    <2>1. /\ UNCHANGED <<now, revoked, expires, told>>
          /\ spc' = [spc EXCEPT ![w] = "idle"] /\ hit' = [hit EXCEPT ![w] = {}]
          /\ faults' \in 0 .. MaxFaults
      BY <1>10 DEF SweepFails, Fails, Fault, SInv, STypeOK
    <2>2. STypeOK'
      BY <1>1, <1>2, <2>1 DEF SInv, STypeOK
    <2>3. HitIsDue'
      BY <2>1 DEF SInv, STypeOK, HitIsDue
    <2> QED
      BY <1>2, <1>5, <2>1, <2>2, <2>3 DEF SInv, ReportedOnce, ExpireHasCause
  <1> QED
    BY <1>6, <1>7, <1>8, <1>9, <1>10

LEMMA NextSInv == SInv /\ [Next]_vars => SInv'
  <1> SUFFICES ASSUME SInv, [Next]_vars PROVE SInv'
    OBVIOUS
  <1>1. CASE UNCHANGED vars
    BY <1>1 DEF vars, SInv, STypeOK, RoomLeft, HitIsDue, ReportedOnce, ExpireHasCause,
       Open, InFlight, Created
  <1>2. CASE Next
    BY <1>2, PreflightSInv, CreateSInv, OtherSInv DEF Next
  <1> QED
    BY <1>1, <1>2

\* The inductive invariant: the count of open sessions together with the
\* requests past the preflight, and what the sweepers have picked up.
THEOREM SessionsInvariance == Spec => []SInv
  BY InitSInv, NextSInv, PTL DEF Spec

\* Every reachable state has the declared types.
THEOREM SessionsTypeCorrect == Spec => []STypeOK
  BY SessionsInvariance, PTL DEF SInv

\* The quota is overrun by no more than the requests served at the same time,
\* although the preflight counts in another transaction (quotas.ts 11-58).
THEOREM QuotaOverrunBounded == Spec => []OverrunBounded
  <1>1. SInv => OverrunBounded
    BY CountedFinite, SessionsAssumption DEF SInv, RoomLeft, OverrunBounded
  <1> QED
    BY <1>1, SessionsInvariance, PTL

\* A session that nobody revoked is reported as expired exactly once when it is
\* closed, by however many sweepers (session-sweeper.ts 26-52).
THEOREM ExpiryReportedOnce == Spec => []ReportedOnce
  BY SessionsInvariance, PTL DEF SInv

\* Only expired sessions are reported as expired.
THEOREM ExpiryHasCause == Spec => []ExpireHasCause
  BY SessionsInvariance, PTL DEF SInv
==============================================================================
