-------------------------- MODULE EventPipelineProofs --------------------------
(***************************************************************************)
(* Proofs about the outbox and about the pipeline it feeds, for any number *)
(* of events, keys, relays, consumers, attempts and faults: the outbox's   *)
(* inductive invariant, the delivery contract it implements, what its      *)
(* lease gives while relays are prompt, and the two links joined.          *)
(***************************************************************************)
EXTENDS EventPipeline, FiniteSetTheorems, TLAPS

------------------------------------------------------------------------------
(* The outbox under every fault, timing and interleaving.                  *)

\* Where a relay is and what it has in hand agree, and a message about to be
\* marked published is in the stream.
RelayConsistent ==
  \A r \in Relays :
    /\ pc[r] = "idle" => batch[r] = {}
    /\ pc[r] \in {"mark", "fail"} => cur[r] \in batch[r]
    /\ pc[r] = "mark" => copies[cur[r]] > 0

\* A row belongs to the transaction that inserted it, and a relay only ever
\* holds rows whose transaction committed.
RowsHaveTx ==
  /\ \A e \in Events : status[e] = "inserted" => tx[e] = "open"
  /\ \A e \in Events : Visible(e) => tx[e] = "committed"
  /\ \A r \in Relays : \A e \in batch[r] : Visible(e)

\* While an enqueue that found its key taken is open, and after it committed,
\* a visible row has the key.
DuplicateHasOriginal ==
  \A e \in Events :
    (tx[e] \in {"open", "committed"} /\ status[e] = "absent") =>
      \E f \in Events : SameKey(e, f) /\ Visible(f)

\* The bound on copies: at MaxCopies the dedup window stays open.
FullIsRemembered == \A e \in Events : copies[e] = MaxCopies => e \in window

\* The stream remembers the msgId of a message only if it stored the message.
RememberedIsStored == \A e \in window : copies[e] > 0

\* The inductive invariant that holds under every fault and timing.
IInv ==
  /\ OTypeOK
  /\ RelayConsistent
  /\ RowsHaveTx
  /\ DuplicateHasOriginal
  /\ PublishedIsStored
  /\ FullIsRemembered
  /\ RememberedIsStored

LEMMA InitIInv == Init => IInv
  BY OutboxAssumption
  DEF Init, IInv, OTypeOK, RelayConsistent, RowsHaveTx, DuplicateHasOriginal,
      PublishedIsStored, FullIsRemembered, RememberedIsStored, Visible

LEMMA EnqueueIInv == ASSUME IInv, NEW e \in Events, Enqueue(e) PROVE IInv'
  <1> USE OutboxAssumption DEF IInv, Enqueue, relay, nats
  <1>0. status[e] = "absent" /\ \A r \in Relays : e \notin batch[r]
    BY DEF RowsHaveTx, Visible, OTypeOK
  <1>1. OTypeOK'
    <2>1. tx' \in [Events -> {"none", "open", "committed", "aborted", "failed"}]
      BY DEF OTypeOK
    <2>3. status' \in [Events -> {"absent", "inserted", "pending", "published", "dead"}]
      BY DEF OTypeOK
    <2>2. older' \in [Events -> SUBSET Events]
      <3> DEFINE before == {f \in Events : status[f] # "absent"}
      <3>1. older' = older \/ older' = [older EXCEPT ![e] = before]
        OBVIOUS
      <3>2. before \in SUBSET Events
        OBVIOUS
      <3>3. older \in [Events -> SUBSET Events]
        BY DEF OTypeOK
      <3> HIDE DEF before, IInv, Enqueue
      <3> QED
        BY <3>1, <3>2, <3>3
    <2> QED
      BY <2>1, <2>2, <2>3 DEF OTypeOK
  <1>2. RelayConsistent'
    BY DEF RelayConsistent
  <1>3. RowsHaveTx'
    <2>1. \A f \in Events : f # e => status'[f] = status[f] /\ tx'[f] = tx[f]
      BY DEF OTypeOK
    <2>2. status'[e] \in {"absent", "inserted"} /\ (status'[e] = "inserted" => tx'[e] = "open")
      BY <1>0 DEF OTypeOK
    <2>3. \A r \in Relays : batch'[r] = batch[r] /\ batch[r] \subseteq Events
      BY DEF OTypeOK
    <2> QED
      BY <1>0, <2>1, <2>2, <2>3 DEF RowsHaveTx, Visible
  <1>4. DuplicateHasOriginal'
    <2>1. \A f \in Events : Visible(f) => Visible(f)'
      BY <1>0 DEF Visible, OTypeOK
    <2>2. \A f \in Events : f # e => status'[f] = status[f] /\ tx'[f] = tx[f]
      BY DEF OTypeOK
    <2>3. tx'[e] = "open" /\ status'[e] = "absent" =>
            \E f \in Events : SameKey(e, f) /\ Visible(f)
      BY <1>0 DEF Rivals, MustWait, Visible, OTypeOK
    <2>4. tx'[e] # "committed"
      BY DEF OTypeOK
    <2> QED
      BY <2>1, <2>2, <2>3, <2>4 DEF DuplicateHasOriginal, SameKey
  <1>5. PublishedIsStored' /\ FullIsRemembered' /\ RememberedIsStored'
    BY DEF PublishedIsStored, FullIsRemembered, RememberedIsStored, OTypeOK
  <1> QED
    BY <1>1, <1>2, <1>3, <1>4, <1>5

LEMMA CommitIInv == ASSUME IInv, NEW e \in Events, Commit(e) PROVE IInv'
  <1> USE OutboxAssumption DEF IInv, Commit, relay, nats
  <1>1. OTypeOK'
    BY DEF OTypeOK
  <1>2. RelayConsistent'
    BY DEF RelayConsistent
  <1>3. RowsHaveTx'
    BY DEF RowsHaveTx, Visible, OTypeOK
  <1>4. DuplicateHasOriginal'
    <2>1. \A f \in Events : Visible(f) => Visible(f)'
      BY DEF Visible, OTypeOK
    <2>2. \A f \in Events : /\ status'[f] = "absent" => status[f] = "absent"
                            /\ tx'[f] \in {"open", "committed"} => tx[f] \in {"open", "committed"}
      BY DEF OTypeOK
    <2> QED
      BY <2>1, <2>2 DEF DuplicateHasOriginal, SameKey
  <1>5. PublishedIsStored' /\ FullIsRemembered' /\ RememberedIsStored'
    BY DEF PublishedIsStored, FullIsRemembered, RememberedIsStored, OTypeOK
  <1> QED
    BY <1>1, <1>2, <1>3, <1>4, <1>5

LEMMA AbortIInv == ASSUME IInv, NEW e \in Events, Abort(e) PROVE IInv'
  <1> USE OutboxAssumption DEF IInv, Abort, relay, nats
  <1>0. ~Visible(e) /\ \A r \in Relays : e \notin batch[r]
    BY DEF RowsHaveTx, OTypeOK
  <1>1. OTypeOK'
    BY DEF OTypeOK
  <1>2. RelayConsistent'
    BY DEF RelayConsistent
  <1>3. RowsHaveTx'
    BY <1>0 DEF RowsHaveTx, Visible, OTypeOK
  <1>4. DuplicateHasOriginal'
    <2>1. \A f \in Events : Visible(f) => Visible(f)'
      BY <1>0 DEF Visible, OTypeOK
    <2>2. \A f \in Events : f # e => status'[f] = status[f] /\ tx'[f] = tx[f]
      BY DEF OTypeOK
    <2>3. tx'[e] = "aborted"
      BY DEF OTypeOK
    <2> QED
      BY <2>1, <2>2, <2>3 DEF DuplicateHasOriginal, SameKey
  <1>5. PublishedIsStored' /\ FullIsRemembered' /\ RememberedIsStored'
    BY DEF PublishedIsStored, FullIsRemembered, RememberedIsStored, OTypeOK
  <1> QED
    BY <1>1, <1>2, <1>3, <1>4, <1>5

\* A relay step that moves rows only among pending, published and dead keeps
\* what relates rows to their transactions.
LEMMA VisibleStaysVisible ==
  ASSUME IInv, UNCHANGED tx,
         \A e \in Events : Visible(e) <=> Visible(e)',
         \A e \in Events : ~Visible(e) => status'[e] = status[e],
         \A r \in Relays : \A e \in batch'[r] : e \in Events /\ Visible(e)
  PROVE  RowsHaveTx' /\ DuplicateHasOriginal'
  <1>1. \A e \in Events : status'[e] \in {"inserted", "absent"} => status[e] = status'[e]
    BY DEF Visible
  <1>2. RowsHaveTx'
    BY <1>1 DEF IInv, RowsHaveTx
  <1>3. DuplicateHasOriginal'
    BY <1>1 DEF IInv, DuplicateHasOriginal, SameKey
  <1> QED
    BY <1>2, <1>3

LEMMA PickIInv == ASSUME IInv, NEW r \in Relays, Pick(r) PROVE IInv'
  <1> DEFINE picked == Oldest(Available, BatchSize)
             tries == [e \in Events |-> IF e \in picked /\ attempts[e] < MaxAttempts
                                        THEN attempts[e] + 1 ELSE attempts[e]]
  <1> USE OutboxAssumption DEF IInv
  <1>1. /\ pc[r] = "idle"
        /\ UNCHANGED <<tx, status, older, cur, stopped, copies, window>>
        /\ leased' = [e \in Events |-> e \in picked \/ leased[e]]
        /\ attempts' = tries
        /\ \/ /\ batch' = [batch EXCEPT ![r] = picked]
              /\ seen' = [seen EXCEPT ![r] = [e \in Events |-> IF e \in picked THEN tries[e] ELSE 0]]
              /\ pc' = [pc EXCEPT ![r] = "publish"]
              /\ faults' = faults
           \/ (UNCHANGED <<batch, seen, pc>> /\ faults' = faults + 1 /\ faults < MaxFaults)
    BY DEF Pick, NoFault, Fault, nats
  <1>2. picked \subseteq Events /\ \A e \in picked : status[e] = "pending"
    BY DEF Oldest, Available
  <1>3. tries \in [Events -> 0 .. MaxAttempts]
    BY DEF OTypeOK
  <1> HIDE DEF picked, tries
  <1>4. OTypeOK'
    <2>1. seen' \in [Relays -> [Events -> 0 .. MaxAttempts]]
      <3> DEFINE s == [e \in Events |-> IF e \in picked THEN tries[e] ELSE 0]
      <3>1. s \in [Events -> 0 .. MaxAttempts]
        BY <1>3
      <3> HIDE DEF s
      <3>2. seen' = seen \/ seen' = [seen EXCEPT ![r] = s]
        BY <1>1 DEF s
      <3> QED
        BY <3>1, <3>2 DEF OTypeOK
    <2>2. batch' \in [Relays -> SUBSET Events] /\ pc' \in [Relays -> {"idle", "publish", "mark", "fail"}]
      BY <1>1, <1>2 DEF OTypeOK
    <2>3. leased' \in [Events -> BOOLEAN]
      BY <1>1 DEF OTypeOK
    <2>4. faults' \in 0 .. MaxFaults
      BY <1>1 DEF OTypeOK
    <2> QED
      BY <1>1, <1>3, <2>1, <2>2, <2>3, <2>4 DEF OTypeOK
  <1>5. RelayConsistent'
    BY <1>1 DEF RelayConsistent, OTypeOK
  <1>6. RowsHaveTx' /\ DuplicateHasOriginal'
    <2>1. \A s \in Relays : \A e \in batch'[s] : e \in Events /\ Visible(e)
      BY <1>1, <1>2 DEF RowsHaveTx, Visible, OTypeOK
    <2>2. tx' = tx /\ status' = status
      BY <1>1
    <2>3. \A f \in Events : Visible(f) => Visible(f)'
      BY <2>2 DEF Visible
    <2> QED
      BY <2>1, <2>2, <2>3, VisibleStaysVisible DEF Visible
  <1>7. PublishedIsStored' /\ FullIsRemembered' /\ RememberedIsStored'
    BY <1>1 DEF PublishedIsStored, FullIsRemembered, RememberedIsStored
  <1> QED
    BY <1>4, <1>5, <1>6, <1>7

LEMMA PublishIInv == ASSUME IInv, NEW r \in Relays, Publish(r) PROVE IInv'
  <1> USE OutboxAssumption DEF IInv
  <1>1. PICK e \in batch[r] :
          /\ cur' = [cur EXCEPT ![r] = e]
          /\ \/ Store(e) /\ \/ NoFault /\ pc' = [pc EXCEPT ![r] = "mark"]
                            \/ Fault("ackLost") /\ pc' = [pc EXCEPT ![r] = "fail"]
             \/ /\ UNCHANGED nats /\ (NoFault \/ Fault("refused"))
                /\ pc' = [pc EXCEPT ![r] = "fail"]
    BY DEF Publish, Refused
  <1>2. pc[r] = "publish" /\ UNCHANGED <<tx, status, older, attempts, leased, batch, seen, stopped>>
    BY DEF Publish, rows
  <1>3. e \in Events
    BY DEF OTypeOK
  <1>4. faults' \in 0 .. MaxFaults
    BY <1>1 DEF NoFault, Fault, OTypeOK
  <1>5. /\ copies' \in [Events -> 0 .. MaxCopies]
        /\ window' \in SUBSET Events
        /\ \A f \in Events : copies'[f] >= copies[f]
        /\ FullIsRemembered'
    <2>1. CASE e \notin window /\ Store(e)
      <3>1. /\ copies' = [copies EXCEPT ![e] = @ + 1]
            /\ window' = window \union {e}
        BY <2>1 DEF Store
      <3>2. copies[e] \in 0 .. MaxCopies /\ copies[e] # MaxCopies /\ MaxCopies \in Nat
        BY <1>3, <2>1 DEF FullIsRemembered, OTypeOK
      <3>3. copies[e] + 1 \in 0 .. MaxCopies /\ copies[e] + 1 >= copies[e]
        BY <3>2
      <3>4. \A f \in Events : copies[f] \in 0 .. MaxCopies /\ copies[f] >= copies[f]
        BY DEF OTypeOK
      <3> QED
        BY <1>3, <3>1, <3>3, <3>4 DEF FullIsRemembered, OTypeOK
    <2>2. CASE UNCHANGED nats
      BY <2>2 DEF nats, FullIsRemembered, OTypeOK
    <2> QED
      BY <1>1, <2>1, <2>2 DEF Store
  <1>6. Store(e) => copies'[e] > 0
    <2>1. CASE e \in window /\ UNCHANGED nats
      BY <1>3, <2>1 DEF nats, RememberedIsStored
    <2>2. CASE e \notin window /\ copies' = [copies EXCEPT ![e] = @ + 1]
      BY <1>3, <2>2 DEF OTypeOK
    <2> QED
      BY <2>1, <2>2 DEF Store
  <1>7. OTypeOK'
    BY <1>1, <1>2, <1>3, <1>4, <1>5 DEF OTypeOK
  <1>8. RelayConsistent'
    BY <1>1, <1>2, <1>3, <1>5, <1>6 DEF RelayConsistent, OTypeOK
  <1>9. RowsHaveTx' /\ DuplicateHasOriginal'
    <2>1. \A s \in Relays : \A f \in batch'[s] : f \in Events /\ Visible(f)
      BY <1>2 DEF RowsHaveTx, OTypeOK
    <2> QED
      BY <1>2, <2>1, VisibleStaysVisible DEF Visible
  <1>10. PublishedIsStored'
    BY <1>2, <1>5 DEF PublishedIsStored, OTypeOK
  <1>11. RememberedIsStored'
    BY <1>1, <1>2, <1>3, <1>5, <1>6 DEF RememberedIsStored, Store, nats, OTypeOK
  <1> QED
    BY <1>5, <1>7, <1>8, <1>9, <1>10, <1>11

\* What a relay forgets with its rows concerns only rows it no longer has.
LEMMA SeenForgotten ==
  ASSUME OTypeOK, NEW r \in Relays, (cur[r] \in Events /\ NextRow(r)) \/ Drop(r)
  PROVE  /\ seen' \in [Relays -> [Events -> 0 .. MaxAttempts]]
         /\ \A s \in Relays : \A f \in batch'[s] : seen'[s][f] = seen[s][f]
  <1>1. /\ seen \in [Relays -> [Events -> 0 .. MaxAttempts]]
        /\ batch \in [Relays -> SUBSET Events]
        /\ 0 \in 0 .. MaxAttempts
    BY OutboxAssumption DEF OTypeOK
  <1>2. CASE cur[r] \in Events /\ NextRow(r)
    <2> DEFINE s == [seen[r] EXCEPT ![cur[r]] = 0]
    <2>1. s \in [Events -> 0 .. MaxAttempts] /\ \A f \in Events \ {cur[r]} : s[f] = seen[r][f]
      BY <1>1, <1>2
    <2>2. seen' = [seen EXCEPT ![r] = s] /\ batch' = [batch EXCEPT ![r] = @ \ {cur[r]}]
      BY <1>2 DEF NextRow
    <2> HIDE DEF s
    <2> QED
      BY <1>1, <2>1, <2>2
  <1>3. CASE Drop(r)
    <2> DEFINE s == [e \in Events |-> 0]
    <2>1. s \in [Events -> 0 .. MaxAttempts]
      BY <1>1
    <2>2. seen' = [seen EXCEPT ![r] = s] /\ batch' = [batch EXCEPT ![r] = {}]
      BY <1>3 DEF Drop
    <2> HIDE DEF s
    <2> QED
      BY <1>1, <2>1, <2>2
  <1> QED
    BY <1>2, <1>3

LEMMA MarkIInv == ASSUME IInv, NEW r \in Relays, Mark(r) PROVE IInv'
  <1> USE OutboxAssumption DEF IInv
  <1> DEFINE e == cur[r]
  <1>1. /\ pc[r] = "mark" /\ e \in batch[r] /\ e \in Events /\ copies[e] > 0
        /\ UNCHANGED <<tx, older, attempts, stopped, copies, window>>
    BY DEF Mark, nats, RelayConsistent, OTypeOK
  <1>2. \/ UNCHANGED <<status, leased>>
        \/ /\ status' = [status EXCEPT ![e] = "published"]
           /\ leased' = [leased EXCEPT ![e] = FALSE]
    BY DEF Mark, SetRow
  <1>3. NextRow(r) \/ (UNCHANGED <<batch, seen, cur>> /\ pc' = [pc EXCEPT ![r] = "fail"])
    BY DEF Mark
  <1>4. faults' \in 0 .. MaxFaults
    BY DEF Mark, NoFault, Fault, OTypeOK
  <1>5. Visible(e) /\ \A s \in Relays : batch'[s] \subseteq batch[s]
    BY <1>1, <1>3 DEF RowsHaveTx, NextRow, OTypeOK
  <1> HIDE DEF e
  <1>6. OTypeOK'
    <2>1. status' \in [Events -> {"absent", "inserted", "pending", "published", "dead"}]
      BY <1>1, <1>2 DEF OTypeOK
    <2>2. leased' \in [Events -> BOOLEAN]
      BY <1>1, <1>2 DEF OTypeOK
    <2>3. batch' \in [Relays -> SUBSET Events]
      BY <1>3 DEF NextRow, OTypeOK
    <2>4. cur' \in [Relays -> Events \union {NoEvent}]
      BY <1>3 DEF NextRow, OTypeOK
    <2>5. pc' \in [Relays -> {"idle", "publish", "mark", "fail"}]
      BY <1>3 DEF NextRow, OTypeOK
    <2>6. seen' \in [Relays -> [Events -> 0 .. MaxAttempts]]
      BY <1>1, <1>3, SeenForgotten DEF OTypeOK, e
    <2> QED
      BY <1>1, <1>4, <2>1, <2>2, <2>3, <2>4, <2>5, <2>6 DEF OTypeOK
  <1>7. RelayConsistent'
    BY <1>1, <1>3 DEF RelayConsistent, NextRow, OTypeOK, e
  <1>8. RowsHaveTx' /\ DuplicateHasOriginal'
    <2>1. \A s \in Relays : \A f \in batch'[s] : f \in Events /\ Visible(f)
      BY <1>5 DEF RowsHaveTx, OTypeOK
    <2>2. \A f \in Events : (Visible(f) <=> Visible(f)') /\ (~Visible(f) => status'[f] = status[f])
      BY <1>1, <1>2, <1>5 DEF Visible, OTypeOK
    <2> QED
      BY <1>1, <2>1, <2>2, VisibleStaysVisible
  <1>9. PublishedIsStored' /\ FullIsRemembered' /\ RememberedIsStored'
    BY <1>1, <1>2 DEF PublishedIsStored, FullIsRemembered, RememberedIsStored, OTypeOK
  <1> QED
    BY <1>6, <1>7, <1>8, <1>9

LEMMA HandleErrorIInv == ASSUME IInv, NEW r \in Relays, HandleError(r) PROVE IInv'
  <1> USE OutboxAssumption DEF IInv
  <1> DEFINE e == cur[r]
  <1>1. /\ pc[r] = "fail" /\ e \in batch[r] /\ e \in Events
        /\ UNCHANGED <<tx, older, attempts, stopped, copies, window>>
    BY DEF HandleError, nats, RelayConsistent, OTypeOK
  <1>2. /\ \/ UNCHANGED <<status, leased>>
           \/ /\ status' = [status EXCEPT ![e] = Outcome(r)]
              /\ leased' = [leased EXCEPT ![e] = FALSE]
        /\ Outcome(r) \in {"pending", "dead"}
    BY DEF HandleError, SetRow, Outcome
  <1>3. NextRow(r) \/ Drop(r)
    BY DEF HandleError
  <1>4. faults' \in 0 .. MaxFaults
    BY DEF HandleError, NoFault, Fault, OTypeOK
  <1>5. Visible(e) /\ \A s \in Relays : batch'[s] \subseteq batch[s]
    BY <1>1, <1>3 DEF RowsHaveTx, NextRow, Drop, OTypeOK
  <1> HIDE DEF e
  <1>6. OTypeOK'
    <2>1. status' \in [Events -> {"absent", "inserted", "pending", "published", "dead"}]
      BY <1>1, <1>2 DEF OTypeOK
    <2>2. leased' \in [Events -> BOOLEAN]
      BY <1>1, <1>2 DEF OTypeOK
    <2>3. batch' \in [Relays -> SUBSET Events]
      <3>1. PICK rest \in SUBSET Events : batch' = [batch EXCEPT ![r] = rest]
        BY <1>3 DEF NextRow, Drop, OTypeOK
      <3> QED
        BY <3>1 DEF OTypeOK
    <2>4. cur' \in [Relays -> Events \union {NoEvent}]
      BY <1>3 DEF NextRow, Drop, OTypeOK
    <2>5. pc' \in [Relays -> {"idle", "publish", "mark", "fail"}]
      BY <1>3 DEF NextRow, Drop, OTypeOK
    <2>6. seen' \in [Relays -> [Events -> 0 .. MaxAttempts]]
      BY <1>1, <1>3, SeenForgotten DEF OTypeOK, e
    <2> QED
      BY <1>1, <1>4, <2>1, <2>2, <2>3, <2>4, <2>5, <2>6 DEF OTypeOK
  <1>7. RelayConsistent'
    <2>1. CASE NextRow(r)
      BY <1>1, <2>1 DEF RelayConsistent, NextRow, OTypeOK, e
    <2>2. CASE Drop(r)
      BY <1>1, <2>2 DEF RelayConsistent, Drop, OTypeOK
    <2> QED
      BY <1>3, <2>1, <2>2
  <1>8. RowsHaveTx' /\ DuplicateHasOriginal'
    <2>1. \A s \in Relays : \A f \in batch'[s] : f \in Events /\ Visible(f)
      BY <1>5 DEF RowsHaveTx, OTypeOK
    <2>2. \A f \in Events : (Visible(f) <=> Visible(f)') /\ (~Visible(f) => status'[f] = status[f])
      BY <1>1, <1>2, <1>5 DEF Visible, OTypeOK
    <2> QED
      BY <1>1, <2>1, <2>2, VisibleStaysVisible
  <1>9. PublishedIsStored' /\ FullIsRemembered' /\ RememberedIsStored'
    BY <1>1, <1>2 DEF PublishedIsStored, FullIsRemembered, RememberedIsStored, OTypeOK
  <1> QED
    BY <1>6, <1>7, <1>8, <1>9

\* Crash, Stop and Restart leave rows and stream alone and empty a batch at most.
LEMMA ProcessIInv ==
  ASSUME IInv, NEW r \in Relays, Crash(r) \/ Stop(r) \/ Restart(r)
  PROVE  IInv'
  <1> USE OutboxAssumption DEF IInv
  <1>1. UNCHANGED <<tx, status, older, attempts, leased, copies, window>>
    BY DEF Crash, Stop, Restart, rows, nats
  <1>2. UNCHANGED <<pc, batch, seen, cur>> \/ Drop(r)
    BY DEF Crash, Stop, Restart
  <1>3. stopped' \in [Relays -> BOOLEAN]
    BY DEF Crash, Stop, Restart, OTypeOK
  <1>4. faults' \in 0 .. MaxFaults
    BY DEF Crash, Stop, Restart, Fault, OTypeOK
  <1>5. OTypeOK'
    <2>1. seen' \in [Relays -> [Events -> 0 .. MaxAttempts]]
      BY <1>2, SeenForgotten DEF OTypeOK
    <2> QED
      BY <1>1, <1>2, <1>3, <1>4, <2>1 DEF Drop, OTypeOK
  <1>6. RelayConsistent'
    BY <1>1, <1>2 DEF RelayConsistent, Drop, OTypeOK
  <1>7. RowsHaveTx' /\ DuplicateHasOriginal'
    <2>1. \A s \in Relays : \A f \in batch'[s] : f \in Events /\ Visible(f)
      <3>1. batch' = batch \/ batch' = [batch EXCEPT ![r] = {}]
        BY <1>2 DEF Drop
      <3>2. \A s \in Relays : batch'[s] \subseteq batch[s] /\ batch[s] \subseteq Events
        BY <3>1 DEF OTypeOK
      <3> QED
        BY <3>2 DEF RowsHaveTx
    <2> QED
      BY <1>1, <2>1, VisibleStaysVisible DEF Visible
  <1>8. PublishedIsStored' /\ FullIsRemembered' /\ RememberedIsStored'
    BY <1>1 DEF PublishedIsStored, FullIsRemembered, RememberedIsStored
  <1> QED
    BY <1>5, <1>6, <1>7, <1>8

\* Time and the operator.
LEMMA AroundIInv ==
  ASSUME IInv, NEW e \in Events, LeaseRunsOut(e) \/ WindowEnds(e) \/ OperatorRequeue(e)
  PROVE  IInv'
  <1> USE OutboxAssumption DEF IInv
  <1>1. UNCHANGED <<tx, older, pc, batch, seen, cur, stopped, copies>>
    BY DEF LeaseRunsOut, WindowEnds, OperatorRequeue, relay, nats, rows
  <1>2. status' = status \/ (status[e] = "dead" /\ status' = [status EXCEPT ![e] = "pending"])
    BY DEF LeaseRunsOut, WindowEnds, OperatorRequeue, rows
  <1>3. window' = window \/ (copies[e] < MaxCopies /\ window' = window \ {e})
    BY DEF LeaseRunsOut, WindowEnds, OperatorRequeue, nats
  <1>4. OTypeOK'
    <2>1. leased' \in [Events -> BOOLEAN]
      BY DEF LeaseRunsOut, WindowEnds, OperatorRequeue, rows, OTypeOK
    <2>3. attempts' \in [Events -> 0 .. MaxAttempts]
      BY DEF LeaseRunsOut, WindowEnds, OperatorRequeue, rows, OTypeOK
    <2>2. faults' \in 0 .. MaxFaults
      BY DEF LeaseRunsOut, WindowEnds, OperatorRequeue, Fault, OTypeOK
    <2> QED
      BY <1>1, <1>2, <1>3, <2>1, <2>2, <2>3 DEF OTypeOK
  <1>5. RelayConsistent'
    BY <1>1 DEF RelayConsistent
  <1>6. RowsHaveTx' /\ DuplicateHasOriginal'
    <2>1. \A s \in Relays : \A f \in batch'[s] : f \in Events /\ Visible(f)
      BY <1>1 DEF RowsHaveTx, OTypeOK
    <2>2. \A f \in Events : (Visible(f) <=> Visible(f)') /\ (~Visible(f) => status'[f] = status[f])
      BY <1>2 DEF Visible, OTypeOK
    <2> QED
      BY <1>1, <2>1, <2>2, VisibleStaysVisible
  <1>7. PublishedIsStored' /\ FullIsRemembered' /\ RememberedIsStored'
    BY <1>1, <1>2, <1>3 DEF PublishedIsStored, FullIsRemembered, RememberedIsStored, OTypeOK
  <1> QED
    BY <1>4, <1>5, <1>6, <1>7

LEMMA NextIInv == IInv /\ [Next]_vars => IInv'
  <1> SUFFICES ASSUME IInv, [Next]_vars PROVE IInv'
    OBVIOUS
  <1>1. CASE UNCHANGED vars
    BY <1>1 DEF vars, rows, relay, nats, IInv, OTypeOK, RelayConsistent, RowsHaveTx,
       DuplicateHasOriginal, PublishedIsStored, FullIsRemembered, RememberedIsStored,
       Visible, SameKey
  <1>2. CASE Next
    BY <1>2, EnqueueIInv, CommitIInv, AbortIInv, PickIInv, PublishIInv, MarkIInv,
       HandleErrorIInv, ProcessIInv, AroundIInv DEF Next, RelayStep
  <1> QED
    BY <1>1, <1>2

\* The inductive invariant holds under every fault, timing and interleaving.
THEOREM Invariance == Spec => []IInv
  BY InitIInv, NextIInv, PTL DEF Spec

\* Every reachable state of the outbox and its relays has the declared types.
THEOREM TypeCorrect == Spec => []OTypeOK
  BY Invariance, PTL DEF IInv

\* A row never says published unless the stream has its message: whatever
\* fails, crashes or overlaps between publish and update (outbox.ts 108-116).
THEOREM PublishedStored == Spec => []PublishedIsStored
  BY Invariance, PTL DEF IInv

\* A committed enqueue never loses its event to deduplication: the conflict is
\* never decided against a row that a rollback takes away (outbox.ts 39-47).
THEOREM DedupKeepsEvent == Spec => []DedupNeverLosesEvent
  <1>1. IInv => DedupNeverLosesEvent
    BY DEF IInv, OTypeOK, RowsHaveTx, DuplicateHasOriginal, DedupNeverLosesEvent, Visible
  <1> QED
    BY <1>1, Invariance, PTL

------------------------------------------------------------------------------
(* The outbox implements the delivery contract of EventDelivery.           *)

Accepted == {e \in Events : tx[e] = "committed" /\ Visible(e)}
Delivered == {e \in Events : copies[e] > 0}
WrittenOff == {e \in Events : status[e] = "dead"}

ContractStep == [Delivery!DNext]_(Delivery!dvars)

\* The steps of the contract, on the sets the outbox keeps.
LEMMA AcceptStep ==
  ASSUME NEW e \in Events, e \notin Accepted, Accepted' = Accepted \union {e},
         Delivered' = Delivered, WrittenOff' = WrittenOff
  PROVE  ContractStep
  BY DEF ContractStep, Accepted, Delivered, WrittenOff, Delivery!DNext, Delivery!Accept

LEMMA DeliverStep ==
  ASSUME NEW e \in Events, e \in Accepted \ Delivered, Delivered' = Delivered \union {e},
         Accepted' = Accepted, WrittenOff' = WrittenOff
  PROVE  ContractStep
  BY DEF ContractStep, Accepted, Delivered, WrittenOff, Delivery!DNext, Delivery!Deliver

LEMMA WriteOffStep ==
  ASSUME NEW e \in Events, e \in Accepted \ WrittenOff, WrittenOff' = WrittenOff \union {e},
         Accepted' = Accepted, Delivered' = Delivered
  PROVE  ContractStep
  BY DEF ContractStep, Accepted, Delivered, WrittenOff, Delivery!DNext, Delivery!WriteOff

LEMMA ReopenStep ==
  ASSUME NEW e \in Events, e \in WrittenOff, WrittenOff' = WrittenOff \ {e},
         Accepted' = Accepted, Delivered' = Delivered
  PROVE  ContractStep
  BY DEF ContractStep, Accepted, Delivered, WrittenOff, Delivery!DNext, Delivery!Reopen

LEMMA Stutter ==
  ASSUME Accepted' = Accepted, Delivered' = Delivered, WrittenOff' = WrittenOff
  PROVE  ContractStep
  BY DEF ContractStep, Accepted, Delivered, WrittenOff, Delivery!dvars

\* An open transaction's row is invisible: enqueue and rollback stutter, and a
\* commit accepts the event unless its insert was skipped as a duplicate.
LEMMA CallerStep ==
  ASSUME IInv, IInv', NEW e \in Events, Enqueue(e) \/ Commit(e) \/ Abort(e)
  PROVE  ContractStep
  <1>1. /\ copies' = copies
        /\ \A f \in Events : f # e => tx'[f] = tx[f] /\ status'[f] = status[f]
    BY DEF Enqueue, Commit, Abort, nats, IInv, OTypeOK
  <1>2. ~Visible(e) /\ status'[e] # "dead" /\ status[e] # "dead"
    <2>1. ~Visible(e)
      BY DEF Enqueue, Commit, Abort, IInv, RowsHaveTx, OTypeOK
    <2> QED
      BY <2>1 DEF Enqueue, Commit, Abort, IInv, OTypeOK, Visible
  <1>3. Delivered' = Delivered /\ WrittenOff' = WrittenOff
    BY <1>1, <1>2 DEF Delivered, WrittenOff
  <1>4. e \notin Accepted /\ \A f \in Events : f # e => (f \in Accepted' <=> f \in Accepted)
    BY <1>1, <1>2 DEF Accepted, Visible
  <1>5. Accepted \subseteq Events /\ Accepted' \subseteq Events
    BY DEF Accepted
  <1> HIDE DEF Accepted, Delivered, WrittenOff
  <1>6. CASE e \in Accepted'
    <2>1. Accepted' = Accepted \union {e}
      BY <1>4, <1>5, <1>6
    <2> QED
      BY <1>3, <1>4, <2>1, AcceptStep
  <1>7. CASE e \notin Accepted'
    <2>1. Accepted' = Accepted
      BY <1>4, <1>5, <1>7
    <2> QED
      BY <1>3, <2>1, Stutter
  <1> QED
    BY <1>6, <1>7

\* A write to the status of one committed row, whoever makes it.
LEMMA RowStep ==
  ASSUME IInv, UNCHANGED <<tx, copies>>, NEW e \in Events, Visible(e),
         NEW s \in {"pending", "published", "dead"},
         status' = [status EXCEPT ![e] = s] \/ status' = status
  PROVE  ContractStep
  <1>1. Delivered' = Delivered
    BY DEF Delivered
  <1>2. \A f \in Events : /\ Visible(f)' <=> Visible(f)
                          /\ f # e => status'[f] = status[f]
    BY DEF Visible, IInv, OTypeOK
  <1>3. Accepted' = Accepted
    BY <1>2 DEF Accepted
  <1>4. e \in Accepted
    BY DEF Accepted, IInv, RowsHaveTx
  <1>5. WrittenOff \subseteq Events /\ WrittenOff' \subseteq Events
        /\ \A f \in Events : f # e => (f \in WrittenOff' <=> f \in WrittenOff)
    BY <1>2 DEF WrittenOff
  <1> HIDE DEF Accepted, Delivered, WrittenOff
  <1>6. CASE e \in WrittenOff' <=> e \in WrittenOff
    <2>1. WrittenOff' = WrittenOff
      BY <1>5, <1>6
    <2> QED
      BY <1>1, <1>3, <2>1, Stutter
  <1>7. CASE e \in WrittenOff' /\ e \notin WrittenOff
    <2>1. WrittenOff' = WrittenOff \union {e}
      BY <1>5, <1>7
    <2> QED
      BY <1>1, <1>3, <1>4, <1>7, <2>1, WriteOffStep
  <1>8. CASE e \notin WrittenOff' /\ e \in WrittenOff
    <2>1. WrittenOff' = WrittenOff \ {e}
      BY <1>5, <1>8
    <2> QED
      BY <1>1, <1>3, <1>8, <2>1, ReopenStep
  <1> QED
    BY <1>6, <1>7, <1>8

\* A relay publishes only rows of its batch, which are committed.
LEMMA PublishStep == ASSUME IInv, IInv', NEW r \in Relays, Publish(r) PROVE ContractStep
  <1>1. UNCHANGED <<tx, status>>
    BY DEF Publish, rows
  <1>2. Accepted' = Accepted /\ WrittenOff' = WrittenOff
    BY <1>1 DEF Accepted, WrittenOff, Visible
  <1>3. PICK e \in batch[r] : copies' = copies \/ copies' = [copies EXCEPT ![e] = @ + 1]
    BY DEF Publish, Store, nats
  <1>4. e \in Events /\ e \in Accepted
    BY DEF Accepted, IInv, RowsHaveTx, OTypeOK
  <1>5. copies[e] \in Nat /\ \A f \in Events : f # e => copies'[f] = copies[f]
    BY <1>3, <1>4, OutboxAssumption DEF IInv, OTypeOK
  <1>6. /\ Delivered \subseteq Events /\ Delivered' \subseteq Events
        /\ \A f \in Events : f # e => (f \in Delivered' <=> f \in Delivered)
    BY <1>5 DEF Delivered
  <1>7. e \in Delivered => e \in Delivered'
    BY <1>3, <1>4, <1>5 DEF Delivered, IInv, OTypeOK
  <1> HIDE DEF Accepted, Delivered, WrittenOff
  <1>8. CASE e \in Delivered' /\ e \notin Delivered
    <2>1. Delivered' = Delivered \union {e}
      BY <1>4, <1>6, <1>8
    <2> QED
      BY <1>2, <1>4, <1>8, <2>1, DeliverStep
  <1>9. CASE e \in Delivered' <=> e \in Delivered
    <2>1. Delivered' = Delivered
      BY <1>4, <1>6, <1>9
    <2> QED
      BY <1>2, <2>1, Stutter
  <1> QED
    BY <1>7, <1>8, <1>9

\* The outcome of a row is written off, taken back, or of no concern.
LEMMA OutcomeStep ==
  ASSUME IInv, NEW r \in Relays, Mark(r) \/ HandleError(r)
  PROVE  ContractStep
  <1>1. UNCHANGED <<tx, copies>> /\ pc[r] \in {"mark", "fail"}
    BY DEF Mark, HandleError, nats
  <1>2. cur[r] \in Events /\ Visible(cur[r])
    BY <1>1 DEF IInv, RelayConsistent, RowsHaveTx, OTypeOK
  <1>3. PICK s \in {"pending", "published", "dead"} :
          status' = [status EXCEPT ![cur[r]] = s] \/ status' = status
    BY DEF Mark, HandleError, SetRow, Outcome
  <1> QED
    BY <1>1, <1>2, <1>3, RowStep

LEMMA OtherStep ==
  ASSUME IInv,
         \/ \E r \in Relays : Pick(r) \/ Crash(r) \/ Stop(r) \/ Restart(r)
         \/ \E e \in Events : LeaseRunsOut(e) \/ WindowEnds(e)
  PROVE  ContractStep
  <1>1. UNCHANGED <<tx, status, copies>>
    BY DEF Pick, Crash, Stop, Restart, LeaseRunsOut, WindowEnds, rows, nats
  <1> QED
    BY <1>1, Stutter DEF Accepted, Delivered, WrittenOff, Visible

LEMMA OperatorStep == ASSUME IInv, NEW e \in Events, OperatorRequeue(e) PROVE ContractStep
  <1>1. /\ UNCHANGED <<tx, copies>> /\ Visible(e)
        /\ status' = [status EXCEPT ![e] = "pending"]
    BY DEF OperatorRequeue, nats, Visible
  <1> QED
    BY <1>1, RowStep

LEMMA StepRefines == ASSUME IInv, IInv', [Next]_vars PROVE ContractStep
  <1>1. CASE UNCHANGED vars
    BY <1>1, Stutter DEF vars, rows, nats, Accepted, Delivered, WrittenOff, Visible
  <1>2. CASE Next
    BY <1>2, CallerStep, PublishStep, OutcomeStep, OtherStep, OperatorStep DEF Next, RelayStep
  <1> QED
    BY <1>1, <1>2

LEMMA InitRefines == Init => Delivery!DInit
  BY DEF Init, Delivery!DInit, Visible

\* The outbox implements the delivery contract: what a committed transaction
\* enqueued is never forgotten, only accepted events reach the stream, and what
\* reached it stays (outbox.ts 27-129).
THEOREM Refinement == Spec => ImplementsDelivery
  <1>1. IInv /\ IInv' /\ [Next]_vars => [Delivery!DNext]_(Delivery!dvars)
    BY StepRefines DEF ContractStep
  <1> QED
    BY <1>1, InitRefines, Invariance, PTL DEF Spec, ImplementsDelivery, Delivery!DSpec

------------------------------------------------------------------------------
(* What the lease gives while relays are prompt.                           *)

\* A row in hand is leased until its outcome is written, and a relay never has
\* a dead row in hand: a dead row is in nobody's batch, so it can be requeued.
HeldIsLeased ==
  \A r \in Relays : \A e \in batch[r] :
    /\ status[e] \in {"pending", "published"}
    /\ status[e] = "pending" => leased[e]

\* The attempts a relay read are no more than the row says now.
SeenNotAhead == \A r \in Relays : \A e \in batch[r] : seen[r][e] <= attempts[e]

LInv == IInv /\ HeldIsLeased /\ Exclusive /\ SeenNotAhead /\ DeadOnlyAfterMaxAttempts

LEMMA InitLInv == Init => LInv
  <1> SUFFICES ASSUME Init PROVE LInv
    OBVIOUS
  <1> QED
    BY InitIInv DEF Init, LInv, HeldIsLeased, Exclusive, SeenNotAhead, DeadOnlyAfterMaxAttempts

\* Steps that leave held rows and dead rows as they are.
LEMMA QuietLInv ==
  ASSUME LInv, IInv',
         \A r \in Relays : batch'[r] \subseteq batch[r],
         \A r \in Relays : \A e \in batch'[r] : seen'[r][e] = seen[r][e],
         \A e \in Events : \/ /\ attempts'[e] = attempts[e]
                              /\ status'[e] = status[e]
                              /\ leased'[e] = leased[e] \/ \A r \in Relays : e \notin batch[r]
                           \/ status'[e] # "dead" /\ \A r \in Relays : e \notin batch[r]
  PROVE  LInv'
  <1>0. \A r \in Relays : batch[r] \subseteq Events
    BY DEF LInv, IInv, OTypeOK
  <1>1. HeldIsLeased'
    BY <1>0 DEF LInv, HeldIsLeased
  <1>2. Exclusive'
    BY DEF LInv, Exclusive
  <1>3. SeenNotAhead'
    BY <1>0 DEF LInv, SeenNotAhead
  <1>4. DeadOnlyAfterMaxAttempts'
    BY DEF LInv, DeadOnlyAfterMaxAttempts
  <1> QED
    BY <1>1, <1>2, <1>3, <1>4 DEF LInv

LEMMA CallerLInv ==
  ASSUME LInv, IInv', NEW e \in Events, Enqueue(e) \/ Commit(e) \/ Abort(e)
  PROVE  LInv'
  <1>1. ~Visible(e) /\ \A r \in Relays : e \notin batch[r]
    BY DEF LInv, IInv, RowsHaveTx, Enqueue, Commit, Abort, OTypeOK
  <1>2. UNCHANGED <<attempts, leased, batch, seen>>
    BY DEF Enqueue, Commit, Abort, relay
  <1>3. \A f \in Events : f # e => status'[f] = status[f]
    BY DEF Enqueue, Commit, Abort, LInv, IInv, OTypeOK
  <1>4. status'[e] # "dead"
    BY <1>1 DEF Enqueue, Commit, Abort, LInv, IInv, OTypeOK, Visible
  <1> QED
    BY <1>1, <1>2, <1>3, <1>4, QuietLInv

LEMMA AroundLInv ==
  ASSUME PromptRelays, LInv, IInv', NEW e \in Events, LeaseRunsOut(e) \/ WindowEnds(e) \/ OperatorRequeue(e)
  PROVE  LInv'
  <1>1. UNCHANGED <<batch, seen>>
    BY DEF LeaseRunsOut, WindowEnds, OperatorRequeue, relay
  <1>2. CASE LeaseRunsOut(e)
    <2>1. \A f \in Events : f # e => leased'[f] = leased[f]
      BY <1>2 DEF LeaseRunsOut, LInv, IInv, OTypeOK
    <2>2. UNCHANGED <<status, attempts>> /\ \A r \in Relays : e \notin batch[r]
      BY <1>2 DEF LeaseRunsOut
    <2> QED
      BY <1>1, <2>1, <2>2, QuietLInv
  <1>3. CASE WindowEnds(e)
    <2>1. UNCHANGED <<status, attempts, leased>>
      BY <1>3 DEF WindowEnds, rows
    <2> QED
      BY <1>1, <2>1, QuietLInv
  <1>4. CASE OperatorRequeue(e)
    <2>1. \A r \in Relays : e \notin batch[r]
      BY <1>4 DEF OperatorRequeue, LInv, HeldIsLeased
    <2>2. /\ status'[e] = "pending" /\ leased' = leased
          /\ \A f \in Events : f # e => status'[f] = status[f] /\ attempts'[f] = attempts[f]
      BY <1>4 DEF OperatorRequeue, LInv, IInv, OTypeOK
    <2> QED
      BY <1>1, <2>1, <2>2, QuietLInv
  <1> QED
    BY <1>2, <1>3, <1>4

LEMMA ProcessLInv ==
  ASSUME LInv, IInv', NEW r \in Relays, Publish(r) \/ Crash(r) \/ Stop(r) \/ Restart(r)
  PROVE  LInv'
  <1>1. UNCHANGED <<status, attempts, leased>>
    BY DEF Publish, Crash, Stop, Restart, rows
  <1>2. batch' = batch \/ batch' = [batch EXCEPT ![r] = {}]
    BY DEF Publish, Crash, Stop, Restart, Drop
  <1>3. batch \in [Relays -> SUBSET Events]
    BY DEF LInv, IInv, OTypeOK
  <1>4. \A s \in Relays : batch'[s] \subseteq batch[s]
    BY <1>2, <1>3
  <1>5. \A s \in Relays : \A e \in batch'[s] : seen'[s][e] = seen[s][e]
    <2>1. UNCHANGED seen \/ Drop(r)
      BY DEF Publish, Crash, Stop, Restart
    <2> QED
      BY <2>1, SeenForgotten DEF LInv, IInv
  <1> QED
    BY <1>1, <1>4, <1>5, QuietLInv

LEMMA PickLInv == ASSUME LInv, IInv', NEW r \in Relays, Pick(r) PROVE LInv'
  <1> DEFINE picked == Oldest(Available, BatchSize)
             tries == [e \in Events |-> IF e \in picked /\ attempts[e] < MaxAttempts
                                        THEN attempts[e] + 1 ELSE attempts[e]]
  <1>1. /\ status' = status
        /\ leased' = [e \in Events |-> e \in picked \/ leased[e]]
        /\ attempts' = tries
        /\ \/ /\ batch' = [batch EXCEPT ![r] = picked]
              /\ seen' = [seen EXCEPT ![r] = [e \in Events |-> IF e \in picked THEN tries[e] ELSE 0]]
           \/ UNCHANGED <<batch, seen>>
    BY DEF Pick
  <1>2. \A e \in picked : e \in Events /\ status[e] = "pending" /\ \A s \in Relays : e \notin batch[s]
    BY DEF Oldest, Available, LInv, HeldIsLeased
  <1>3. \A e \in Events : tries[e] >= attempts[e] /\ (e \notin picked => tries[e] = attempts[e])
    BY DEF LInv, IInv, OTypeOK
  <1>4. \A e \in Events : attempts[e] \in Nat /\ tries[e] \in Nat
    BY OutboxAssumption DEF LInv, IInv, OTypeOK
  <1> HIDE DEF picked, tries
  <1>5. \A s \in Relays : batch[s] \subseteq Events
    BY DEF LInv, IInv, OTypeOK
  <1>6. \A s \in Relays : batch'[s] = batch[s] \/ (s = r /\ batch'[s] = picked)
    BY <1>1 DEF LInv, IInv, OTypeOK
  <1>7. HeldIsLeased'
    BY <1>1, <1>2, <1>5, <1>6 DEF LInv, HeldIsLeased
  <1>8. Exclusive'
    BY <1>2, <1>6 DEF LInv, Exclusive
  <1>9. SeenNotAhead'
    <2>1. CASE UNCHANGED <<batch, seen>>
      <3> SUFFICES ASSUME NEW s \in Relays, NEW e \in batch[s] PROVE seen[s][e] <= attempts'[e]
        BY <2>1 DEF SeenNotAhead
      <3>1. seen[s][e] <= attempts[e] /\ seen[s][e] \in Nat /\ e \in Events
        BY <1>5, OutboxAssumption DEF LInv, SeenNotAhead, IInv, OTypeOK
      <3> QED
        BY <1>1, <1>3, <1>4, <3>1
    <2>2. CASE /\ batch' = [batch EXCEPT ![r] = picked]
               /\ seen' = [seen EXCEPT ![r] = [e \in Events |-> IF e \in picked THEN tries[e] ELSE 0]]
      <3> SUFFICES ASSUME NEW s \in Relays, NEW e \in batch'[s] PROVE seen'[s][e] <= attempts'[e]
        BY DEF SeenNotAhead
      <3>1. CASE s # r
        <4>1. e \in batch[s] /\ seen'[s] = seen[s]
          BY <2>2, <3>1 DEF LInv, IInv, OTypeOK
        <4>2. seen[s][e] <= attempts[e] /\ seen[s][e] \in Nat /\ e \in Events
          BY <1>5, <4>1, OutboxAssumption DEF LInv, SeenNotAhead, IInv, OTypeOK
        <4> QED
          BY <1>1, <1>3, <1>4, <4>1, <4>2
      <3>2. CASE s = r
        <4>1. e \in picked /\ e \in Events
          BY <1>2, <2>2, <3>2 DEF LInv, IInv, OTypeOK
        <4>2. seen'[r][e] = tries[e]
          BY <2>2, <4>1 DEF LInv, IInv, OTypeOK
        <4> QED
          BY <1>1, <1>4, <3>2, <4>1, <4>2
      <3> QED
        BY <3>1, <3>2
    <2> QED
      BY <1>1, <2>1, <2>2
  <1>10. DeadOnlyAfterMaxAttempts'
    BY <1>1, <1>2, <1>3 DEF LInv, DeadOnlyAfterMaxAttempts
  <1> QED
    BY <1>7, <1>8, <1>9, <1>10 DEF LInv

LEMMA MarkLInv == ASSUME LInv, IInv', NEW r \in Relays, Mark(r) PROVE LInv'
  <1>1. /\ UNCHANGED attempts
        /\ \A s \in Relays : \A f \in batch'[s] : seen'[s][f] = seen[s][f]
    <2>1. UNCHANGED seen \/ NextRow(r)
      BY DEF Mark
    <2>2. UNCHANGED attempts /\ cur[r] \in Events
      BY DEF Mark, LInv, IInv, RelayConsistent, OTypeOK
    <2> QED
      BY <2>1, <2>2, SeenForgotten DEF LInv, IInv
  <1>2. \A s \in Relays : batch'[s] \subseteq batch[s] /\ batch[s] \subseteq Events
    <2>1. batch' = batch \/ batch' = [batch EXCEPT ![r] = @ \ {cur[r]}]
      BY DEF Mark, NextRow
    <2>2. batch \in [Relays -> SUBSET Events]
      BY DEF LInv, IInv, OTypeOK
    <2> QED
      BY <2>1, <2>2
  <1>3. \A e \in Events : \/ status'[e] = status[e] /\ leased'[e] = leased[e]
                          \/ status'[e] = "published"
    BY DEF Mark, SetRow, LInv, IInv, OTypeOK
  <1>4. HeldIsLeased'
    BY <1>2, <1>3 DEF LInv, HeldIsLeased
  <1>5. Exclusive'
    BY <1>2 DEF LInv, Exclusive
  <1>6. SeenNotAhead'
    BY <1>1, <1>2 DEF LInv, SeenNotAhead
  <1>7. DeadOnlyAfterMaxAttempts'
    BY <1>1, <1>3 DEF LInv, DeadOnlyAfterMaxAttempts
  <1> QED
    BY <1>4, <1>5, <1>6, <1>7 DEF LInv

LEMMA HandleErrorLInv == ASSUME LInv, IInv', NEW r \in Relays, HandleError(r) PROVE LInv'
  <1> DEFINE e == cur[r]
  <1>1. UNCHANGED attempts /\ pc[r] = "fail"
    BY DEF HandleError
  <1>2. e \in batch[r] /\ e \in Events
    BY <1>1 DEF LInv, IInv, RelayConsistent, OTypeOK
  <1>3. \A s \in Relays : batch'[s] \subseteq batch[s] /\ batch[s] \subseteq Events
    <2>1. PICK rest \in SUBSET batch[r] : batch' = [batch EXCEPT ![r] = rest]
      BY DEF HandleError, NextRow, Drop
    <2> QED
      BY <2>1 DEF LInv, IInv, OTypeOK
  <1>4. \A s \in Relays : e \notin batch'[s]
    <2>1. e \notin batch'[r]
      BY DEF HandleError, NextRow, Drop, LInv, IInv, OTypeOK
    <2> QED
      BY <1>2, <1>3, <2>1 DEF LInv, Exclusive
  <1>5. \A f \in Events : f # e => status'[f] = status[f] /\ leased'[f] = leased[f]
    BY DEF HandleError, SetRow, LInv, IInv, OTypeOK
  <1>6. status'[e] = "dead" => attempts[e] = MaxAttempts
    <2>1. CASE status' = status
      BY <1>2, <2>1 DEF LInv, DeadOnlyAfterMaxAttempts
    <2>2. CASE status' = [status EXCEPT ![e] = Outcome(r)] /\ seen[r][e] >= MaxAttempts
      <3>1. seen[r][e] <= attempts[e] /\ seen[r][e] \in Nat /\ attempts[e] \in 0 .. MaxAttempts
        BY <1>2, OutboxAssumption DEF LInv, SeenNotAhead, IInv, OTypeOK
      <3> QED
        BY <2>2, <3>1, OutboxAssumption
    <2>3. CASE status' = [status EXCEPT ![e] = Outcome(r)] /\ ~(seen[r][e] >= MaxAttempts)
      BY <1>2, <2>3 DEF Outcome, LInv, IInv, OTypeOK
    <2> QED
      BY <2>1, <2>2, <2>3 DEF HandleError, SetRow
  <1>7. \A s \in Relays : \A f \in batch'[s] : seen'[s][f] = seen[s][f]
    <2>1. NextRow(r) \/ Drop(r)
      BY DEF HandleError
    <2> QED
      BY <1>2, <2>1, SeenForgotten DEF LInv, IInv
  <1> HIDE DEF e
  <1>8. HeldIsLeased'
    BY <1>3, <1>4, <1>5 DEF LInv, HeldIsLeased
  <1>9. Exclusive'
    BY <1>3 DEF LInv, Exclusive
  <1>10. SeenNotAhead'
    BY <1>1, <1>3, <1>7 DEF LInv, SeenNotAhead
  <1>11. DeadOnlyAfterMaxAttempts'
    BY <1>1, <1>2, <1>5, <1>6 DEF LInv, DeadOnlyAfterMaxAttempts
  <1> QED
    BY <1>8, <1>9, <1>10, <1>11 DEF LInv

LEMMA NextLInv == ASSUME PromptRelays, LInv, IInv', [Next]_vars PROVE LInv'
  <1>1. CASE UNCHANGED vars
    BY <1>1, QuietLInv DEF vars, rows, relay
  <1>2. CASE Next
    BY <1>2, CallerLInv, PickLInv, ProcessLInv, MarkLInv, HandleErrorLInv, AroundLInv
    DEF Next, RelayStep
  <1> QED
    BY <1>1, <1>2

\* While relays are prompt the lease works and attempts are counted right.
THEOREM LeaseInvariance == ASSUME PromptRelays PROVE Spec => []LInv
  <1>1. LInv /\ IInv' /\ [Next]_vars => LInv'
    BY NextLInv
  <1> QED
    BY <1>1, Invariance, InitLInv, PTL DEF Spec

\* No two relays ever have the same row in hand while batches are drained before
\* their leases run out: through crashes, lost answers and failed updates.
THEOREM LeaseIsExclusive == ASSUME PromptRelays PROVE Spec => []Exclusive
  <1>1. LInv => Exclusive
    BY DEF LInv
  <1> QED
    BY <1>1, LeaseInvariance, PTL

\* Under the same condition a row is written off only after MaxAttempts picks
\* since it was last queued, whichever relays made them (outbox.ts 117-126).
THEOREM DeadIsDeserved == ASSUME PromptRelays PROVE Spec => []DeadOnlyAfterMaxAttempts
  <1>1. LInv => DeadOnlyAfterMaxAttempts
    BY DEF LInv
  <1> QED
    BY <1>1, LeaseInvariance, PTL

------------------------------------------------------------------------------
(* What becomes of a settled row, where an update's answer is never lost   *)
(* and no operator requeues.                                               *)

OutcomesKnown == FaultKinds \intersect {"markUnknown", "operator"} = {}
HeldIsPending == \A r \in Relays : \A e \in batch[r] : status[e] = "pending"

\* A step writes the status of rows nobody else holds, and of no settled row.
LEMMA PendingStep ==
  ASSUME PromptRelays, OutcomesKnown, LInv, HeldIsPending, [Next]_vars
  PROVE  /\ HeldIsPending'
         /\ \A e \in Events : status[e] \in {"published", "dead"} => status'[e] = status[e]
  <1> DEFINE Kept == \A e \in Events : status[e] \in {"published", "dead"} => status'[e] = status[e]
  <1>0. /\ OTypeOK /\ RelayConsistent /\ RowsHaveTx
        /\ \A r \in Relays : batch[r] \subseteq Events
    BY DEF LInv, IInv, OTypeOK
  <1>1. ASSUME NEW e \in Events, Enqueue(e) \/ Commit(e) \/ Abort(e) PROVE HeldIsPending' /\ Kept
    <2>1. ~Visible(e) /\ \A r \in Relays : e \notin batch[r]
      BY <1>0, <1>1 DEF RowsHaveTx, Enqueue, Commit, Abort, OTypeOK
    <2>2. UNCHANGED batch /\ \A f \in Events : f # e => status'[f] = status[f]
      BY <1>0, <1>1 DEF Enqueue, Commit, Abort, relay, OTypeOK
    <2> QED
      BY <1>0, <2>1, <2>2 DEF HeldIsPending, Visible
  <1>2. ASSUME NEW r \in Relays, Pick(r) PROVE HeldIsPending' /\ Kept
    <2>1. Oldest(Available, BatchSize) \subseteq {e \in Events : status[e] = "pending"}
      BY DEF Oldest, Available
    <2>2. UNCHANGED status /\ (UNCHANGED batch \/ batch' = [batch EXCEPT ![r] = Oldest(Available, BatchSize)])
      BY <1>2 DEF Pick
    <2> QED
      BY <1>0, <2>1, <2>2 DEF HeldIsPending, OTypeOK
  <1>3. ASSUME NEW r \in Relays, Mark(r) \/ HandleError(r) PROVE HeldIsPending' /\ Kept
    <2>1. cur[r] \in batch[r] /\ cur[r] \in Events /\ status[cur[r]] = "pending"
      BY <1>0, <1>3 DEF RelayConsistent, Mark, HandleError, HeldIsPending
    <2>2. \A f \in Events : f # cur[r] => status'[f] = status[f]
      BY <1>0, <1>3 DEF Mark, HandleError, SetRow, OTypeOK
    <2>3. \A s \in Relays : batch'[s] \subseteq batch[s]
      BY <1>0, <1>3 DEF Mark, HandleError, NextRow, Drop, OTypeOK
    <2>4. UNCHANGED status \/ \A s \in Relays : cur[r] \notin batch'[s]
      <3>1. ~Fault("markUnknown")
        BY DEF OutcomesKnown, Fault
      <3>2. UNCHANGED status \/ NextRow(r) \/ Drop(r)
        BY <1>3, <3>1 DEF Mark, HandleError
      <3>3. NextRow(r) \/ Drop(r) => cur[r] \notin batch'[r]
        BY <1>0 DEF NextRow, Drop, OTypeOK
      <3>4. \A s \in Relays \ {r} : cur[r] \notin batch[s]
        BY <2>1 DEF LInv, Exclusive
      <3> QED
        BY <2>3, <3>2, <3>3, <3>4
    <2> QED
      BY <1>0, <2>1, <2>2, <2>3, <2>4 DEF HeldIsPending
  <1>4. ASSUME UNCHANGED status, \A r \in Relays : batch'[r] \subseteq batch[r] PROVE HeldIsPending' /\ Kept
    BY <1>4 DEF HeldIsPending
  <1>5. ASSUME NEW r \in Relays, Publish(r) \/ Crash(r) \/ Stop(r) \/ Restart(r)
        PROVE UNCHANGED status /\ \A s \in Relays : batch'[s] \subseteq batch[s]
    BY <1>0, <1>5 DEF Publish, Crash, Stop, Restart, Drop, rows, OTypeOK
  <1>6. ASSUME NEW e \in Events, LeaseRunsOut(e) \/ WindowEnds(e) \/ OperatorRequeue(e)
        PROVE UNCHANGED <<status, batch>>
    BY <1>6 DEF LeaseRunsOut, WindowEnds, OperatorRequeue, OutcomesKnown, Fault, rows, relay
  <1>7. UNCHANGED vars => UNCHANGED <<status, batch>>
    BY DEF vars, rows, relay
  <1> QED
    BY <1>1, <1>2, <1>3, <1>4, <1>5, <1>6, <1>7 DEF Next, RelayStep

\* Then the outcome a relay has written is the outcome of the row for good: no other
\* relay, however it is interrupted, writes its own over it (outbox.ts 102-126).
THEOREM OutcomesAreFinal == ASSUME PromptRelays, OutcomesKnown PROVE Spec => SettledIsFinal
  <1>1. Init => HeldIsPending
    BY DEF Init, HeldIsPending
  <1>2. LInv /\ HeldIsPending /\ [Next]_vars => HeldIsPending'
    BY PendingStep
  <1>3. LInv /\ HeldIsPending /\ [Next]_vars =>
          [\A e \in Events : status[e] \in {"published", "dead"} => status'[e] = status[e]]_vars
    BY PendingStep
  <1> QED
    BY <1>1, <1>2, <1>3, LeaseInvariance, PTL DEF Spec, SettledIsFinal
------------------------------------------------------------------------------
(* A leased row is in somebody's hands, unless a relay died, gave its batch *)
(* up or never learnt of its pick.                                         *)

BatchesFinished == FaultKinds \intersect {"pickUnknown", "requeueFails", "crash"} = {}

LEMMA LeaseIsHeldStep ==
  ASSUME BatchesFinished, IInv, LeaseIsHeld, [Next]_vars PROVE LeaseIsHeld'
  <1>0. /\ OTypeOK /\ RelayConsistent
        /\ ~Fault("pickUnknown") /\ ~Fault("requeueFails") /\ ~Fault("crash")
    BY DEF IInv, BatchesFinished, Fault
  <1>1. ASSUME UNCHANGED batch, \A e \in Events : leased'[e] => leased[e]
        PROVE  LeaseIsHeld'
    BY <1>1 DEF LeaseIsHeld
  <1>2. ASSUME NEW e \in Events, Enqueue(e) \/ Commit(e) \/ Abort(e) PROVE LeaseIsHeld'
    BY <1>1, <1>2 DEF Enqueue, Commit, Abort, relay
  <1>3. ASSUME NEW e \in Events, LeaseRunsOut(e) \/ WindowEnds(e) \/ OperatorRequeue(e)
        PROVE  LeaseIsHeld'
    <2>1. UNCHANGED batch
      BY <1>3 DEF LeaseRunsOut, WindowEnds, OperatorRequeue, relay
    <2>2. \A f \in Events : leased'[f] => leased[f]
      BY <1>0, <1>3 DEF LeaseRunsOut, WindowEnds, OperatorRequeue, rows, OTypeOK
    <2> QED
      BY <1>1, <2>1, <2>2
  <1>4. ASSUME NEW r \in Relays, Publish(r) \/ Stop(r) \/ Restart(r) PROVE LeaseIsHeld'
    BY <1>1, <1>4 DEF Publish, Stop, Restart, rows
  <1>5. ASSUME NEW r \in Relays, Pick(r) PROVE LeaseIsHeld'
    <2> DEFINE picked == Oldest(Available, BatchSize)
    <2>1. /\ leased' = [e \in Events |-> e \in picked \/ leased[e]]
          /\ batch' = [batch EXCEPT ![r] = picked]
          /\ batch[r] = {}
      BY <1>0, <1>5 DEF Pick, RelayConsistent
    <2> HIDE DEF picked
    <2>2. batch'[r] = picked /\ \A s \in Relays : batch[s] \subseteq batch'[s]
      BY <1>0, <2>1 DEF OTypeOK
    <2> QED
      BY <2>1, <2>2 DEF LeaseIsHeld
  <1>6. ASSUME NEW r \in Relays, Mark(r) \/ HandleError(r) PROVE LeaseIsHeld'
    <2>1. cur[r] \in batch[r] /\ cur[r] \in Events
      BY <1>0, <1>6 DEF RelayConsistent, Mark, HandleError, OTypeOK
    <2>2. \/ UNCHANGED batch /\ (UNCHANGED leased \/ leased' = [leased EXCEPT ![cur[r]] = FALSE])
          \/ /\ batch' = [batch EXCEPT ![r] = @ \ {cur[r]}]
             /\ leased' = [leased EXCEPT ![cur[r]] = FALSE]
      BY <1>0, <1>6 DEF Mark, HandleError, SetRow, NextRow
    <2>3. \A e \in Events : leased'[e] => leased[e] /\ (UNCHANGED batch \/ e # cur[r])
      BY <1>0, <2>1, <2>2 DEF OTypeOK
    <2>4. ASSUME NEW s \in Relays, NEW e \in batch[s], e # cur[r] PROVE e \in batch'[s]
      <3>1. CASE UNCHANGED batch
        BY <2>4, <3>1
      <3>2. CASE batch' = [batch EXCEPT ![r] = @ \ {cur[r]}]
        <4>1. batch'[s] = IF s = r THEN batch[r] \ {cur[r]} ELSE batch[s]
          BY <1>0, <3>2 DEF OTypeOK
        <4> QED
          BY <2>4, <4>1
      <3> QED
        BY <2>2, <3>1, <3>2
    <2> QED
      BY <2>3, <2>4 DEF LeaseIsHeld
  <1>7. ASSUME NEW r \in Relays, Crash(r) PROVE LeaseIsHeld'
    BY <1>0, <1>7 DEF Crash
  <1>8. CASE UNCHANGED vars
    BY <1>1, <1>8 DEF vars, rows, relay
  <1> QED
    BY <1>2, <1>3, <1>4, <1>5, <1>6, <1>7, <1>8 DEF Next, RelayStep

\* Whatever publishes are refused or answers lost, and however late leases run
\* out, a leased row is in the batch of a relay: stop() lets the loop finish its
\* batch instead of leaving rows to wait for their lease (outbox.ts 130-150).
THEOREM LeasedIsInHand == ASSUME BatchesFinished PROVE Spec => []LeaseIsHeld
  <1>1. Init => LeaseIsHeld
    BY DEF Init, LeaseIsHeld
  <1>2. IInv /\ LeaseIsHeld /\ [Next]_vars => LeaseIsHeld'
    BY LeaseIsHeldStep
  <1> QED
    BY <1>1, <1>2, Invariance, PTL DEF Spec

------------------------------------------------------------------------------
(* What it takes to write off an event that JetStream accepts.             *)

\* Every attempt at such an event but the one under way was ended by a fault.
FaultsCharged ==
  \A e \in Events \ Poison :
    /\ attempts[e] <= faults + 1
    /\ (\A r \in Relays : e \notin batch[r]) /\ status[e] \in {"absent", "inserted", "pending"}
         => attempts[e] <= faults
    /\ \A r \in Relays : pc[r] = "fail" /\ cur[r] = e => attempts[e] <= faults

FewFaults == PromptRelays /\ MaxFaults < MaxAttempts

HInv == LInv /\ FaultsCharged /\ HealthyNotDead

LEMMA InitHInv == Init => HInv
  <1> SUFFICES ASSUME Init PROVE HInv
    OBVIOUS
  <1> QED
    BY InitLInv DEF Init, HInv, FaultsCharged, HealthyNotDead

\* Attempts and faults are numbers, and a fault counts.
LEMMA Counted ==
  ASSUME OTypeOK
  PROVE  /\ faults \in Nat /\ faults <= MaxFaults
         /\ \A e \in Events : attempts[e] \in Nat
         /\ \A r \in Relays : \A e \in Events : seen[r][e] \in Nat
         /\ \A k : Fault(k) => faults' = faults + 1
  BY OutboxAssumption DEF OTypeOK, Fault

\* Steps after which a relay has less in hand, if the faults of the step pay for it.
LEMMA QuietCharged ==
  ASSUME LInv, FaultsCharged, UNCHANGED attempts, faults' \in {faults, faults + 1},
         \A e \in Events \ Poison :
           \/ faults' = faults + 1
           \/ /\ \/ \E r \in Relays : e \in batch'[r]
                 \/ status'[e] \notin {"absent", "inserted", "pending"}
                 \/ \E r \in Relays : pc[r] = "fail" /\ cur[r] = e
                 \/ (\A r \in Relays : e \notin batch[r]) /\ status[e] \in {"absent", "inserted", "pending"}
              /\ \A r \in Relays : pc'[r] = "fail" /\ cur'[r] = e => pc[r] = "fail" /\ cur[r] = e
  PROVE  FaultsCharged'
  <1>1. faults \in Nat /\ \A e \in Events : attempts[e] \in Nat
    BY Counted DEF LInv, IInv
  <1> SUFFICES ASSUME NEW e \in Events \ Poison
               PROVE  /\ attempts[e] <= faults' + 1
                      /\ (\A r \in Relays : e \notin batch'[r]) /\ status'[e] \in {"absent", "inserted", "pending"}
                           => attempts[e] <= faults'
                      /\ \A r \in Relays : pc'[r] = "fail" /\ cur'[r] = e => attempts[e] <= faults'
    BY DEF FaultsCharged
  <1>2. attempts[e] <= faults + 1
    BY DEF FaultsCharged
  <1>3. CASE faults' = faults + 1
    BY <1>1, <1>2, <1>3
  <1>4. CASE faults' = faults
    BY <1>1, <1>2, <1>4 DEF FaultsCharged
  <1> QED
    BY <1>3, <1>4
LEMMA PickCharged ==
  ASSUME LInv, FaultsCharged, NEW r \in Relays, Pick(r) PROVE FaultsCharged'
  <1> DEFINE picked == Oldest(Available, BatchSize)
  <1>1. /\ \A e \in Events : attempts'[e] = IF e \in picked /\ attempts[e] < MaxAttempts
                                            THEN attempts[e] + 1 ELSE attempts[e]
        /\ UNCHANGED <<status, cur>> /\ pc[r] = "idle"
        /\ \/ /\ batch' = [batch EXCEPT ![r] = picked]
              /\ pc' = [pc EXCEPT ![r] = "publish"]
              /\ faults' = faults
           \/ UNCHANGED <<batch, pc>> /\ faults' = faults + 1
    BY DEF Pick, NoFault, Fault
  <1>2. \A e \in picked : status[e] = "pending" /\ \A s \in Relays : e \notin batch[s]
    BY DEF Oldest, Available, LInv, HeldIsLeased
  <1> HIDE DEF picked
  <1>3. /\ batch \in [Relays -> SUBSET Events] /\ pc \in [Relays -> {"idle", "publish", "mark", "fail"}]
        /\ batch[r] = {}
        /\ \A s \in Relays : pc[s] = "fail" => cur[s] \in batch[s]
    BY <1>1 DEF LInv, IInv, OTypeOK, RelayConsistent
  <1>4. /\ \A s \in Relays : pc'[s] = "fail" => pc[s] = "fail"
        /\ \A s \in Relays : batch[s] \subseteq batch'[s]
        /\ faults' = faults + 1 \/ (faults' = faults /\ batch'[r] = picked)
    BY <1>1, <1>3
  <1> SUFFICES ASSUME NEW e \in Events \ Poison
               PROVE  /\ attempts'[e] <= faults' + 1
                      /\ (\A s \in Relays : e \notin batch'[s]) /\ status'[e] \in {"absent", "inserted", "pending"}
                           => attempts'[e] <= faults'
                      /\ \A s \in Relays : pc'[s] = "fail" /\ cur'[s] = e => attempts'[e] <= faults'
    BY DEF FaultsCharged
  <1>5. faults \in Nat /\ attempts[e] \in Nat
    BY Counted DEF LInv, IInv
  <1>6. CASE e \in picked
    <2>1. attempts[e] <= faults
      BY <1>2, <1>6 DEF FaultsCharged
    <2>2. attempts'[e] \in {attempts[e], attempts[e] + 1}
      BY <1>1
    <2>3. \A s \in Relays : ~(pc'[s] = "fail" /\ cur'[s] = e)
      BY <1>1, <1>2, <1>3, <1>4, <1>6
    <2>4. (\A s \in Relays : e \notin batch'[s]) => faults' = faults + 1
      BY <1>4, <1>6
    <2>5. attempts'[e] <= faults + 1 /\ attempts'[e] \in Nat
      BY <1>5, <2>1, <2>2
    <2>6. attempts'[e] <= faults' + 1 /\ (faults' = faults + 1 => attempts'[e] <= faults')
      BY <1>4, <1>5, <2>5
    <2> QED
      BY <2>3, <2>4, <2>6
  <1>7. CASE e \notin picked
    <2>1. attempts'[e] = attempts[e] /\ (faults' = faults \/ faults' = faults + 1)
      BY <1>1, <1>7
    <2>2. attempts[e] <= faults + 1
      BY DEF FaultsCharged
    <2>3. /\ (\A s \in Relays : e \notin batch'[s]) /\ status'[e] \in {"absent", "inserted", "pending"}
               => attempts[e] <= faults
          /\ \A s \in Relays : pc'[s] = "fail" /\ cur'[s] = e => attempts[e] <= faults
      BY <1>1, <1>4 DEF FaultsCharged
    <2>4. attempts[e] <= faults => attempts[e] <= faults'
      BY <1>5, <2>1
    <2>5. attempts[e] <= faults' + 1
      BY <1>5, <2>1, <2>2
    <2> QED
      BY <2>1, <2>3, <2>4, <2>5
  <1> QED
    BY <1>6, <1>7

\* A healthy row gets to the catch block only by a fault.
LEMMA PublishCharged ==
  ASSUME LInv, FaultsCharged, NEW r \in Relays, Publish(r) PROVE FaultsCharged'
  <1>1. UNCHANGED <<status, attempts, batch>> /\ pc[r] = "publish"
    BY DEF Publish, rows
  <1>2. PICK e \in batch[r] :
          /\ cur' = [cur EXCEPT ![r] = e]
          /\ \/ pc' = [pc EXCEPT ![r] = "mark"] /\ faults' = faults
             \/ faults' = faults + 1
             \/ e \in Poison /\ faults' = faults /\ pc' = [pc EXCEPT ![r] = "fail"]
    BY DEF Publish, Refused, NoFault, Fault
  <1>3. cur \in [Relays -> Events \union {NoEvent}] /\ pc \in [Relays -> {"idle", "publish", "mark", "fail"}]
    BY DEF LInv, IInv, OTypeOK
  <1>4. ASSUME NEW f \in Events \ Poison, faults' # faults + 1,
               NEW s \in Relays, pc'[s] = "fail", cur'[s] = f
        PROVE  pc[s] = "fail" /\ cur[s] = f
    BY <1>2, <1>3, <1>4
  <1>5. ASSUME NEW f \in Events \ Poison
        PROVE  \/ \E s \in Relays : f \in batch'[s]
               \/ status'[f] \notin {"absent", "inserted", "pending"}
               \/ (\A s \in Relays : f \notin batch[s]) /\ status[f] \in {"absent", "inserted", "pending"}
    BY <1>1
  <1>6. faults' \in {faults, faults + 1}
    BY <1>2
  <1> QED
    BY <1>1, <1>4, <1>5, <1>6, QuietCharged

\* A relay lets a healthy row go published, or after a fault.
LEMMA OutcomeCharged ==
  ASSUME LInv, FaultsCharged, NEW r \in Relays, Mark(r) \/ HandleError(r) \/ Crash(r)
  PROVE  FaultsCharged'
  <1>1. UNCHANGED attempts /\ faults' \in {faults, faults + 1}
    BY DEF Mark, HandleError, Crash, NoFault, Fault, rows
  <1>2. CASE faults' = faults + 1
    BY <1>1, <1>2, QuietCharged
  <1>3. CASE faults' # faults + 1
    <2>1. /\ NextRow(r)
          /\ (pc[r] = "mark" /\ SetRow(cur[r], "published")) \/ (pc[r] = "fail" /\ SetRow(cur[r], Outcome(r)))
      BY <1>3 DEF Mark, HandleError, Crash, Fault
    <2>2. /\ batch \in [Relays -> SUBSET Events] /\ pc \in [Relays -> {"idle", "publish", "mark", "fail"}]
          /\ cur \in [Relays -> Events \union {NoEvent}]
          /\ cur[r] \in Events
          /\ status \in [Events -> {"absent", "inserted", "pending", "published", "dead"}]
      BY <2>1 DEF LInv, IInv, OTypeOK, RelayConsistent
    <2>3. \A s \in Relays : pc'[s] = "fail" => pc[s] = "fail" /\ cur'[s] = cur[s]
      BY <2>1, <2>2 DEF NextRow
    <2>4. /\ \A s \in Relays : \A f \in batch[s] : f # cur[r] => f \in batch'[s]
          /\ \A f \in Events : f # cur[r] => status'[f] = status[f]
      BY <2>1, <2>2 DEF NextRow, SetRow
    <2>5. status'[cur[r]] = "published" \/ pc[r] = "fail"
      BY <2>1, <2>2 DEF SetRow
    <2>6. ASSUME NEW f \in Events \ Poison
          PROVE  \/ \E s \in Relays : f \in batch'[s]
                 \/ status'[f] \notin {"absent", "inserted", "pending"}
                 \/ \E s \in Relays : pc[s] = "fail" /\ cur[s] = f
                 \/ (\A s \in Relays : f \notin batch[s]) /\ status[f] \in {"absent", "inserted", "pending"}
      BY <2>4, <2>5
    <2> QED
      BY <1>1, <2>3, <2>6, QuietCharged
  <1> QED
    BY <1>2, <1>3

\* Steps by a caller, a process or time, and a requeue, which is of a poison row.
LEMMA OtherCharged ==
  ASSUME HInv,
         \/ \E e \in Events : \/ Enqueue(e) \/ Commit(e) \/ Abort(e)
                              \/ LeaseRunsOut(e) \/ WindowEnds(e) \/ OperatorRequeue(e)
         \/ \E r \in Relays : Stop(r) \/ Restart(r)
         \/ UNCHANGED vars
  PROVE  FaultsCharged'
  <1>1. UNCHANGED <<batch, pc, cur>> /\ faults' \in {faults, faults + 1}
    BY DEF Enqueue, Commit, Abort, LeaseRunsOut, WindowEnds, OperatorRequeue, Stop, Restart,
           vars, relay, Fault
  <1>2. \A e \in Events \ Poison :
          \/ status'[e] = status[e]
          \/ status[e] \in {"absent", "inserted", "pending"} /\ \A r \in Relays : e \notin batch[r]
    BY DEF Enqueue, Commit, Abort, LeaseRunsOut, WindowEnds, OperatorRequeue, Stop, Restart,
           vars, rows, HInv, LInv, IInv, OTypeOK, HealthyNotDead, RowsHaveTx, Visible
  <1>3. CASE UNCHANGED attempts
    BY <1>1, <1>2, <1>3, QuietCharged DEF HInv
  <1>4. ASSUME NEW d \in Events, OperatorRequeue(d) PROVE FaultsCharged'
    <2>1. d \in Poison
      BY <1>4 DEF OperatorRequeue, HInv, HealthyNotDead
    <2>2. \A e \in Events \ Poison : attempts'[e] = attempts[e] /\ status'[e] = status[e]
      BY <1>4, <2>1 DEF OperatorRequeue, HInv, LInv, IInv, OTypeOK
    <2>3. faults' = faults + 1 /\ faults \in Nat /\ \A e \in Events : attempts[e] \in Nat
      BY <1>4, Counted DEF OperatorRequeue, HInv, LInv, IInv
    <2>4. \A e \in Events \ Poison : attempts[e] <= faults'
      BY <2>3 DEF HInv, FaultsCharged
    <2>5. \A e \in Events \ Poison : attempts[e] <= faults' + 1
      BY <2>3, <2>4
    <2> QED
      BY <2>2, <2>4, <2>5 DEF FaultsCharged
  <1> QED
    BY <1>3, <1>4 DEF Enqueue, Commit, Abort, LeaseRunsOut, WindowEnds, Stop, Restart, vars, rows

\* A healthy row in the catch block was picked no more often than there were faults.
LEMMA HealthyStep ==
  ASSUME FewFaults, HInv, [Next]_vars PROVE HealthyNotDead'
  <1> SUFFICES ASSUME NEW e \in Events \ Poison, status'[e] = "dead" PROVE FALSE
    BY DEF HealthyNotDead
  <1>1. status[e] # "dead"
    BY DEF HInv, HealthyNotDead
  <1>2. PICK r \in Relays : HandleError(r) /\ cur[r] = e /\ Outcome(r) = "dead"
    BY <1>1 DEF Next, RelayStep, vars, rows, Enqueue, Commit, Abort, Pick, Publish, Mark, HandleError, SetRow,
       Crash, Stop, Restart, LeaseRunsOut, WindowEnds, OperatorRequeue, HInv, LInv, IInv, OTypeOK
  <1>3. pc[r] = "fail" /\ seen[r][e] >= MaxAttempts /\ e \in batch[r]
    BY <1>2 DEF HandleError, Outcome, HInv, LInv, IInv, RelayConsistent
  <1>4. seen[r][e] <= attempts[e] /\ attempts[e] <= faults
    BY <1>2, <1>3 DEF HInv, LInv, SeenNotAhead, FaultsCharged
  <1>5. /\ faults \in Nat /\ faults <= MaxFaults /\ attempts[e] \in Nat /\ seen[r][e] \in Nat
        /\ MaxFaults \in Nat /\ MaxAttempts \in Nat /\ MaxFaults < MaxAttempts
    BY Counted, OutboxAssumption DEF FewFaults, HInv, LInv, IInv
  <1> QED
    BY <1>3, <1>4, <1>5

LEMMA NextHInv == ASSUME FewFaults, HInv, [Next]_vars PROVE HInv'
  <1>1. LInv'
    BY NextLInv, NextIInv DEF HInv, LInv, FewFaults
  <1>2. FaultsCharged'
    BY PickCharged, PublishCharged, OutcomeCharged, OtherCharged DEF HInv, Next, RelayStep
  <1> QED
    BY <1>1, <1>2, HealthyStep DEF HInv

\* While leases hold, fewer faults than MaxAttempts never write off an event that
\* JetStream accepts, however they are spread over relays, batches and restarts
\* and whatever the operator requeues meanwhile (outbox.ts 92-126).
THEOREM HealthyIsDelivered == ASSUME FewFaults PROVE Spec => []HealthyNotDead
  <1>1. HInv /\ [Next]_vars => HInv'
    BY NextHInv
  <1>2. HInv => HealthyNotDead
    BY DEF HInv
  <1> QED
    BY <1>1, <1>2, InitHInv, PTL DEF Spec
------------------------------------------------------------------------------
(* The pipeline.  What the alert consumer does of its own is proved in       *)
(* AlertConsumerProofs; here it is fed by the outbox.                      *)

P == INSTANCE AlertConsumerProofs WITH
  stream  <- Stream,
  NoMessage <- <<"none", 0>>,
  EventOf <- [m \in Messages |-> m[1]]

LEMMA ConsumerAssumption ==
  /\ KindOf \in [{[m \in Messages |-> m[1]][n] : n \in Messages} -> P!Kinds]
  /\ Prefetch \in Nat \ {0} /\ MaxDeliver \in Nat \ {0}
  /\ ConsumerFaults \subseteq P!AllConsumerFaults /\ MaxConsumerFaults \in Nat
  /\ PromptConsumers \in BOOLEAN
  /\ <<"none", 0>> \notin Messages
  <1>1. {[m \in Messages |-> m[1]][n] : n \in Messages} = Events
    <2>1. 1 \in 1 .. MaxCopies
      BY OutboxAssumption
    <2>2. \A e \in Events : <<e, 1>> \in Messages /\ <<e, 1>>[1] = e
      BY <2>1 DEF Messages
    <2>3. \A m \in Messages : m[1] \in Events
      BY DEF Messages
    <2> QED
      BY <2>2, <2>3
  <1>2. P!Kinds = DSOC!Kinds /\ P!AllConsumerFaults = DSOC!AllConsumerFaults
    BY DEF P!Kinds, DSOC!Kinds, P!AlertTypes, DSOC!AlertTypes, P!AllConsumerFaults, DSOC!AllConsumerFaults
  <1>3. <<"none", 0>> \notin Messages
    BY DEF Messages
  <1> QED
    BY <1>1, <1>2, <1>3, PipelineAssumption

\* A relay's publish is what the consumer sees as one message arriving; every other
\* step of the outbox leaves the stream as it is.
LEMMA StreamStep ==
  ASSUME IInv, [Next]_vars
  PROVE  Stream' = Stream \/ \E m \in Messages : m \notin Stream /\ Stream' = Stream \union {m}
  <1>1. \A e \in Events : copies[e] \in Nat
    BY OutboxAssumption DEF IInv, OTypeOK
  <1>2. CASE UNCHANGED copies
    BY <1>2 DEF Stream, Messages
  <1>3. ASSUME NEW e \in Events, copies' = [copies EXCEPT ![e] = @ + 1], copies'[e] <= MaxCopies
        PROVE  \E m \in Messages : m \notin Stream /\ Stream' = Stream \union {m}
    <2> DEFINE m == <<e, copies[e] + 1>>
    <2>1. /\ copies'[e] = copies[e] + 1
          /\ \A f \in Events : f # e => copies'[f] = copies[f]
      BY <1>3 DEF IInv, OTypeOK
    <2>2. m \in Messages
      BY <1>1, <1>3, <2>1, OutboxAssumption DEF Messages
    <2>3. m \notin Stream
      BY <1>1 DEF Stream
    <2>4. ASSUME NEW n \in Messages PROVE n[2] <= copies'[n[1]] <=> n[2] <= copies[n[1]] \/ n = m
      <3>1. n[1] \in Events /\ n[2] \in Nat /\ n = <<n[1], n[2]>>
        BY OutboxAssumption DEF Messages
      <3>2. CASE n[1] = e
        BY <1>1, <2>1, <3>1, <3>2
      <3>3. CASE n[1] # e
        BY <2>1, <3>1, <3>3
      <3> QED
        BY <3>2, <3>3
    <2>5. Stream' = Stream \union {m}
      BY <2>2, <2>4 DEF Stream, Messages
    <2> QED
      BY <2>2, <2>3, <2>5
  <1>4. UNCHANGED copies \/ \E e \in Events : copies' = [copies EXCEPT ![e] = @ + 1]
    BY DEF Next, RelayStep, vars, nats, Enqueue, Commit, Abort, Pick, Publish, Store, Mark, HandleError,
           Crash, Stop, Restart, LeaseRunsOut, WindowEnds, OperatorRequeue, IInv, OTypeOK
  <1>5. \A e \in Events : copies'[e] <= MaxCopies
    BY NextIInv, OutboxAssumption DEF IInv, OTypeOK
  <1> QED
    BY <1>2, <1>3, <1>4, <1>5

LEMMA SameConsumer ==
  /\ DSOC!ConsumerInit <=> P!ConsumerInit
  /\ DSOC!ConsumerNext <=> P!ConsumerNext
  BY DEF DSOC!js, P!js, DSOC!procs, P!procs, DSOC!rows, P!rows, DSOC!CFault, P!CFault,
         DSOC!ConsumerInit, P!ConsumerInit, DSOC!ConsumerNext, P!ConsumerNext,
         DSOC!AckWaitEnds, P!AckWaitEnds, DSOC!AfterAckWait, P!AfterAckWait, DSOC!HandOut,
         P!HandOut, DSOC!InHand, P!InHand, DSOC!HandlerStep, P!HandlerStep, DSOC!Begin,
         P!Begin, DSOC!Insert, P!Insert, DSOC!Ack, P!Ack, DSOC!HandlerReturned,
         P!HandlerReturned, DSOC!CrashConsumer, P!CrashConsumer, DSOC!Close, P!Close,
         DSOC!Reopen, P!Reopen, DSOC!Route, P!Route, DSOC!DauthAlerts, P!DauthAlerts,
         DSOC!RiskAlerts, P!RiskAlerts, DSOC!AlertTypes, P!AlertTypes, DSOC!Categories,
         P!Categories

THEOREM PipelineRuns == PSpec => Spec
  <1>1. PInit => Init
    BY DEF PInit
  <1>2. [PNext]_pvars => [Next]_vars
    BY DEF PNext, pvars, OutboxSide, DsocSide
  <1> QED
    BY <1>1, <1>2, PTL DEF PSpec, Spec
LEMMA StepFeeds ==
  ASSUME IInv, [PNext]_pvars PROVE [P!ANext]_(P!acvars)
  <1> USE DEF P!acvars, P!js, P!procs, P!rows, pvars, consumerVars
  <1>1. UNCHANGED vars => Stream' = Stream
    BY DEF vars, nats, Stream, Messages
  <1>2. CASE OutboxSide(Next)
    <2>1. Stream' = Stream \/ \E m \in Messages : m \notin Stream /\ Stream' = Stream \union {m}
      BY <1>2, StreamStep DEF OutboxSide
    <2> QED
      BY <1>2, <2>1 DEF OutboxSide, P!ANext, P!Arrive
  <1>3. CASE DsocSide(DSOC!ConsumerNext)
    BY <1>3, SameConsumer DEF DsocSide, P!ANext
  <1>4. CASE UNCHANGED pvars
    BY <1>1, <1>4
  <1> QED
    BY <1>2, <1>3, <1>4 DEF PNext

\* Fed by the outbox, the consumer does what it does when messages arrive at will:
\* all that is proved of it alone holds in the pipeline.
THEOREM ConsumerRuns == PSpec => P!ASpec
  <1>1. PInit => P!AInit
    <2>1. Init => Stream = {}
      BY OutboxAssumption DEF Init, Stream, Messages
    <2> QED
      BY <2>1, SameConsumer DEF PInit, P!AInit
  <1> QED
    BY <1>1, StepFeeds, PipelineRuns, Invariance, PTL DEF PSpec, P!ASpec

\* What is in the stream was committed, and its row stays.
StoredIsVisible == \A e \in Events : copies[e] > 0 => Visible(e)

LEMMA StoredIsVisibleStep ==
  ASSUME IInv, StoredIsVisible, [Next]_vars PROVE StoredIsVisible'
  <1>1. ASSUME NEW e \in Events, Visible(e) PROVE Visible(e)'
    <2>1. tx[e] = "committed" /\ status[e] \in {"pending", "published", "dead"}
      BY <1>1 DEF IInv, RowsHaveTx, Visible
    <2>2. status'[e] = status[e] \/ status'[e] \in {"pending", "published", "dead"}
      BY <2>1 DEF Next, RelayStep, vars, rows, Enqueue, Commit, Abort, Pick, Publish, Mark, HandleError, SetRow,
         Outcome, Crash, Stop, Restart, LeaseRunsOut, WindowEnds, OperatorRequeue, IInv, OTypeOK
    <2> QED
      BY <2>1, <2>2 DEF Visible
  <1>2. ASSUME NEW e \in Events PROVE copies'[e] = copies[e] \/ Visible(e)
    <2>1. UNCHANGED copies \/ \E r \in Relays : \E f \in batch[r] : Store(f)
      BY DEF Next, RelayStep, vars, nats, Enqueue, Commit, Abort, Pick, Publish, Mark, HandleError,
             Crash, Stop, Restart, LeaseRunsOut, WindowEnds, OperatorRequeue
    <2>2. ASSUME NEW r \in Relays, NEW f \in batch[r], Store(f)
          PROVE  copies'[e] = copies[e] \/ Visible(e)
      BY <2>2 DEF Store, nats, IInv, RowsHaveTx, OTypeOK
    <2> QED
      BY <2>1, <2>2
  <1> QED
    BY <1>1, <1>2 DEF StoredIsVisible

\* What the consumer keeps to by itself.
LEMMA ConsumerKept ==
  P!ASpec => [](P!ATypeOK /\ P!AlertsWithinDeliveries /\ P!DeliveredIsStored)
  <1>1. P!ASpec => []P!ATypeOK
    BY P!AlertTypes_Always, ConsumerAssumption
  <1>2. P!ASpec => []P!AlertsWithinDeliveries
    BY P!AlertsAlwaysWithinDeliveries, ConsumerAssumption
  <1>3. P!ASpec => []P!DeliveredIsStored
    BY P!OnlyStoredDelivered, ConsumerAssumption
  <1> QED
    BY <1>1, <1>2, <1>3, PTL

\* No alert without a committed cause, in the whole pipeline and under every fault of
\* both sides: what a rolled back transaction enqueued never reaches the operators.
THEOREM AlertsHaveCause == PSpec => []AlertHasCause
  <1>1. Init => StoredIsVisible
    BY DEF Init, StoredIsVisible
  <1>2. IInv /\ StoredIsVisible /\ [Next]_vars => StoredIsVisible'
    BY StoredIsVisibleStep
  <1>3. P!ASpec => [](P!ATypeOK /\ P!AlertsWithinDeliveries /\ P!DeliveredIsStored)
    BY ConsumerKept
  <1>4. ASSUME IInv, StoredIsVisible, P!ATypeOK, P!AlertsWithinDeliveries, P!DeliveredIsStored
        PROVE  AlertHasCause
    <2> SUFFICES ASSUME NEW m \in Messages, NEW c \in DSOC!Categories, alerts[<<m, c>>] > 0
                 PROVE  tx[m[1]] = "committed" /\ status[m[1]] # "absent"
      BY DEF AlertHasCause
    <2>1. c \in P!Categories
      BY DEF DSOC!Categories, P!Categories, DSOC!AlertTypes, P!AlertTypes
    <2>2. alerts[<<m, c>>] \in Nat /\ delivered[m] \in Nat
      BY <1>4, <2>1, ConsumerAssumption DEF P!ATypeOK
    <2>3. alerts[<<m, c>>] <= delivered[m]
      BY <1>4, <2>1 DEF P!AlertsWithinDeliveries
    <2>4. m \in Stream
      BY <1>4, <2>2, <2>3 DEF P!DeliveredIsStored
    <2>5. m[1] \in Events /\ copies[m[1]] > 0
      BY <1>4, <2>4, OutboxAssumption DEF Stream, Messages, IInv, OTypeOK
    <2> QED
      BY <1>4, <2>5 DEF StoredIsVisible, IInv, RowsHaveTx, Visible
  <1> QED
    BY <1>1, <1>2, <1>3, <1>4, PipelineRuns, ConsumerRuns, Invariance, PTL DEF Spec
------------------------------------------------------------------------------
(* One alert per event, where no relay loses track of a publish.           *)

CleanRelays ==
  /\ PromptRelays
  /\ FaultKinds \intersect {"ackLost", "markFails", "markUnknown", "crash", "operator"} = {}

\* A row whose message is stored is published, or about to be marked so.
StoredOnce ==
  \A e \in Events :
    /\ copies[e] <= 1
    /\ copies[e] > 0 => status[e] = "published" \/ \E r \in Relays : pc[r] = "mark" /\ cur[r] = e

CInv == LInv /\ HeldIsPending /\ StoredOnce

\* Nobody has the row of a stored message in hand but the relay that marks it.
LEMMA HeldIsNotStored ==
  ASSUME CInv, NEW r \in Relays, NEW e \in batch[r], ~(pc[r] = "mark" /\ cur[r] = e)
  PROVE  e \in Events /\ copies[e] = 0 /\ e \notin window
  <1>1. e \in Events /\ status[e] = "pending"
    BY DEF CInv, LInv, IInv, OTypeOK, HeldIsPending
  <1>2. ~(copies[e] > 0)
    <2> SUFFICES ASSUME copies[e] > 0 PROVE FALSE
      OBVIOUS
    <2>1. PICK s \in Relays : pc[s] = "mark" /\ cur[s] = e
      BY <1>1 DEF CInv, StoredOnce
    <2>2. e \in batch[s]
      BY <2>1 DEF CInv, LInv, IInv, RelayConsistent
    <2> QED
      BY <2>1, <2>2 DEF CInv, LInv, Exclusive
  <1>3. copies[e] \in Nat
    BY <1>1, OutboxAssumption DEF CInv, LInv, IInv, OTypeOK
  <1> QED
    BY <1>1, <1>2, <1>3 DEF CInv, LInv, IInv, RememberedIsStored

\* Steps that leave the stream and every relay that is about to mark as they are.
LEMMA QuietStoredOnce ==
  ASSUME CInv, UNCHANGED copies,
         \A e \in Events : status[e] = "published" => status'[e] = "published",
         \A r \in Relays : pc[r] = "mark" =>
           (pc'[r] = "mark" /\ cur'[r] = cur[r]) \/ status'[cur[r]] = "published"
  PROVE  StoredOnce'
  BY DEF CInv, StoredOnce

LEMMA StoredOnceStep ==
  ASSUME CleanRelays, CInv, HeldIsPending', [Next]_vars PROVE StoredOnce'
  <1>0. /\ OTypeOK /\ RelayConsistent /\ RowsHaveTx
        /\ \A k \in {"ackLost", "markFails", "markUnknown", "crash", "operator"} : ~Fault(k)
    BY DEF CInv, LInv, IInv, CleanRelays, Fault
  <1>1. ASSUME NEW e \in Events, Enqueue(e) \/ Commit(e) \/ Abort(e) PROVE StoredOnce'
    <2>1. UNCHANGED <<copies, pc, cur>> /\ ~Visible(e) /\ \A f \in Events \ {e} : status'[f] = status[f]
      BY <1>0, <1>1 DEF Enqueue, Commit, Abort, relay, nats, RowsHaveTx, OTypeOK
    <2> QED
      BY <2>1, QuietStoredOnce DEF Visible
  <1>2. ASSUME NEW e \in Events, LeaseRunsOut(e) \/ WindowEnds(e) \/ OperatorRequeue(e) PROVE StoredOnce'
    <2>1. UNCHANGED <<copies, pc, cur, status>>
      BY <1>0, <1>2 DEF LeaseRunsOut, WindowEnds, OperatorRequeue, relay, nats, rows
    <2> QED
      BY <2>1, QuietStoredOnce
  <1>3. ASSUME NEW r \in Relays, Pick(r) \/ Crash(r) \/ Stop(r) \/ Restart(r) PROVE StoredOnce'
    <2>1. UNCHANGED <<copies, cur, status>>
          /\ (UNCHANGED pc \/ (pc[r] = "idle" /\ pc' = [pc EXCEPT ![r] = "publish"]))
      BY <1>0, <1>3 DEF Pick, Crash, Stop, Restart, nats, rows
    <2>2. \A s \in Relays : pc[s] = "mark" => pc'[s] = "mark"
      BY <1>0, <2>1 DEF OTypeOK
    <2> QED
      BY <2>1, <2>2, QuietStoredOnce
  <1>4. ASSUME NEW r \in Relays, Mark(r) PROVE StoredOnce'
    <2>1. /\ UNCHANGED copies /\ cur[r] \in Events
          /\ status' = [status EXCEPT ![cur[r]] = "published"]
          /\ \A s \in Relays \ {r} : pc'[s] = pc[s] /\ cur'[s] = cur[s]
      BY <1>0, <1>4 DEF Mark, SetRow, NextRow, nats, OTypeOK, RelayConsistent
    <2> QED
      BY <1>0, <2>1, QuietStoredOnce DEF OTypeOK
  <1>5. ASSUME NEW r \in Relays, HandleError(r) PROVE StoredOnce'
    <2>1. pc[r] = "fail" /\ cur[r] \in batch[r]
      BY <1>0, <1>5 DEF HandleError, RelayConsistent
    <2>2. status[cur[r]] = "pending"
      BY <2>1 DEF CInv, HeldIsPending
    <2>3. /\ UNCHANGED copies
          /\ \A s \in Relays \ {r} : pc'[s] = pc[s] /\ cur'[s] = cur[s]
          /\ \A f \in Events : f # cur[r] => status'[f] = status[f]
      BY <1>0, <1>5 DEF HandleError, SetRow, NextRow, Drop, nats, OTypeOK
    <2> QED
      BY <2>1, <2>2, <2>3, QuietStoredOnce
  <1>6. ASSUME NEW r \in Relays, Publish(r) PROVE StoredOnce'
    <2>1. PICK e \in batch[r] :
            \/ Store(e) /\ pc' = [pc EXCEPT ![r] = "mark"] /\ cur' = [cur EXCEPT ![r] = e]
            \/ UNCHANGED nats /\ \E s : pc' = [pc EXCEPT ![r] = s] /\ cur' = [cur EXCEPT ![r] = e]
      BY <1>0, <1>6 DEF Publish, Refused
    <2>2. pc[r] = "publish" /\ UNCHANGED status
      BY <1>6 DEF Publish, rows
    <2>3. \A s \in Relays \ {r} : pc'[s] = pc[s] /\ cur'[s] = cur[s]
      BY <1>0, <2>1 DEF OTypeOK
    <2>4. CASE UNCHANGED nats
      BY <2>2, <2>3, <2>4, QuietStoredOnce DEF nats
    <2>5. CASE Store(e) /\ pc' = [pc EXCEPT ![r] = "mark"] /\ cur' = [cur EXCEPT ![r] = e]
      <3>1. e \in Events /\ copies[e] = 0 /\ e \notin window
        BY <2>2, HeldIsNotStored
      <3>2. copies' = [copies EXCEPT ![e] = @ + 1] /\ pc'[r] = "mark" /\ cur'[r] = e
        BY <1>0, <2>5, <3>1 DEF Store, OTypeOK
      <3>3. copies'[e] = 1 /\ \A f \in Events \ {e} : copies'[f] = copies[f]
        BY <1>0, <3>1, <3>2 DEF OTypeOK
      <3> QED
        BY <2>2, <2>3, <3>2, <3>3 DEF CInv, StoredOnce
    <2> QED
      BY <2>1, <2>4, <2>5
  <1>7. CASE UNCHANGED vars
    BY <1>7, QuietStoredOnce DEF vars, rows, relay, nats
  <1> QED
    BY <1>1, <1>2, <1>3, <1>4, <1>5, <1>6, <1>7 DEF Next, RelayStep

LEMMA AlwaysStoredOnce == ASSUME CleanRelays PROVE Spec => []StoredOnce
  <1>1. PromptRelays /\ OutcomesKnown
    BY DEF CleanRelays, OutcomesKnown
  <1>2. Init => HeldIsPending /\ StoredOnce
    BY DEF Init, HeldIsPending, StoredOnce
  <1>3. LInv /\ HeldIsPending /\ StoredOnce /\ [Next]_vars => HeldIsPending' /\ StoredOnce'
    BY <1>1, PendingStep, StoredOnceStep DEF CInv
  <1> QED
    BY <1>1, <1>2, <1>3, LeaseInvariance, PTL DEF Spec

\* An event raises an alert of a category once at most, whatever publishes are
\* refused, picks lost, inserts failed, relays stopped and consumers closed, as long as
\* no process dies and no acknowledgement or mark is lost between the two links.
THEOREM OneAlert == ASSUME CleanRelays, P!CleanConsumers PROVE PSpec => []OneAlertPerEvent
  <1>1. P!ASpec => [](P!ATypeOK /\ P!AlertsWithinDeliveries /\ P!DeliveredIsStored)
    BY ConsumerKept
  <1>2. P!ASpec => []P!AtMostOneAlert
    BY P!AlertsOnce, ConsumerAssumption
  <1>3. ASSUME IInv, StoredOnce, P!ATypeOK, P!AlertsWithinDeliveries, P!DeliveredIsStored, P!AtMostOneAlert
        PROVE  OneAlertPerEvent
    <2> SUFFICES ASSUME NEW e \in Events, NEW c \in DSOC!Categories
                 PROVE  /\ \A m \in AlertsOf(e, c) : alerts[<<m, c>>] = 1
                        /\ Cardinality(AlertsOf(e, c)) <= 1
      BY DEF OneAlertPerEvent
    <2>1. c \in P!Categories
      BY DEF DSOC!Categories, P!Categories, DSOC!AlertTypes, P!AlertTypes
    <2>2. ASSUME NEW m \in AlertsOf(e, c) PROVE alerts[<<m, c>>] = 1 /\ m = <<e, 1>>
      <3>1. m \in Messages /\ m[1] = e /\ alerts[<<m, c>>] > 0
        BY DEF AlertsOf
      <3>2. alerts[<<m, c>>] \in Nat /\ delivered[m] \in Nat
        BY <1>3, <2>1, <3>1, ConsumerAssumption DEF P!ATypeOK
      <3>3. alerts[<<m, c>>] <= delivered[m] /\ alerts[<<m, c>>] <= 1
        BY <1>3, <2>1, <3>1 DEF P!AlertsWithinDeliveries, P!AtMostOneAlert
      <3>4. m[2] <= copies[e]
        BY <1>3, <3>1, <3>2, <3>3 DEF P!DeliveredIsStored, Stream
      <3>5. copies[e] \in Nat /\ copies[e] <= 1 /\ m = <<m[1], m[2]>> /\ m[2] \in Nat \ {0}
        BY <1>3, <3>1, OutboxAssumption DEF StoredOnce, IInv, OTypeOK, Messages
      <3> QED
        BY <3>1, <3>2, <3>3, <3>4, <3>5
    <2>3. Cardinality(AlertsOf(e, c)) <= 1
      <3>1. AlertsOf(e, c) = {} \/ AlertsOf(e, c) = {<<e, 1>>}
        BY <2>2
      <3>2. Cardinality({}) = 0 /\ Cardinality({<<e, 1>>}) = 1
        BY FS_EmptySet, FS_Singleton
      <3>3. Cardinality(AlertsOf(e, c)) \in {0, 1}
        BY <3>1, <3>2
      <3> QED
        BY <3>3
    <2> QED
      BY <2>2, <2>3
  <1> QED
    BY <1>1, <1>2, <1>3, PipelineRuns, ConsumerRuns, Invariance, AlwaysStoredOnce, PTL
==============================================================================
