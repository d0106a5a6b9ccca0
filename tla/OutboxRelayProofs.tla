------------------------- MODULE OutboxRelayProofs -------------------------
(***************************************************************************)
(* Theorems about OutboxRelay, for any transactions, events, replicas and  *)
(* bounds: type correctness, that no committed event is lost, that a row   *)
(* is parked only after MaxRetries recorded failures, and that the relay   *)
(* implements EventDelivery.                                               *)
(***************************************************************************)
EXTENDS OutboxRelay, TLAPS

USE OutboxAssumption

\* The relay's step relation, one disjunct per action: the shape in which
\* the proofs below split a step.
LEMMA NextCases ==
  ASSUME [Next]_vars
  PROVE  \/ \E t \in Txns : Begin(t)
         \/ \E t \in Txns : Commit(t)
         \/ \E t \in Txns : Rollback(t)
         \/ \E w \in Workers : FetchUnpublished(w)
         \/ \E w \in Workers, r \in Rows : MoveToDlq(w, r)
         \/ \E w \in Workers, r \in Rows : MoveToDlqFails(w, r)
         \/ \E w \in Workers, r \in Rows : PublishAcked(w, r)
         \/ \E w \in Workers, r \in Rows : PublishFails(w, r)
         \/ \E w \in Workers, r \in Rows : PublishTimesOut(w, r)
         \/ \E w \in Workers : MarkPublished(w)
         \/ \E w \in Workers : MarkPublishedFails(w)
         \/ \E w \in Workers : MarkFailed(w)
         \/ \E w \in Workers : MarkFailedFails(w)
         \/ \E w \in Workers : Crash(w)
         \/ \E S \in SUBSET dlq : \E fresh \in [S -> ReplayRows] : ReplayInto(S, fresh)
         \/ UNCHANGED vars
  <1>1. CASE Operator
    <2>1. ASSUME NEW r \in Rows, ReplayDlqEvent(r)
          PROVE  \E S \in SUBSET dlq : \E fresh \in [S -> ReplayRows] : ReplayInto(S, fresh)
      <3>1. PICK n \in ReplayRows : ReplayInto({r}, [q \in {r} |-> n])
        BY <2>1 DEF ReplayDlqEvent
      <3>2. {r} \in SUBSET dlq /\ [q \in {r} |-> n] \in [{r} -> ReplayRows]
        BY <2>1 DEF ReplayDlqEvent
      <3>3. QED
        BY <3>1, <3>2
    <2>2. ASSUME ReplayAllDlqEvents
          PROVE  \E S \in SUBSET dlq : \E fresh \in [S -> ReplayRows] : ReplayInto(S, fresh)
      BY <2>2 DEF ReplayAllDlqEvents
    <2>3. QED
      BY <1>1, <2>1, <2>2 DEF Operator
  <1>2. CASE Next /\ ~Operator
    BY <1>2 DEF Next, Producer, Worker, ProcessRow
  <1>3. QED
    BY <1>1, <1>2

-----------------------------------------------------------------------------
(* Type correctness.                                                       *)

\* What finishing a row does to a replica's local state, typed.
LEMMA DoneType ==
  ASSUME TypeOK, NEW w \in Workers, NEW r, Done(w, r)
  PROVE  /\ batch' \in [Workers -> SUBSET Rows]
         /\ seen' \in [Workers -> [Rows -> Nat]]
         /\ phase' \in [Workers -> {"next", "mark", "fail"}]
         /\ cur' \in [Workers -> Rows \cup {None}]
         /\ \A v \in Workers : phase'[v] # "next" => cur'[v] \in Rows
  BY DEF Done, TypeOK

\* Replaying rows of the dead-letter queue keeps the table well typed.
LEMMA ReplayType ==
  ASSUME TypeOK, NEW S \in SUBSET dlq, NEW fresh \in [S -> ReplayRows], ReplayInto(S, fresh)
  PROVE  TypeOK'
  <1> DEFINE new == {fresh[r] : r \in S}
             source(n) == CHOOSE r \in S : fresh[r] = n
  <1>1. \A n \in new : source(n) \in S /\ fresh[source(n)] = n
    OBVIOUS
  <1>2. rows' = rows \cup new /\ new \subseteq Rows
    BY DEF ReplayInto, Rows
  <1>3. copyOf' = [n \in Rows |-> IF n \in new THEN copyOf[source(n)] ELSE copyOf[n]]
    BY DEF ReplayInto
  <1>4. copyOf' \in [Rows -> Events \cup {None}]
    <2> HIDE DEF new, source
    <2> QED BY <1>1, <1>3 DEF TypeOK
  <1>5. created' \in [Rows -> Nat] /\ clock' \in Nat /\ dlq' \subseteq Rows
    BY DEF ReplayInto, TypeOK
  <1>6. UNCHANGED <<txn, startedAt, published, retry, kafka, batch, seen, phase, cur, faults>>
    BY DEF ReplayInto, txnVars, relayVars
  <1>7. QED
    BY <1>2, <1>4, <1>5, <1>6 DEF TypeOK

\* Every step keeps the types of the tables and of the replicas' state.
LEMMA TypeStep == TypeOK /\ [Next]_vars => TypeOK'
  <1> SUFFICES ASSUME TypeOK, [Next]_vars PROVE TypeOK'
    OBVIOUS
  <1> USE DEF txnVars, rowVars, relayVars
  <1>1. ASSUME NEW t \in Txns, Begin(t) PROVE TypeOK'
    BY <1>1 DEF Begin, TypeOK
  <1>2. ASSUME NEW t \in Txns, Commit(t) PROVE TypeOK'
    BY <1>2 DEF Commit, TypeOK, Rows
  <1>3. ASSUME NEW t \in Txns, Rollback(t) PROVE TypeOK'
    BY <1>3 DEF Rollback, TypeOK
  <1>4. ASSUME NEW w \in Workers, FetchUnpublished(w) PROVE TypeOK'
    BY <1>4 DEF FetchUnpublished, TypeOK, Pending
  <1>5. ASSUME NEW w \in Workers, NEW r \in Rows, MoveToDlq(w, r) PROVE TypeOK'
    BY <1>5, DoneType DEF MoveToDlq, TypeOK
  <1>6. ASSUME NEW w \in Workers, NEW r \in Rows, MoveToDlqFails(w, r) PROVE TypeOK'
    BY <1>6, DoneType DEF MoveToDlqFails, Fault, TypeOK
  <1>7. ASSUME NEW w \in Workers, NEW r \in Rows, PublishAcked(w, r) PROVE TypeOK'
    BY <1>7 DEF PublishAcked, PublishTo, TypeOK
  <1>8. ASSUME NEW w \in Workers, NEW r \in Rows, PublishFails(w, r) PROVE TypeOK'
    BY <1>8 DEF PublishFails, PublishTo, TypeOK
  <1>9. ASSUME NEW w \in Workers, NEW r \in Rows, PublishTimesOut(w, r) PROVE TypeOK'
    BY <1>9 DEF PublishTimesOut, PublishTo, Fault, TypeOK
  <1>10. ASSUME NEW w \in Workers, MarkPublished(w) PROVE TypeOK'
    BY <1>10, DoneType DEF MarkPublished, TypeOK
  <1>11. ASSUME NEW w \in Workers, MarkPublishedFails(w) PROVE TypeOK'
    BY <1>11 DEF MarkPublishedFails, Fault, TypeOK
  <1>12. ASSUME NEW w \in Workers, MarkFailed(w) PROVE TypeOK'
    BY <1>12, DoneType, SMTT(60) DEF MarkFailed, TypeOK
  <1>13. ASSUME NEW w \in Workers, MarkFailedFails(w) PROVE TypeOK'
    BY <1>13, DoneType DEF MarkFailedFails, Fault, TypeOK
  <1>14. ASSUME NEW w \in Workers, Crash(w) PROVE TypeOK'
    BY <1>14 DEF Crash, Fault, TypeOK
  <1>15. ASSUME NEW S \in SUBSET dlq, NEW fresh \in [S -> ReplayRows], ReplayInto(S, fresh)
         PROVE  TypeOK'
    BY <1>15, ReplayType
  <1>16. CASE UNCHANGED vars
    BY <1>16 DEF vars, TypeOK
  <1>17. QED
    BY <1>1, <1>2, <1>3, <1>4, <1>5, <1>6, <1>7, <1>8, <1>9, <1>10, <1>11, <1>12, <1>13,
       <1>14, <1>15, <1>16, NextCases

\* Type correctness of the outbox, the dead-letter queue and the relay.
THEOREM TypeCorrect == Spec => []TypeOK
  <1>1. Init => TypeOK
    BY DEF Init, TypeOK
  <1>2. QED
    BY <1>1, TypeStep, PTL DEF Spec

-----------------------------------------------------------------------------
(* The inductive invariant.                                                *)

\* Rows referred to anywhere exist, and a row carries a committed event.
RefsValid ==
  /\ published \cup dlq \cup Delivered \subseteq rows
  /\ \A w \in Workers : batch[w] \subseteq rows
  /\ \A w \in Workers : phase[w] # "next" => cur[w] \in batch[w]
  /\ \A r \in rows : copyOf[r] \in Committed
  /\ \A r \in rows \cap Events : copyOf[r] = r

\* A replica marks a row published only after Kafka has received it.
MarkAfterDelivery == \A w \in Workers : phase[w] = "mark" => cur[w] \in Delivered

\* A fetched retry count is never ahead of the table: counts only grow.
SeenNotAhead == \A w \in Workers : \A r \in batch[w] : seen[w][r] <= retry[r]

IInv ==
  /\ TypeOK
  /\ RefsValid
  /\ MarkAfterDelivery
  /\ SeenNotAhead
  /\ ParkedAfterMaxRetries
  /\ NoEventLost

\* Appending a message adds exactly its row to what Kafka has received.
LEMMA AppendDelivered ==
  ASSUME TypeOK, NEW r \in Rows, kafka' = Append(kafka, r)
  PROVE  Delivered' = Delivered \cup {r}
  <1>1. kafka \in Seq(Rows) /\ Len(kafka) \in Nat /\ DOMAIN kafka = 1..Len(kafka)
    BY DEF TypeOK
  <1>2. DOMAIN kafka' = 1..(Len(kafka) + 1)
    BY <1>1
  <1>3. kafka'[Len(kafka) + 1] = r /\ \A i \in DOMAIN kafka : kafka'[i] = kafka[i]
    BY <1>1
  <1>4. ASSUME NEW x \in Delivered' PROVE x \in Delivered \cup {r}
    BY <1>1, <1>2, <1>3, <1>4 DEF Delivered
  <1>5. ASSUME NEW x \in Delivered \cup {r} PROVE x \in Delivered'
    BY <1>1, <1>2, <1>3, <1>5 DEF Delivered
  <1>6. QED
    BY <1>4, <1>5

\* The events of a transaction that has not committed have no row yet.
LEMMA UncommittedHasNoRow ==
  ASSUME TypeOK, RefsValid, NEW t \in Txns, txn[t] # "committed"
  PROVE  EventsOf[t] \cap rows = {}
  <1> SUFFICES ASSUME NEW e \in EventsOf[t], e \in rows PROVE FALSE
    OBVIOUS
  <1>1. e \in Events /\ copyOf[e] = e
    BY DEF RefsValid
  <1>2. PICK s \in Txns : txn[s] = "committed" /\ e \in EventsOf[s]
    BY <1>1 DEF RefsValid, Committed
  <1>3. QED
    BY <1>2

\* Finishing a row shrinks the batch and leaves the other replicas alone.
LEMMA DoneRefs ==
  ASSUME TypeOK, TypeOK', RefsValid, MarkAfterDelivery, SeenNotAhead,
         NEW w \in Workers, NEW r \in Rows,
         Done(w, r), phase[w] = "next" \/ cur[w] = r,
         Delivered' = Delivered, rows' = rows, \A q \in Rows : retry[q] <= retry'[q]
  PROVE  /\ \A v \in Workers : batch'[v] \subseteq rows'
         /\ \A v \in Workers : phase'[v] # "next" => cur'[v] \in batch'[v]
         /\ MarkAfterDelivery'
         /\ SeenNotAhead'
  <1>1. \A v \in Workers : batch'[v] = IF v = w THEN batch[w] \ {r} ELSE batch[v]
    BY DEF Done, TypeOK
  <1>2. \A v \in Workers : phase'[v] = IF v = w THEN "next" ELSE phase[v]
    BY DEF Done, TypeOK
  <1>3. \A v \in Workers : v # w => cur'[v] = cur[v]
    BY DEF Done, TypeOK
  <1>4. \A v \in Workers, q \in Rows : seen'[v][q] = IF v = w /\ q = r THEN 0 ELSE seen[v][q]
    BY SMTT(30) DEF Done, TypeOK
  <1>5. \A v \in Workers : batch[v] \subseteq Rows
    BY DEF TypeOK
  <1>6. MarkAfterDelivery'
    BY <1>2, <1>3 DEF MarkAfterDelivery
  <1>7. SeenNotAhead'
    <2> SUFFICES ASSUME NEW v \in Workers, NEW q \in batch'[v] PROVE seen'[v][q] <= retry'[q]
      BY DEF SeenNotAhead
    <2>1. q \in batch[v] /\ q \in Rows /\ seen'[v][q] = seen[v][q]
      BY <1>1, <1>4, <1>5
    <2>2. seen[v][q] <= retry[q] /\ seen[v][q] \in Nat /\ retry[q] \in Nat /\ retry'[q] \in Nat
      BY <2>1 DEF SeenNotAhead, TypeOK
    <2>3. QED
      BY <2>1, <2>2
  <1>8. QED
    BY <1>1, <1>2, <1>3, <1>6, <1>7 DEF RefsValid

\* Steps that add no committed event, keep the payloads of the rows and only
\* settle rows Kafka has received or the dead-letter queue holds.
LEMMA NotLostStep ==
  ASSUME RefsValid, NoEventLost, Committed' = Committed, rows' = rows, copyOf' = copyOf,
         Delivered \subseteq Delivered', dlq \subseteq dlq',
         published' \subseteq published \cup Delivered' \cup dlq'
  PROVE  NoEventLost'
  BY DEF NoEventLost, EventsIn, Pending

\* Committed and Delivered depend on the transactions and on the log alone.
LEMMA DerivedUnchanged ==
  /\ txn' = txn => Committed' = Committed
  /\ kafka' = kafka => Delivered' = Delivered
  BY DEF Committed, Delivered

\* Commit: the rows are new, so all events of the transaction are pending.
LEMMA CommitStep ==
  ASSUME IInv, TypeOK', NEW t \in Txns, Commit(t)
  PROVE  IInv'
  <1> USE DEF IInv, rowVars, relayVars
  <1>1. EventsOf[t] \cap rows = {}
    BY UncommittedHasNoRow DEF Commit
  <1>2. Committed' = Committed \cup EventsOf[t]
    BY DEF Commit, Committed, TypeOK
  <1>3. Delivered' = Delivered
    BY DerivedUnchanged DEF Commit
  <1>4. rows' = rows \cup EventsOf[t] /\ EventsOf[t] \subseteq Events /\ Events \subseteq Rows
    BY DEF Commit, Rows
  <1>5. /\ \A r \in rows : copyOf'[r] = copyOf[r]
        /\ \A r \in EventsOf[t] : copyOf'[r] = r
    BY <1>1, <1>4 DEF Commit, TypeOK
  <1>6. RefsValid'
    BY <1>2, <1>3, <1>4, <1>5 DEF RefsValid, Commit
  <1>7. NoEventLost'
    <2> SUFFICES ASSUME NEW e \in Committed'
                 PROVE  e \in (EventsIn(Pending) \cup EventsIn(Delivered) \cup EventsIn(dlq))'
      BY DEF NoEventLost
    <2>1. CASE e \in EventsOf[t]
      <3>1. e \in Pending'
        BY <1>1, <1>4, <2>1 DEF Commit, Pending, RefsValid
      <3>2. QED
        BY <1>5, <2>1, <3>1 DEF EventsIn
    <2>2. CASE e \in Committed
      <3>1. PICK r \in Pending \cup Delivered \cup dlq : e = copyOf[r]
        BY <2>2 DEF NoEventLost, EventsIn
      <3>2. r \in rows
        BY DEF Pending, RefsValid
      <3>3. r \in Pending' \cup Delivered' \cup dlq' /\ e = copyOf'[r]
        BY <1>3, <1>4, <1>5, <3>1, <3>2 DEF Pending, Commit
      <3>4. QED
        BY <3>3 DEF EventsIn
    <2>3. QED
      BY <1>2, <2>1, <2>2
  <1>8. MarkAfterDelivery' /\ SeenNotAhead' /\ ParkedAfterMaxRetries'
    BY <1>3 DEF MarkAfterDelivery, SeenNotAhead, ParkedAfterMaxRetries, Commit
  <1>9. QED
    BY <1>6, <1>7, <1>8

\* Replay: each row that leaves the dead-letter queue comes back as a pending
\* row with the same event.
LEMMA ReplayStep ==
  ASSUME IInv, TypeOK', NEW S \in SUBSET dlq, NEW fresh \in [S -> ReplayRows],
         ReplayInto(S, fresh)
  PROVE  IInv'
  <1> USE DEF IInv, txnVars, relayVars
  <1> DEFINE new == {fresh[r] : r \in S}
             source(n) == CHOOSE r \in S : fresh[r] = n
  <1>1. \A n \in new : source(n) \in S /\ fresh[source(n)] = n
    OBVIOUS
  <1>2. rows' = rows \cup new /\ new \subseteq ReplayRows \ rows /\ S \subseteq rows /\ rows \subseteq Rows
    BY DEF ReplayInto, RefsValid, TypeOK
  <1>3. copyOf' = [n \in Rows |-> IF n \in new THEN copyOf[source(n)] ELSE copyOf[n]]
    BY DEF ReplayInto
  <1>4. \A r \in S : fresh[r] \in new /\ source(fresh[r]) = r
    <2> SUFFICES ASSUME NEW r \in S PROVE fresh[r] \in new /\ source(fresh[r]) = r
      OBVIOUS
    <2>1. fresh[r] \in new
      OBVIOUS
    <2>2. source(fresh[r]) \in S /\ fresh[source(fresh[r])] = fresh[r]
      BY <1>1, <2>1
    <2>3. QED
      BY <2>1, <2>2 DEF ReplayInto
  <1>5. dlq' = dlq \ S
    BY DEF ReplayInto
  <1> HIDE DEF new, source
  <1>6. UNCHANGED <<txn, published, retry, kafka, batch, seen, phase, cur>>
    BY DEF ReplayInto
  <1>7. Committed' = Committed /\ Delivered' = Delivered
    BY <1>6, DerivedUnchanged
  <1>8. /\ \A r \in rows : copyOf'[r] = copyOf[r]
        /\ \A n \in new : copyOf'[n] = copyOf[source(n)]
        /\ \A r \in S : copyOf'[fresh[r]] = copyOf[r]
    BY <1>2, <1>3, <1>4 DEF Rows
  <1>9. RefsValid'
    BY <1>1, <1>2, <1>5, <1>6, <1>7, <1>8 DEF RefsValid
  <1>10. NoEventLost'
    <2> SUFFICES ASSUME NEW e \in Committed
                 PROVE  e \in (EventsIn(Pending) \cup EventsIn(Delivered) \cup EventsIn(dlq))'
      BY <1>7 DEF NoEventLost
    <2>1. PICK r \in Pending \cup Delivered \cup dlq : e = copyOf[r]
      BY DEF NoEventLost, EventsIn
    <2>2. r \in rows
      BY DEF Pending, RefsValid
    <2>3. CASE r \in S
      <3>1. fresh[r] \in Pending'
        BY <1>2, <1>4, <1>6, <2>3 DEF Pending, RefsValid
      <3>2. QED
        BY <1>8, <2>1, <2>3, <3>1 DEF EventsIn
    <2>4. CASE r \notin S
      <3>1. r \in Pending' \cup Delivered' \cup dlq' /\ e = copyOf'[r]
        BY <1>2, <1>5, <1>6, <1>7, <1>8, <2>1, <2>2, <2>4 DEF Pending
      <3>2. QED
        BY <3>1 DEF EventsIn
    <2>5. QED
      BY <2>3, <2>4
  <1>11. MarkAfterDelivery' /\ SeenNotAhead' /\ ParkedAfterMaxRetries'
    BY <1>5, <1>6, <1>7 DEF MarkAfterDelivery, SeenNotAhead, ParkedAfterMaxRetries
  <1>12. QED
    BY <1>9, <1>10, <1>11

\* A replica hands a row to Kafka: the row joins Delivered or nothing changes.
LEMMA PublishStep ==
  ASSUME IInv, TypeOK', NEW w \in Workers, NEW r \in Rows, NEW next \in {"mark", "fail"},
         PublishTo(w, r, next), kafka' \in {kafka, Append(kafka, r)},
         next = "mark" => kafka' = Append(kafka, r)
  PROVE  IInv'
  <1> USE DEF IInv, txnVars, rowVars
  <1>1. r \in batch[w] /\ r \in rows
    BY DEF PublishTo, NextInBatch, RefsValid
  <1>2. Delivered' \in {Delivered, Delivered \cup {r}} /\ (next = "mark" => r \in Delivered')
    BY AppendDelivered, DerivedUnchanged
  <1>3. Committed' = Committed
    BY DerivedUnchanged DEF PublishTo
  <1>4. \A v \in Workers : /\ phase'[v] = IF v = w THEN next ELSE phase[v]
                           /\ cur'[v] = IF v = w THEN r ELSE cur[v]
    BY DEF PublishTo, TypeOK
  <1>5. RefsValid'
    BY <1>1, <1>2, <1>3, <1>4 DEF RefsValid, PublishTo
  <1>6. MarkAfterDelivery'
    BY <1>2, <1>4 DEF MarkAfterDelivery
  <1>7. NoEventLost'
    BY <1>2, <1>3, NotLostStep DEF PublishTo
  <1>8. SeenNotAhead' /\ ParkedAfterMaxRetries'
    BY DEF SeenNotAhead, ParkedAfterMaxRetries, PublishTo
  <1>9. QED
    BY <1>5, <1>6, <1>7, <1>8

\* A replica finishes a row, whatever it has done to the tables: the row is
\* settled only if Kafka has received it or the dead-letter queue holds it.
LEMMA FinishStep ==
  ASSUME IInv, TypeOK', NEW w \in Workers, NEW r \in batch[w], Done(w, r),
         phase[w] = "next" \/ cur[w] = r,
         UNCHANGED <<txn, rows, copyOf, kafka>>,
         dlq' \in {dlq, dlq \cup {r}}, r \in dlq' \ dlq => retry[r] >= MaxRetries,
         published' \in {published, published \cup {r}},
         r \in published' \ published => r \in Delivered \cup dlq',
         \A q \in Rows : retry[q] <= retry'[q]
  PROVE  IInv'
  <1> USE DEF IInv
  <1>1. r \in rows /\ r \in Rows
    BY DEF RefsValid, TypeOK
  <1>2. Committed' = Committed /\ Delivered' = Delivered
    BY DerivedUnchanged
  <1>3. /\ \A v \in Workers : batch'[v] \subseteq rows'
        /\ \A v \in Workers : phase'[v] # "next" => cur'[v] \in batch'[v]
        /\ MarkAfterDelivery'
        /\ SeenNotAhead'
    BY <1>1, <1>2, DoneRefs
  <1>4. RefsValid'
    BY <1>1, <1>2, <1>3 DEF RefsValid
  <1>5. NoEventLost'
    BY <1>2, NotLostStep
  <1>6. ParkedAfterMaxRetries'
    <2> SUFFICES ASSUME NEW q \in dlq' PROVE retry'[q] >= MaxRetries
      BY DEF ParkedAfterMaxRetries
    <2>1. q \in Rows /\ retry[q] \in Nat /\ retry'[q] \in Nat /\ retry[q] <= retry'[q]
      BY <1>1 DEF TypeOK
    <2>2. retry[q] >= MaxRetries
      BY DEF ParkedAfterMaxRetries
    <2>3. QED
      BY <2>1, <2>2
  <1>7. QED
    BY <1>3, <1>4, <1>5, <1>6

\* Every step preserves the inductive invariant.
LEMMA IInvStep == IInv /\ [Next]_vars => IInv'
  <1> SUFFICES ASSUME IInv, [Next]_vars PROVE IInv'
    OBVIOUS
  <1> USE DEF txnVars, rowVars, relayVars
  <1>0. TypeOK /\ TypeOK'
    BY TypeStep DEF IInv
  <1>1. ASSUME NEW t \in Txns, Begin(t) \/ Rollback(t) PROVE IInv'
    <2>1. UNCHANGED <<rows, copyOf, published, retry, dlq, kafka, batch, seen, phase, cur>>
      BY <1>1 DEF Begin, Rollback
    <2>2. Committed' = Committed
      BY <1>0, <1>1 DEF Begin, Rollback, Committed, TypeOK
    <2>3. Delivered' = Delivered
      BY <2>1, DerivedUnchanged
    <2>4. QED
      BY <1>0, <2>1, <2>2, <2>3 DEF IInv, RefsValid, MarkAfterDelivery, SeenNotAhead,
         ParkedAfterMaxRetries, NoEventLost, EventsIn, Pending
  <1>2. ASSUME NEW t \in Txns, Commit(t) PROVE IInv'
    BY <1>0, <1>2, CommitStep
  <1>3. ASSUME NEW w \in Workers, FetchUnpublished(w) PROVE IInv'
    <2>1. PICK S \in SUBSET Pending :
            /\ batch' = [batch EXCEPT ![w] = S]
            /\ seen' = [seen EXCEPT ![w] = [r \in Rows |-> IF r \in S THEN retry[r] ELSE 0]]
      BY <1>3 DEF FetchUnpublished
    <2>2. batch[w] = {} /\ UNCHANGED <<txn, rows, copyOf, published, retry, dlq, kafka, phase, cur>>
      BY <1>3 DEF FetchUnpublished
    <2>3. Committed' = Committed /\ Delivered' = Delivered
      BY <2>2, DerivedUnchanged
    <2>4. RefsValid'
      BY <1>0, <2>1, <2>2, <2>3 DEF IInv, RefsValid, Pending, TypeOK
    <2>5. SeenNotAhead'
      BY <1>0, <2>1, <2>2 DEF IInv, SeenNotAhead, TypeOK
    <2>6. NoEventLost'
      BY <2>2, <2>3, NotLostStep DEF IInv
    <2>7. QED
      BY <1>0, <2>2, <2>3, <2>4, <2>5, <2>6 DEF IInv, MarkAfterDelivery, ParkedAfterMaxRetries
  <1>4. ASSUME NEW w \in Workers, NEW r \in Rows, MoveToDlq(w, r) PROVE IInv'
    <2>1. r \in batch[w] /\ phase[w] = "next" /\ retry[r] >= MaxRetries
      BY <1>0, <1>4 DEF MoveToDlq, NextInBatch, IInv, SeenNotAhead, TypeOK
    <2>2. \A q \in Rows : retry[q] <= retry'[q]
      BY <1>0, <1>4 DEF MoveToDlq, TypeOK
    <2>3. QED
      BY <1>0, <1>4, <2>1, <2>2, FinishStep DEF MoveToDlq
  <1>5. ASSUME NEW w \in Workers, NEW r \in Rows, MoveToDlqFails(w, r) PROVE IInv'
    <2>1. r \in batch[w] /\ phase[w] = "next"
      BY <1>5 DEF MoveToDlqFails, NextInBatch
    <2>2. \A q \in Rows : retry[q] <= retry'[q]
      BY <1>0, <1>5 DEF MoveToDlqFails, TypeOK
    <2>3. QED
      BY <1>0, <1>5, <2>1, <2>2, FinishStep DEF MoveToDlqFails
  <1>6. ASSUME NEW w \in Workers, NEW r \in Rows,
               PublishAcked(w, r) \/ PublishFails(w, r) \/ PublishTimesOut(w, r)
        PROVE IInv'
    BY <1>0, <1>6, PublishStep DEF PublishAcked, PublishFails, PublishTimesOut
  <1>7. ASSUME NEW w \in Workers, MarkPublished(w) PROVE IInv'
    <2>1. cur[w] \in batch[w] /\ cur[w] \in Delivered
      BY <1>7 DEF MarkPublished, IInv, RefsValid, MarkAfterDelivery
    <2>2. \A q \in Rows : retry[q] <= retry'[q]
      BY <1>0, <1>7 DEF MarkPublished, TypeOK
    <2>3. QED
      BY <1>0, <1>7, <2>1, <2>2, FinishStep DEF MarkPublished
  <1>8. ASSUME NEW w \in Workers, MarkPublishedFails(w) PROVE IInv'
    <2>1. UNCHANGED <<txn, rows, copyOf, published, retry, dlq, kafka, batch, seen, cur>>
      BY <1>8 DEF MarkPublishedFails
    <2>2. Committed' = Committed /\ Delivered' = Delivered
      BY <2>1, DerivedUnchanged
    <2>3. \A v \in Workers : phase'[v] = IF v = w THEN "fail" ELSE phase[v]
      BY <1>0, <1>8 DEF MarkPublishedFails, TypeOK
    <2>4. phase[w] = "mark"
      BY <1>8 DEF MarkPublishedFails
    <2>5. RefsValid' /\ MarkAfterDelivery'
      BY <2>1, <2>2, <2>3, <2>4 DEF IInv, RefsValid, MarkAfterDelivery
    <2>6. NoEventLost' /\ SeenNotAhead' /\ ParkedAfterMaxRetries'
      BY <2>1, <2>2, NotLostStep DEF IInv, SeenNotAhead, ParkedAfterMaxRetries
    <2>7. QED
      BY <1>0, <2>5, <2>6 DEF IInv
  <1>9. ASSUME NEW w \in Workers, MarkFailed(w) \/ MarkFailedFails(w) PROVE IInv'
    <2>1. cur[w] \in batch[w]
      BY <1>9 DEF MarkFailed, MarkFailedFails, IInv, RefsValid
    <2>2. \A q \in Rows : retry[q] <= retry'[q]
      <3>1. retry \in [Rows -> Nat]
        BY <1>0 DEF TypeOK
      <3>2. retry' \in {retry, [retry EXCEPT ![cur[w]] = @ + 1]}
        BY <1>9 DEF MarkFailed, MarkFailedFails
      <3>3. QED
        BY <3>1, <3>2
    <2>3. QED
      BY <1>0, <1>9, <2>1, <2>2, FinishStep DEF MarkFailed, MarkFailedFails
  <1>10. ASSUME NEW w \in Workers, Crash(w) PROVE IInv'
    <2>1. UNCHANGED <<txn, rows, copyOf, published, retry, dlq, kafka>>
      BY <1>10 DEF Crash
    <2>2. Committed' = Committed /\ Delivered' = Delivered
      BY <2>1, DerivedUnchanged
    <2>3. \A v \in Workers : /\ batch'[v] = IF v = w THEN {} ELSE batch[v]
                             /\ phase'[v] = IF v = w THEN "next" ELSE phase[v]
                             /\ v # w => cur'[v] = cur[v] /\ seen'[v] = seen[v]
      BY <1>0, <1>10 DEF Crash, TypeOK
    <2>4. RefsValid' /\ MarkAfterDelivery' /\ SeenNotAhead'
      BY <2>1, <2>2, <2>3 DEF IInv, RefsValid, MarkAfterDelivery, SeenNotAhead
    <2>5. NoEventLost' /\ ParkedAfterMaxRetries'
      BY <2>1, <2>2, NotLostStep DEF IInv, ParkedAfterMaxRetries
    <2>6. QED
      BY <1>0, <2>4, <2>5 DEF IInv
  <1>11. ASSUME NEW S \in SUBSET dlq, NEW fresh \in [S -> ReplayRows], ReplayInto(S, fresh)
         PROVE  IInv'
    BY <1>0, <1>11, ReplayStep
  <1>12. CASE UNCHANGED vars
    BY <1>0, <1>12 DEF vars, IInv, RefsValid, MarkAfterDelivery, SeenNotAhead,
       ParkedAfterMaxRetries, NoEventLost, EventsIn, Pending, Committed, Delivered
  <1>13. QED
    BY <1>1, <1>2, <1>3, <1>4, <1>5, <1>6, <1>7, <1>8, <1>9, <1>10, <1>11, <1>12, NextCases

\* The initial outbox is empty: the invariant holds trivially.
LEMMA IInvInit == Init => IInv
  BY DEF Init, IInv, TypeOK, RefsValid, MarkAfterDelivery, SeenNotAhead, ParkedAfterMaxRetries,
     NoEventLost, Committed, Delivered, EventsIn, Pending

\* The inductive invariant holds in every reachable state.
THEOREM IInvCorrect == Spec => []IInv
  BY IInvInit, IInvStep, PTL DEF Spec

\* No committed event is lost, for any number of replicas, crashes, failed
\* statements and replays.
THEOREM NoEventLostCorrect == Spec => []NoEventLost
  BY IInvCorrect, PTL DEF IInv

\* Only rows with MaxRetries recorded failures are in the dead-letter queue.
THEOREM ParkedCorrect == Spec => []ParkedAfterMaxRetries
  BY IInvCorrect, PTL DEF IInv

\* Nothing of an uncommitted transaction leaves the outbox.
THEOREM OnlyCommittedCorrect == Spec => []OnlyCommittedLeaves
  <1>1. IInv => OnlyCommittedLeaves
    BY DEF IInv, RefsValid, OnlyCommittedLeaves, EventsIn
  <1>2. QED
    BY <1>1, IInvCorrect, PTL

-----------------------------------------------------------------------------
(* Settled rows.                                                           *)

\* A replayed row reappears in the outbox in the step that takes it out of
\* the dead-letter queue: its copy is new, and so cannot be published yet.
LEMMA ReplayReopens ==
  ASSUME IInv, NEW S \in SUBSET dlq, NEW fresh \in [S -> ReplayRows], ReplayInto(S, fresh),
         NEW r \in S
  PROVE  copyOf[r] \in {copyOf'[n] : n \in Pending' \ rows}
  <1> DEFINE new == {fresh[q] : q \in S}
             source(n) == CHOOSE q \in S : fresh[q] = n
  <1>1. fresh[r] \in new /\ fresh[r] \in Rows /\ fresh[r] \notin rows
    BY DEF ReplayInto, Rows
  <1>2. source(fresh[r]) = r
    <2>1. source(fresh[r]) \in S /\ fresh[source(fresh[r])] = fresh[r]
      OBVIOUS
    <2>2. QED
      BY <2>1 DEF ReplayInto
  <1>3. rows' = rows \cup new /\ published' = published
    BY DEF ReplayInto
  <1>4. copyOf' = [n \in Rows |-> IF n \in new THEN copyOf[source(n)] ELSE copyOf[n]]
    BY DEF ReplayInto
  <1> HIDE DEF new, source
  <1>5. copyOf'[fresh[r]] = copyOf[r]
    BY <1>1, <1>2, <1>4
  <1>6. fresh[r] \in Pending' \ rows
    BY <1>1, <1>3 DEF Pending, IInv, RefsValid
  <1>7. QED
    BY <1>5, <1>6

\* What SettledForGood says of one step.
StaysSettled ==
  /\ published \subseteq published'
  /\ \A w \in Workers : batch[w] = {} => batch'[w] \cap published = {}
  /\ \A r \in dlq \ dlq' : copyOf[r] \in {copyOf'[n] : n \in Pending' \ rows}

\* A poll fetches pending rows only, and every other step leaves an empty
\* batch empty; no step but a replay takes a row out of the queue.
LEMMA SettledStep == ASSUME IInv, [Next]_vars PROVE StaysSettled
  <1> USE DEF StaysSettled, txnVars, rowVars, relayVars
  <1> TypeOK
    BY DEF IInv
  <1>1. ASSUME NEW t \in Txns, Begin(t) \/ Commit(t) \/ Rollback(t) PROVE StaysSettled
    BY <1>1 DEF Begin, Commit, Rollback
  <1>2. ASSUME NEW w \in Workers, FetchUnpublished(w) PROVE StaysSettled
    BY <1>2 DEF FetchUnpublished, Pending, TypeOK
  <1>3. ASSUME NEW w \in Workers, NEW r \in Rows, MoveToDlq(w, r) \/ MoveToDlqFails(w, r)
        PROVE  StaysSettled
    BY <1>3 DEF MoveToDlq, MoveToDlqFails, Done, TypeOK
  <1>4. ASSUME NEW w \in Workers, NEW r \in Rows,
               PublishAcked(w, r) \/ PublishFails(w, r) \/ PublishTimesOut(w, r)
        PROVE  StaysSettled
    BY <1>4 DEF PublishAcked, PublishFails, PublishTimesOut, PublishTo
  <1>5. ASSUME NEW w \in Workers,
               MarkPublished(w) \/ MarkPublishedFails(w) \/ MarkFailed(w) \/ MarkFailedFails(w)
        PROVE  StaysSettled
    <2>1. published \subseteq published' /\ dlq' = dlq
      BY <1>5 DEF MarkPublished, MarkPublishedFails, MarkFailed, MarkFailedFails
    <2>2. batch' = [batch EXCEPT ![w] = @ \ {cur[w]}] \/ batch' = batch
      BY <1>5 DEF MarkPublished, MarkPublishedFails, MarkFailed, MarkFailedFails, Done
    <2>3. batch \in [Workers -> SUBSET Rows]
      BY DEF TypeOK
    <2>4. \A v \in Workers : batch'[v] \subseteq batch[v]
      BY <2>2, <2>3
    <2> QED
      BY <2>1, <2>4
  <1>6. ASSUME NEW w \in Workers, Crash(w) PROVE StaysSettled
    BY <1>6 DEF Crash, TypeOK
  <1>7. ASSUME NEW S \in SUBSET dlq, NEW fresh \in [S -> ReplayRows], ReplayInto(S, fresh)
        PROVE  StaysSettled
    <2>1. dlq \ dlq' \subseteq S /\ published' = published /\ batch' = batch
      BY <1>7 DEF ReplayInto
    <2>2. \A r \in S : copyOf[r] \in {copyOf'[n] : n \in Pending' \ rows}
      BY <1>7, ReplayReopens
    <2>3. QED
      BY <2>1, <2>2
  <1>8. CASE UNCHANGED vars
    BY <1>8 DEF vars
  <1>9. QED
    BY <1>1, <1>2, <1>3, <1>4, <1>5, <1>6, <1>7, <1>8, NextCases

\* Whatever replicas work with stale batches, a published or parked row is
\* never taken up by a later poll, and a parked one leaves the dead-letter
\* queue only for the outbox.
THEOREM SettledCorrect == Spec => SettledForGood
  <1>1. IInv /\ [Next]_vars => [StaysSettled]_vars
    BY SettledStep
  <1>2. QED
    BY <1>1, IInvCorrect, PTL DEF Spec, SettledForGood, StaysSettled

-----------------------------------------------------------------------------
(* The relay implements EventDelivery.                                     *)

\* Two rows may carry one event, so that settling a row discharges its event
\* or changes nothing that EventDelivery sees.
LEMMA SettleOpen ==
  ASSUME NEW r, rows' = rows, copyOf' = copyOf, published' = published \cup {r}
  PROVE  \/ EventsIn(Pending)' = EventsIn(Pending)
         \/ /\ EventsIn(Pending)' = EventsIn(Pending) \ {copyOf[r]}
            /\ copyOf[r] \in EventsIn(Pending)
  <1>1. Pending' = Pending \ {r}
    BY DEF Pending
  <1>2. CASE \E q \in Pending \ {r} : copyOf[q] = copyOf[r]
    BY <1>1, <1>2 DEF EventsIn
  <1>3. CASE ~ \E q \in Pending \ {r} : copyOf[q] = copyOf[r]
    <2>1. EventsIn(Pending)' = EventsIn(Pending) \ {copyOf[r]}
      BY <1>1, <1>3 DEF EventsIn
    <2>2. CASE r \in Pending
      BY <2>1, <2>2 DEF EventsIn
    <2>3. CASE r \notin Pending
      BY <1>1, <2>3 DEF EventsIn
    <2>4. QED
      BY <2>2, <2>3
  <1>4. QED
    BY <1>2, <1>3

\* An event with a row is known to EventDelivery: open, delivered or dead.
LEMMA RowKnown ==
  ASSUME IInv, NEW r \in rows
  PROVE  /\ copyOf[r] \in Events
         /\ copyOf[r] \in EventsIn(Pending) \cup EventsIn(Delivered) \cup EventsIn(dlq)
  BY DEF IInv, RefsValid, NoEventLost, Committed

\* The event of a row that Kafka receives is delivered.
LEMMA DeliverEvents ==
  ASSUME IInv, NEW r \in rows, kafka' = Append(kafka, r), copyOf' = copyOf
  PROVE  EventsIn(Delivered)' = EventsIn(Delivered) \cup {copyOf[r]}
  <1>1. r \in Rows
    BY DEF IInv, TypeOK
  <1>2. Delivered' = Delivered \cup {r}
    BY <1>1, AppendDelivered DEF IInv
  <1>3. QED
    BY <1>2 DEF EventsIn

\* Every step of the relay is a step of EventDelivery or a stutter.
LEMMA RefinementStep == IInv /\ IInv' /\ [Next]_vars => [ED!Next]_(ED!vars)
  <1> SUFFICES ASSUME IInv, IInv', [Next]_vars PROVE [ED!Next]_(ED!vars)
    OBVIOUS
  <1> USE DEF txnVars, rowVars, relayVars
  <1>0. TypeOK /\ rows \subseteq Rows
    BY DEF IInv, TypeOK
  <1>1. ASSUME UNCHANGED <<rows, copyOf, published, dlq, kafka>> PROVE UNCHANGED ED!vars
    BY <1>1 DEF ED!vars, EventsIn, Pending, Delivered
  <1>2. ASSUME NEW t \in Txns, Commit(t) PROVE ED!Next
    <2>1. EventsOf[t] \cap rows = {}
      BY <1>2, UncommittedHasNoRow DEF IInv, Commit
    <2>2. rows' = rows \cup EventsOf[t] /\ EventsOf[t] \in SUBSET Events /\ Events \subseteq Rows
      BY <1>2 DEF Commit, Rows
    <2>3. /\ \A r \in rows : copyOf'[r] = copyOf[r]
          /\ \A r \in EventsOf[t] : copyOf'[r] = r
      BY <1>0, <1>2, <2>1, <2>2 DEF Commit, TypeOK
    <2>4. UNCHANGED <<published, dlq, kafka>> /\ Delivered' = Delivered
      BY <1>2, DerivedUnchanged DEF Commit
    <2>5. published \subseteq rows /\ dlq \subseteq rows /\ Delivered \subseteq rows
      BY DEF IInv, RefsValid
    <2>6. Pending' = Pending \cup EventsOf[t] /\ Pending \subseteq rows
      BY <2>1, <2>2, <2>4, <2>5 DEF Pending
    <2>7. EventsIn(Pending)' = EventsIn(Pending) \cup EventsOf[t]
      BY <2>3, <2>6 DEF EventsIn
    <2>8. EventsIn(Delivered)' = EventsIn(Delivered) /\ EventsIn(dlq)' = EventsIn(dlq)
      BY <2>3, <2>4, <2>5 DEF EventsIn
    <2>9. QED
      BY <2>2, <2>7, <2>8 DEF ED!Next, ED!Commit
  <1>3. ASSUME NEW w \in Workers, NEW r \in Rows, MoveToDlq(w, r) PROVE ED!Next
    <2>1. r \in rows
      BY <1>3 DEF MoveToDlq, NextInBatch, IInv, RefsValid
    <2>2. EventsIn(dlq)' = EventsIn(dlq) \cup {copyOf[r]}
      BY <1>3 DEF MoveToDlq, EventsIn
    <2>3. EventsIn(Delivered)' = EventsIn(Delivered)
      BY <1>3 DEF MoveToDlq, EventsIn, Delivered
    <2>4. EventsIn(Pending)' \in {EventsIn(Pending), EventsIn(Pending) \ {copyOf[r]}}
      BY <1>3, SettleOpen DEF MoveToDlq
    <2>5. QED
      BY <2>1, <2>2, <2>3, <2>4, RowKnown DEF ED!Next, ED!Bury
  <1>4. ASSUME NEW w \in Workers, NEW r \in Rows, NEW next, PublishTo(w, r, next),
               kafka' = Append(kafka, r)
        PROVE ED!Next
    <2>1. r \in rows
      BY <1>4 DEF PublishTo, NextInBatch, IInv, RefsValid
    <2>2. EventsIn(Delivered)' = EventsIn(Delivered) \cup {copyOf[r]}
      BY <1>4, <2>1, DeliverEvents DEF PublishTo
    <2>3. EventsIn(Pending)' = EventsIn(Pending) /\ EventsIn(dlq)' = EventsIn(dlq)
      BY <1>4 DEF PublishTo, EventsIn, Pending
    <2>4. QED
      BY <2>1, <2>2, <2>3, RowKnown DEF ED!Next, ED!Deliver
  <1>5. ASSUME NEW w \in Workers, MarkPublished(w) PROVE [ED!Next]_(ED!vars)
    <2>1. cur[w] \in Delivered /\ cur[w] \in rows
      BY <1>5 DEF MarkPublished, IInv, RefsValid, MarkAfterDelivery
    <2>2. UNCHANGED <<EventsIn(dlq), EventsIn(Delivered)>>
      BY <1>5 DEF MarkPublished, EventsIn, Delivered
    <2>3. copyOf[cur[w]] \in EventsIn(Delivered) /\ copyOf[cur[w]] \in Events
      BY <2>1, RowKnown DEF EventsIn
    <2>4. CASE EventsIn(Pending)' = EventsIn(Pending)
      BY <2>2, <2>4 DEF ED!vars
    <2>5. CASE /\ EventsIn(Pending)' = EventsIn(Pending) \ {copyOf[cur[w]]}
               /\ copyOf[cur[w]] \in EventsIn(Pending)
      BY <2>2, <2>3, <2>5 DEF ED!Next, ED!Discharge
    <2>6. QED
      BY <1>5, <2>4, <2>5, SettleOpen DEF MarkPublished
  <1>6. ASSUME NEW S \in SUBSET dlq, NEW fresh \in [S -> ReplayRows], ReplayInto(S, fresh)
        PROVE  ED!Next
    <2> DEFINE new == {fresh[r] : r \in S}
               source(n) == CHOOSE r \in S : fresh[r] = n
               back == {copyOf[r] : r \in S}
    <2>1. \A n \in new : source(n) \in S /\ fresh[source(n)] = n
      OBVIOUS
    <2>2. rows' = rows \cup new /\ new \subseteq ReplayRows \ rows /\ S \subseteq rows
      BY <1>6 DEF ReplayInto, IInv, RefsValid
    <2>3. copyOf' = [n \in Rows |-> IF n \in new THEN copyOf[source(n)] ELSE copyOf[n]]
      BY <1>6 DEF ReplayInto
    <2>4. \A r \in S : fresh[r] \in new /\ source(fresh[r]) = r
      <3> SUFFICES ASSUME NEW r \in S PROVE fresh[r] \in new /\ source(fresh[r]) = r
        OBVIOUS
      <3>1. fresh[r] \in new
        OBVIOUS
      <3>2. source(fresh[r]) \in S /\ fresh[source(fresh[r])] = fresh[r]
        BY <2>1, <3>1
      <3>3. QED
        BY <1>6, <3>1, <3>2 DEF ReplayInto
    <2>5. dlq' = dlq \ S /\ UNCHANGED <<published, kafka>> /\ Delivered' = Delivered
      BY <1>6, DerivedUnchanged DEF ReplayInto
    <2>6. back \in SUBSET Events /\ back \subseteq EventsIn(dlq)
      BY <2>2, RowKnown DEF EventsIn
    <2> HIDE DEF new, source
    <2>7. /\ \A r \in rows : copyOf'[r] = copyOf[r]
          /\ \A n \in new : copyOf'[n] = copyOf[source(n)]
          /\ \A r \in S : copyOf'[fresh[r]] = copyOf[r]
      BY <1>0, <2>2, <2>3, <2>4 DEF Rows
    <2>8. published \subseteq rows /\ dlq \subseteq rows /\ Delivered \subseteq rows
      BY DEF IInv, RefsValid
    <2>9. Pending' = Pending \cup new /\ Pending \subseteq rows
      BY <2>2, <2>5, <2>8 DEF Pending
    <2>10. {copyOf'[n] : n \in new} = back
      BY <2>1, <2>4, <2>7
    <2>11. EventsIn(Pending)' = EventsIn(Pending) \cup back
      BY <2>7, <2>9, <2>10 DEF EventsIn
    <2>12. EventsIn(Delivered)' = EventsIn(Delivered)
      BY <2>5, <2>7, <2>8 DEF EventsIn
    <2>13. \E T \in SUBSET back : EventsIn(dlq)' = EventsIn(dlq) \ T
      <3>1. EventsIn(dlq)' = {copyOf[r] : r \in dlq \ S}
        BY <2>5, <2>7, <2>8 DEF EventsIn
      <3>2. EventsIn(dlq) \ {copyOf[r] : r \in dlq \ S} \in SUBSET back
        BY DEF EventsIn
      <3>3. EventsIn(dlq)' = EventsIn(dlq) \ (EventsIn(dlq) \ {copyOf[r] : r \in dlq \ S})
        BY <3>1 DEF EventsIn
      <3>4. QED
        BY <3>2, <3>3
    <2> HIDE DEF back
    <2>14. QED
      BY <2>6, <2>11, <2>12, <2>13 DEF ED!Next, ED!Revive
  <1>7. QED
    BY <1>1, <1>2, <1>3, <1>4, <1>5, <1>6, NextCases
    DEF Begin, Rollback, FetchUnpublished, MoveToDlqFails, PublishAcked, PublishFails,
        PublishTimesOut, PublishTo, MarkPublishedFails, MarkFailed, MarkFailedFails, Crash, vars

\* The relay implements at-least-once delivery with a dead-letter queue.
THEOREM Refinement == Spec => ImplementsEventDelivery
  <1>1. Init => ED!Init
    BY DEF Init, ED!Init, EventsIn, Pending, Delivered
  <1>2. QED
    BY <1>1, RefinementStep, IInvCorrect, PTL DEF Spec, ED!Spec, ImplementsEventDelivery

=============================================================================
