---------------------------- MODULE OutboxRelay ----------------------------
(***************************************************************************)
(* The transactional outbox and its relay.                                 *)
(*                                                                         *)
(* Producers (mdm-core, through shared/database UnitOfWork) insert the     *)
(* events of a transaction into event_store.outbox_events in that same     *)
(* transaction.  The replicas of kafka-event-service poll the table, send  *)
(* each row to Kafka and mark it published; a row whose publication failed *)
(* MaxRetries times is moved to event_store.outbox_dlq, from where an      *)
(* operator can replay it as a new row.                                    *)
(*                                                                         *)
(* One action is one statement or one network call of a replica: a replica *)
(* may stop between any two of them, and replicas interleave.  The SELECT  *)
(* ... FOR UPDATE SKIP LOCKED of a poll runs outside a transaction, so its *)
(* row locks are gone when the rows are processed; it may hide rows that   *)
(* a statement of another replica has locked at that moment.               *)
(*                                                                         *)
(* A definition introduced as a DEFECT is not part of the model: it is the *)
(* definition after it with a plausible bug, which a property must reveal. *)
(***************************************************************************)
EXTENDS Naturals, Sequences, FiniteSets

CONSTANTS
  Txns,          \* business transactions
  Events,        \* domain events
  EventsOf,      \* EventsOf[t]: the events that transaction t adds
  ReplayRows,    \* row ids that a replay may draw with gen_random_uuid()
  Workers,       \* replicas of kafka-event-service, one relay worker each
  MaxRetries,    \* MAX_RETRIES of poller.rs
  BatchLimit,    \* LIMIT of the polling query
  Faults,        \* the kinds of faults the environment may produce
  MaxFaults,     \* bound on crashes, database errors and ambiguous timeouts
  None           \* no row

ASSUME OutboxAssumption ==
  /\ EventsOf \in [Txns -> SUBSET Events]
  /\ \A s, t \in Txns : s # t => EventsOf[s] \cap EventsOf[t] = {}
  /\ ReplayRows \cap Events = {}
  /\ None \notin Events \cup ReplayRows
  /\ MaxRetries \in Nat
  /\ BatchLimit \in Nat \ {0}
  /\ Faults \subseteq {"crash", "db", "timeout", "kafka"}
  /\ MaxFaults \in Nat

Rows == Events \cup ReplayRows      \* event_id: the first row of an event, or a replayed one

VARIABLES
  txn,           \* txn[t]: "idle", "open", "committed" or "aborted"
  startedAt,     \* startedAt[t]: NOW() of the transaction
  clock,         \* orders the values of NOW()
  rows,          \* the rows of outbox_events
  copyOf,        \* copyOf[r]: the event whose payload row r carries
  created,       \* created[r]: created_at
  published,     \* rows with published = TRUE
  retry,         \* retry[r]: retry_count
  dlq,           \* event_ids of the rows of outbox_dlq
  kafka,         \* the messages that the broker has appended, as rows
  batch,         \* batch[w]: rows fetched by w and not processed yet
  seen,          \* seen[w][r]: retry_count of r in batch[w] when w fetched it
  phase,         \* phase[w]: "next", "mark" or "fail"
  cur,           \* cur[w]: the row being published
  faults         \* faults that have happened

txnVars == <<txn, startedAt>>
rowVars == <<rows, copyOf, created>>
relayVars == <<batch, seen, phase, cur>>
vars == <<txnVars, clock, rowVars, published, retry, dlq, kafka, relayVars, faults>>

Delivered == {kafka[i] : i \in DOMAIN kafka}

TypeOK ==
  /\ txn \in [Txns -> {"idle", "open", "committed", "aborted"}]
  /\ startedAt \in [Txns -> Nat]
  /\ clock \in Nat
  /\ rows \subseteq Rows
  /\ copyOf \in [Rows -> Events \cup {None}]
  /\ created \in [Rows -> Nat]
  /\ published \subseteq Rows
  /\ retry \in [Rows -> Nat]
  /\ dlq \subseteq Rows
  /\ kafka \in Seq(Rows)
  /\ batch \in [Workers -> SUBSET Rows]
  /\ seen \in [Workers -> [Rows -> Nat]]
  /\ phase \in [Workers -> {"next", "mark", "fail"}]
  /\ cur \in [Workers -> Rows \cup {None}]
  /\ \A w \in Workers : phase[w] # "next" => cur[w] \in Rows
  /\ faults \in 0..MaxFaults

Init ==
  /\ txn = [t \in Txns |-> "idle"]
  /\ startedAt = [t \in Txns |-> 0]
  /\ clock = 0
  /\ rows = {}
  /\ copyOf = [r \in Rows |-> None]
  /\ created = [r \in Rows |-> 0]
  /\ published = {}
  /\ retry = [r \in Rows |-> 0]
  /\ dlq = {}
  /\ kafka = <<>>
  /\ batch = [w \in Workers |-> {}]
  /\ seen = [w \in Workers |-> [r \in Rows |-> 0]]
  /\ phase = [w \in Workers |-> "next"]
  /\ cur = [w \in Workers |-> None]
  /\ faults = 0

Fault(kind) ==
  /\ kind \in Faults
  /\ faults < MaxFaults
  /\ faults' = faults + 1

-----------------------------------------------------------------------------
(* Producers: UnitOfWork of shared/database.                               *)

\* A unit of work opens its transaction; NOW() is the same in all of it.
Begin(t) ==
  /\ txn[t] = "idle"
  /\ txn' = [txn EXCEPT ![t] = "open"]
  /\ startedAt' = [startedAt EXCEPT ![t] = clock]
  /\ clock' = clock + 1
  /\ UNCHANGED <<rowVars, published, retry, dlq, kafka, relayVars, faults>>

\* persist_events inserts a row for each queued event, with the defaults
\* published = FALSE, retry_count = 0, created_at = NOW(); then the commit
\* makes them visible together.
Commit(t) ==
  /\ txn[t] = "open"
  /\ txn' = [txn EXCEPT ![t] = "committed"]
  /\ rows' = rows \cup EventsOf[t]
  /\ copyOf' = [r \in Rows |-> IF r \in EventsOf[t] THEN r ELSE copyOf[r]]
  /\ created' = [r \in Rows |-> IF r \in EventsOf[t] THEN startedAt[t] ELSE created[r]]
  /\ UNCHANGED <<startedAt, clock, published, retry, dlq, kafka, relayVars, faults>>

\* rollback, an error of a statement, or a crash of the producer.
Rollback(t) ==
  /\ txn[t] = "open"
  /\ txn' = [txn EXCEPT ![t] = "aborted"]
  /\ UNCHANGED <<startedAt, clock, rowVars, published, retry, dlq, kafka, relayVars, faults>>

-----------------------------------------------------------------------------
(* The relay worker: poll_outbox of kafka-event-service.                   *)

\* WHERE published = false
Pending == rows \ published

\* S is a result of ORDER BY created_at ASC LIMIT BatchLimit over V.
OldestOf(S, V) ==
  /\ S \subseteq V
  /\ \A r \in S, q \in V \ S : created[r] <= created[q]
  /\ Cardinality(S) <= BatchLimit
  /\ S # V => Cardinality(S) = BatchLimit

\* Rows that SKIP LOCKED may hide from w: another replica holds them.
Lockable(w) == UNION {batch[v] : v \in Workers \ {w}}

\* fetch_unpublished_events: w takes a batch with the retry counts of now.
FetchUnpublished(w) ==
  /\ batch[w] = {}
  /\ \E locked \in SUBSET (Pending \cap Lockable(w)) :
     \E S \in SUBSET (Pending \ locked) :
       /\ S # {}
       /\ OldestOf(S, Pending \ locked)
       /\ batch' = [batch EXCEPT ![w] = S]
       /\ seen' = [seen EXCEPT ![w] = [r \in Rows |-> IF r \in S THEN retry[r] ELSE 0]]
  /\ UNCHANGED <<txnVars, clock, rowVars, published, retry, dlq, kafka, phase, cur, faults>>

\* The loop takes the rows of the batch in the order of created_at; rows of
\* one transaction have the same created_at, and any order.
NextInBatch(w, r) ==
  /\ phase[w] = "next"
  /\ r \in batch[w]
  /\ \A q \in batch[w] : created[r] <= created[q]

\* The row is done with: the loop goes on with the rest of the batch.
Done(w, r) ==
  /\ batch' = [batch EXCEPT ![w] = @ \ {r}]
  /\ phase' = [phase EXCEPT ![w] = "next"]
  /\ cur' = [cur EXCEPT ![w] = None]
  /\ seen' = [seen EXCEPT ![w][r] = 0]

\* DEFECT: the attempt number is compared instead of the retry count.
MoveToDlqOneEarly(w, r) ==
  /\ NextInBatch(w, r)
  /\ seen[w][r] + 1 >= MaxRetries
  /\ dlq' = dlq \cup {r}
  /\ published' = published \cup {r}
  /\ Done(w, r)
  /\ UNCHANGED <<txnVars, clock, rowVars, retry, kafka, faults>>

\* DEFECT: the row is closed without being copied to the dead-letter queue.
MoveToDlqWithoutCopy(w, r) ==
  /\ NextInBatch(w, r)
  /\ seen[w][r] >= MaxRetries
  /\ published' = published \cup {r}
  /\ Done(w, r)
  /\ UNCHANGED <<txnVars, clock, rowVars, retry, dlq, kafka, faults>>

\* move_to_dlq: one transaction copies the row (ON CONFLICT DO NOTHING) and
\* sets published = TRUE.
MoveToDlq(w, r) ==
  /\ NextInBatch(w, r)
  /\ seen[w][r] >= MaxRetries
  /\ dlq' = dlq \cup {r}
  /\ published' = published \cup {r}
  /\ Done(w, r)
  /\ UNCHANGED <<txnVars, clock, rowVars, retry, kafka, faults>>

\* move_to_dlq fails: the error is logged and the loop continues.
MoveToDlqFails(w, r) ==
  /\ NextInBatch(w, r)
  /\ seen[w][r] >= MaxRetries
  /\ Fault("db")
  /\ Done(w, r)
  /\ UNCHANGED <<txnVars, clock, rowVars, published, retry, dlq, kafka>>

\* publish_event: what the broker does and what the producer is told.
PublishTo(w, r, next) ==
  /\ NextInBatch(w, r)
  /\ seen[w][r] < MaxRetries
  /\ phase' = [phase EXCEPT ![w] = next]
  /\ cur' = [cur EXCEPT ![w] = r]
  /\ UNCHANGED <<txnVars, clock, rowVars, published, retry, dlq, batch, seen>>

\* The message is appended and acknowledged by all in-sync replicas.
PublishAcked(w, r) ==
  /\ PublishTo(w, r, "mark")
  /\ kafka' = Append(kafka, r)
  /\ UNCHANGED faults

\* DEFECT: the delivery result is ignored.
PublishFailsUnnoticed(w, r) ==
  /\ "kafka" \in Faults
  /\ PublishTo(w, r, "mark")
  /\ UNCHANGED <<kafka, faults>>

\* The message is not appended.
PublishFails(w, r) ==
  /\ "kafka" \in Faults
  /\ PublishTo(w, r, "fail")
  /\ UNCHANGED <<kafka, faults>>

\* message.timeout.ms elapses although the broker has appended the message.
PublishTimesOut(w, r) ==
  /\ Fault("timeout")
  /\ PublishTo(w, r, "fail")
  /\ kafka' = Append(kafka, r)

\* mark_event_published, by publish_outbox_event and again by poll_outbox.
MarkPublished(w) ==
  /\ phase[w] = "mark"
  /\ published' = published \cup {cur[w]}
  /\ Done(w, cur[w])
  /\ UNCHANGED <<txnVars, clock, rowVars, retry, dlq, kafka, faults>>

\* mark_event_published fails in publish_outbox_event, which then returns
\* an error although the message has been delivered.
MarkPublishedFails(w) ==
  /\ phase[w] = "mark"
  /\ Fault("db")
  /\ phase' = [phase EXCEPT ![w] = "fail"]
  /\ UNCHANGED <<txnVars, clock, rowVars, published, retry, dlq, kafka, batch, seen, cur>>

\* DEFECT: retry_count is not incremented.
MarkFailedUncounted(w) ==
  /\ phase[w] = "fail"
  /\ Done(w, cur[w])
  /\ UNCHANGED <<txnVars, clock, rowVars, published, retry, dlq, kafka, faults>>

\* DEFECT: a failure reopens the row although another replica settled it.
MarkFailedReopens(w) ==
  /\ phase[w] = "fail"
  /\ retry' = [retry EXCEPT ![cur[w]] = @ + 1]
  /\ published' = published \ {cur[w]}
  /\ Done(w, cur[w])
  /\ UNCHANGED <<txnVars, clock, rowVars, dlq, kafka, faults>>

\* mark_event_failed
MarkFailed(w) ==
  /\ phase[w] = "fail"
  /\ retry' = [retry EXCEPT ![cur[w]] = @ + 1]
  /\ Done(w, cur[w])
  /\ UNCHANGED <<txnVars, clock, rowVars, published, dlq, kafka, faults>>

\* mark_event_failed fails: the error is logged and the loop continues.
MarkFailedFails(w) ==
  /\ phase[w] = "fail"
  /\ Fault("db")
  /\ Done(w, cur[w])
  /\ UNCHANGED <<txnVars, clock, rowVars, published, retry, dlq, kafka>>

\* The replica stops (ctrl_c, eviction, panic); its successor polls anew.
Crash(w) ==
  /\ batch[w] # {}
  /\ Fault("crash")
  /\ batch' = [batch EXCEPT ![w] = {}]
  /\ phase' = [phase EXCEPT ![w] = "next"]
  /\ cur' = [cur EXCEPT ![w] = None]
  /\ seen' = [seen EXCEPT ![w] = [r \in Rows |-> 0]]
  /\ UNCHANGED <<txnVars, clock, rowVars, published, retry, dlq, kafka>>

-----------------------------------------------------------------------------
(* The operator: kafka/dlq.rs.                                             *)

\* The rows of S leave the dead-letter queue and each comes back as a new
\* row with the same payload, retry_count = 0 and created_at = NOW().
\* fresh[r] is the event_id that gen_random_uuid() gives the copy of r.
ReplayInto(S, fresh) ==
  /\ S # {}
  /\ \A r \in S : fresh[r] \in ReplayRows \ rows
  /\ \A q, r \in S : q # r => fresh[q] # fresh[r]
  /\ LET new == {fresh[r] : r \in S}
         source(n) == CHOOSE r \in S : fresh[r] = n
     IN  /\ rows' = rows \cup new
         /\ copyOf' = [n \in Rows |-> IF n \in new THEN copyOf[source(n)] ELSE copyOf[n]]
         /\ created' = [n \in Rows |-> IF n \in new THEN clock ELSE created[n]]
  /\ dlq' = dlq \ S
  /\ clock' = clock + 1
  /\ UNCHANGED <<txnVars, published, retry, kafka, relayVars, faults>>

\* replay_dlq_event
ReplayDlqEvent(r) ==
  /\ r \in dlq
  /\ \E n \in ReplayRows : ReplayInto({r}, [q \in {r} |-> n])

\* replay_all_dlq_events
ReplayAllDlqEvents ==
  \E fresh \in [dlq -> ReplayRows] : ReplayInto(dlq, fresh)

-----------------------------------------------------------------------------
Producer(t) == Begin(t) \/ Commit(t) \/ Rollback(t)

ProcessRow(w, r) ==
  \/ MoveToDlq(w, r) \/ MoveToDlqFails(w, r)
  \/ PublishAcked(w, r) \/ PublishFails(w, r) \/ PublishTimesOut(w, r)

Worker(w) ==
  \/ FetchUnpublished(w)
  \/ \E r \in Rows : ProcessRow(w, r)
  \/ MarkPublished(w) \/ MarkPublishedFails(w)
  \/ MarkFailed(w) \/ MarkFailedFails(w)

Operator == (\E r \in Rows : ReplayDlqEvent(r)) \/ ReplayAllDlqEvents

Next ==
  \/ \E t \in Txns : Producer(t)
  \/ \E w \in Workers : Worker(w) \/ Crash(w)
  \/ Operator

Spec == Init /\ [][Next]_vars

\* start_outbox_worker loops for ever and sleeps a bounded time between two
\* polls, and the orchestrator restarts a replica that stops: a worker with
\* something to do eventually does it.
Fairness == \A w \in Workers : WF_vars(Worker(w))

FairSpec == Spec /\ Fairness

-----------------------------------------------------------------------------
(* Properties.                                                             *)

Committed == UNION {EventsOf[t] : t \in {s \in Txns : txn[s] = "committed"}}
EventsIn(S) == {copyOf[r] : r \in S}

\* No committed event is ever lost: whatever replicas crash, statements fail
\* and operators replay, it is pending in the outbox, or Kafka has received
\* it, or it is parked in the dead-letter queue.
NoEventLost ==
  Committed \subseteq EventsIn(Pending) \cup EventsIn(Delivered) \cup EventsIn(dlq)

\* The retry count a replica decides on is the one it fetched, perhaps long
\* ago; still a row is parked only when MaxRetries failures of that row are
\* recorded in the table.
ParkedAfterMaxRetries == \A r \in dlq : retry[r] >= MaxRetries

\* Nothing of a transaction that has not committed reaches Kafka or the
\* dead-letter queue.
OnlyCommittedLeaves ==
  EventsIn(Delivered \cup dlq) \subseteq Committed

\* A row that the relay has settled is never taken up by a later poll, and
\* only the operator takes a row out of the dead-letter queue, which puts
\* its event back into the outbox in the same step.
SettledForGood ==
  [][/\ published \subseteq published'
     /\ \A w \in Workers : batch[w] = {} => batch'[w] \cap published = {}
     /\ \A r \in dlq \ dlq' : copyOf[r] \in {copyOf'[n] : n \in Pending' \ rows}]_vars

\* Every row is eventually settled, however often Kafka fails: a row that
\* cannot be published ends in the dead-letter queue and does not block the
\* rows behind it, even when a poll takes a single row.
RowsEventuallySettled == \A r \in Rows : r \in rows ~> r \in published

\* The relay implements at-least-once delivery.
ED == INSTANCE EventDelivery WITH
        open <- EventsIn(Pending), delivered <- EventsIn(Delivered), dead <- EventsIn(dlq)
ImplementsEventDelivery == ED!Spec
=============================================================================
