# Nexus AI MDM: a TLA+ model of the platform's moving parts

Nexus AI MDM is a master-data platform: ten Rust services around one PostgreSQL
database, Redis and Kafka. Most of what the services do is one SQL statement per
request. What can go wrong without a test noticing sits elsewhere: in the workers
that poll tables and queues from several replicas, in handlers that run several
statements outside a transaction, in atomics shared by concurrent requests. This
directory models those parts, checks them with TLC on small instances and proves
the main safety properties with TLAPS for every instance.

    tlasany OutboxRelay.tla                          parse
    tlc -config outbox.cfg MCOutboxRelay.tla         model-check
    tlapm OutboxRelayProofs.tla                      check the proofs

`PROJECT.json` lists the components, the runs, a mutant for each checked property,
the source lines of every definition, a disagreement between the services that a
run shows, the hazards, and the theorems.

Paths below are relative to the repository; `mdm-core`, `kafka-event-service` and
so on stand for `services/<name>/src`.

## 1. Inventory

### How the services interact

    browser/UI -> api-gateway -> mdm-core, ingest, policy, tenant, search, AI, ...
    mdm-core      -- business rows + event_store.outbox_events, one transaction
    kafka-event-service -- polls outbox_events --> Kafka --> enrichment, notification
    ingest-service -- Redis sorted set --> its own workers -- POST --> mdm-core
    mdm-core      -- Redis sorted set --> its entity match worker
    distribution-service -- polls platform.distribution_jobs --> customer endpoints
    mdm-core webhook worker -- polls notifications.inbox --> customer webhooks

State shared between processes is a PostgreSQL table or a Redis key; state shared
between concurrent requests of one process is an `Arc` of atomics (the circuit
breakers), a broadcast channel (notifications) or nothing. The Helm chart
(`infra/k8s/helm/azile-mdm/values.yaml`) runs two or more replicas of most
services, and scales them up and down.

### Components that are modelled

| Component | State | Operations | What is hard |
|---|---|---|---|
| Unit of work and outbox relay (`shared/database/src/unit_of_work.rs`, `kafka-event-service`) | `outbox_events`, `outbox_dlq`, the Kafka topic, the batch in each replica's memory | begin, commit with events, rollback; poll, publish, mark published, mark failed, park; replay one, replay all | the row locks of the poll end with its SELECT, so replicas process the same rows; the retry count is stale; a crash or a failed UPDATE between Kafka and the table; a timeout of a message that was appended |
| Distribution workers (`distribution-service`) | `distribution_jobs`, the batch in each replica | enqueue, poll, post, mark completed, mark failed with backoff | as above, and the UPDATEs overwrite whatever status is there; their errors are dropped; a panic ends the only task that polls |
| Circuit breakers (`api-gateway/src/proxy`) | two relaxed atomics per upstream | `is_open`, `record_success`, `record_failure`, retry loops of two proxies | every operation is two atomic accesses, and any number of requests are inside them |
| Asynchronous CSV ingestion (`ingest-service`, `shared/redis/src/queue.rs`, the bulk insert of `mdm-core`) | the job's row, the sorted set, rows and match tasks of a chunk | upload and enqueue; pop, post, count, complete | tasks are popped before they are processed; the counters are incremented by many workers while others test them; the transaction of a chunk with a rejected row; answers lost after the commit |
| Entity approval (`mdm-core/handlers/data_governance.rs`) | `entities.status`, `entity_approval_requests` | submit for review, approve, reject, bulk approve, bulk reject; PATCH, soft delete, hard delete | statements outside a transaction; a review decides what it loaded earlier; other writers ignore the workflow |
| Matching engine, entity match worker, entity service with its cache, review queue (`mdm-core`) | `entities`, the Redis cache, the sorted set of match tasks, `match_candidates`, the notices to owners | create one, bulk insert, PATCH, erase, read through the cache, expire; take a task, block, load, score, ask the AI service, store, cluster, notify; review | entities are committed before their tasks are queued; tasks are popped before they are processed; nothing invalidates the cache; the two tasks of a pair run at the same time; candidates are cut before they are scored |
| Survivorship engine (`mdm-core/survivorship`) | the golden record under construction | `apply_survivorship`: candidates, score, order, winner, conflict and warning of each rule, quality | ties, `f32` timestamps, a confidence added to scores of other scales |
| Data quality rules (`mdm-core/services/data_quality_service.rs`) | `quality_rules`, `quality_violations`, the creations that check them, background tasks | create, change, delete a rule; check, insert, commit; save and resolve violations | rules change while creations that were checked wait for their commit; violations are saved after the answer; one replica may stop in between |
| Webhook delivery, notices and licence warnings (`mdm-core/workers/webhook_delivery.rs`, `services/notification_service.rs`), subscriptions (`notification-service`) | `notifications.inbox`, `webhook_subscriptions`, `delivery_log`, the batch of each replica | warn with a debounce; subscribe, unsubscribe; select, log, post, record; purge | no lock and no unique key, so that replicas deliver the same; the debounce is two statements; an attempt is logged before it is made |
| AI suggestions (`mdm-core/services/ai_suggestion_service.rs`, `handlers/ai_suggestions.rs`) | `ai_suggestions`, the attributes of the entities, requests and approvals between their statements | ask, store; approve, write the entity, mark as applied; reject; PATCH, erase | approval, write and mark are three transactions; the entity may be erased or edited at any time |

What makes each correct:

* Relay: no committed event is lost, nothing uncommitted leaves, a row is parked
  only after its retries, a settled row stays settled, every row is settled.
* Distribution: no job is stranded between "pending" and the limit of the poll;
  it is given up only after its attempts and completed only when processed; the
  number of duplicate posts is bounded; every job ends.
* Breaker: the two atomics agree when nobody is recording; an open breaker ends;
  a failed probe re-opens it.
* Ingestion: a chunk is counted at most once, the final status is given when all
  chunks are counted and then stays with its counts, "completed" means that every row was
  processed, what is counted as processed is stored, a job ends.
* Approval: an entity that was submitted has a request somebody can decide, an entity that
  the workflow published has an approval, a closed request stays closed.
* Matching: when all tasks are done duplicates are linked, whichever was committed, queued
  and matched first; the review queue holds exactly the pairs that were unclear under the
  policy of their execution and that the AI service did not decide; the hub of a cluster is its
  suggested master; a decision is recorded; the cache settles; every task ends.
* Survivorship: no candidate is better than the one that survives, a trusted or a recent
  source wins but for the cases arithmetic leaves, the confidence tells how clear the
  choice was, every rule is accounted for.
* Quality rules: what is stored was allowed by every rule that was not changed meanwhile; a
  violation shows the rule as it was when it fired; none is lost without a fault.
* Webhooks: a replica posts nothing twice, a warning is attempted in the end, repeated
  warnings are bounded.
* Suggestions: one is written to its entity at most once and only if it was approved, and its
  status tells whether it was.

### Not modelled

The map covers about a tenth of the implementation. The rest is code of four kinds: handlers
that run one SQL statement on one row, or forward a request; string work (parsing, normalising,
formatting, prompts); calls to models; and code that cannot run on the database that the
migrations create. None keeps state whose order of steps could go wrong in a way that a model
would show better than a look at the statement.

| Component | Why |
|---|---|
| Merge, unmerge (`mdm-core`) | The gate of `POST /merge` (`handlers/merge.rs:51`) reads `match_candidates.candidate_entity_id`, a column of no migration, so that every merge answers 500 before it changes anything; unmerge reads `entities.id`. The engine a merge would run is `Survivorship` |
| Bulk entity actions, hierarchies (`mdm-core`) | Every statement names `entities.id` or `entities.is_deleted`, where the column is `entity_id`; `set_entity_parent` of `0019_entity_hierarchy.sql` ends with such an UPDATE, which rolls it back |
| Golden records, draft distribution jobs | One guarded UPDATE of one row, with an event in a unit of work (`OutboxRelay` models that) |
| Workflows, tasks, comments, other resources (`mdm-core`) | Rows written one at a time; nothing executes a triggered workflow. Quota checks read tables that only `infra/postgres/migrations` creates and fail open. An invitation answers 500, because `user_invitations.email` is NOT NULL and not written |
| Synchronous ingestion, REST pull (`ingest-service`) | The scheduler calls the processor of `IngestJobs` at an interval and keeps no position. Normalising and mapping are string work |
| Gateway middleware, routes, WebSocket fan-out | Forwarding and per-request checks; the rate limiter is one Lua script in Redis, atomic by itself; the fan-out is a broadcast channel that promises nothing to a client that is not connected or lags |
| Enrichment (`enrichment-service`) | Does nothing as shipped: the consumer expects a field `event_type` (`consumer.rs:76`), while the relay sends the payload alone (`publisher.rs:31`), and the route it would PATCH does not exist |
| Policies, consent; search; tenants; AI service | Pure reads, single rows, one provisioning transaction, or calls to models. The status that an erasure sets is an action of `EntityApproval` |
| Shared libraries | The distributed lock, the idempotency keys, the retry helper and the dead-letter helper have no caller; the task queue and the unit of work are modelled with their users |
| Schema | Constraints, indexes and defaults are mapped where a model meets them. The retention functions delete settled rows by age and are left out, but for the purge of the delivery log |
| Flutter UI, deployment | Read for what clients send and how many replicas run |

Of the modelled components these operations are left out: the assignments of stewards
(`data_governance.rs:45`-`215`), which the approval workflow only reads; bulk approval, deferral
and assignment of matches, which act on `match_review_queue`, into which nothing inserts;
`trigger_bulk_matching` (`handlers/matching.rs:52`-`108`), which always answers
500; the batch run of the quality rules and the trust score, which name columns or tables of no
migration; marking notices read; e-mail and Slack messages, sent and forgotten.

## 2. Plan

Written in this order, the behaviour that most of the platform relies on first:

1. `EventDelivery`, the abstract promise, and `OutboxRelay`, which implements it.
2. `DistributionWorker`, `CircuitBreaker`, `IngestJobs`, `EntityApproval`: polling workers,
   atomics, a queue with counters, a workflow over several statements.
3. `Notifications`: the other polling worker, with the inbox it reads.
4. `EntityMatching`: the match worker on the same kind of queue as `IngestJobs`, composed with
   the entity service and its cache, whose copies the worker reads, and with the review of
   what it stores.
5. `QualityRules`: the rules, the two kinds of creations that check them, and the background
   tasks.
6. `Survivorship`: the algorithm, over an enumerated set of merges.
7. `AiSuggestions`: the approval gate of what the AI service proposes.

Each module named X has its instances for TLC in `MCX` (the breaker needs none) and its proofs
in `XProofs`, but for two pairs: the two workflows in which a person decides, `EntityApproval` and
`AiSuggestions`, share `ReviewProofs`, and the two components that call others over HTTP,
`DistributionWorker` and `CircuitBreaker`, share `OutboundProofs`. A proof module extends its two
components, which is why the second of each pair has names like `BreakerInit` and `AIInit`.
What would come next:
assignments of stewards in `EntityApproval`; an abstract specification of the match worker
and of the webhooks; merge and unmerge, once they run on the schema.

## 3. The modules

Conventions. One action is one statement, network call or atomic access; a
process may stop between any two. Local state of a process is a function of its
id. A definition introduced by `DEFECT` is never part of a specification: it is
the definition below it with a plausible bug, kept to show that the property named
in `PROJECT.json` would find that bug. Faults are actions; the constant `Faults`
says which kinds an instance has. `MaxFaults` and the sets of rows and requests are
the only bounds inside the modules.

### EventDelivery, OutboxRelay

`EventDelivery` is what the rest of the platform may assume: an event of a
committed transaction stays an open obligation until Kafka has received it at
least once, or it is parked; parked events can be revived. It has three sets and
five actions.

`OutboxRelay` is the code. `txn`, `startedAt`: units of work, whose `NOW()` gives
all their events one `created_at` (`clock` orders those values). `rows`,
`created`, `published`, `retry`, `dlq`: the two tables, with `copyOf` for the
payload, because a replay inserts the payload again under a fresh `event_id`.
`kafka`: messages as the broker appended them. `batch`, `seen`, `phase`, `cur`:
the memory of a replica between its statements.

| Action | Code |
|---|---|
| `Begin`, `Commit`, `Rollback` | `UnitOfWork::begin`, `commit` with `persist_events`, `rollback` or an error or a crash |
| `FetchUnpublished` | `fetch_unpublished_events`: the oldest `BatchLimit` rows; any rows another replica holds may be hidden by `SKIP LOCKED` at that moment |
| `MoveToDlq`, `MoveToDlqFails` | the branch of `poll_outbox` for `retry_count >= MAX_RETRIES`, one transaction |
| `PublishAcked`, `PublishFails`, `PublishTimesOut` | `publish_event`: appended and acknowledged, not appended, appended but reported as failed |
| `MarkPublished`, `MarkPublishedFails` | `mark_event_published`, whose error makes the caller count a failure |
| `MarkFailed`, `MarkFailedFails` | `mark_event_failed` |
| `Crash` | the replica stops; its successor polls anew |
| `ReplayDlqEvent`, `ReplayAllDlqEvents` | `kafka/dlq.rs` (in the code marked `allow(dead_code)`: an operator's tool) |

Left out: a message that the broker appends after the producer has given up on it
(it would add duplicates, which the model has anyway), the retention purge, the
order among rows with equal `created_at`.

### DistributionWorker

`status`, `attempts`, `due` are the columns the poll reads (`due` is
"`next_attempt_at` is NULL or has passed"); `batch`, `cur`, `answer`, `alive` a
replica; `sent` and `accepted` what endpoints saw. `Enqueue`, `FetchBatch`, `Send`
with the answers a connector can give, `MarkCompleted`, `MarkFailed` are the
functions of `processor/worker.rs`; `MarkLost` is the error of either UPDATE, which
the code drops with `let _ =`; `SendPanics` is the slice of an error page inside a
character (`connectors/webhook.rs:135`), which ends the worker's task and leaves
the process running; `Restart` is the end of the process. The order of a batch is
left open, so every order of `ORDER BY created_at` is covered. The table is that
of `infra/postgres/migrations`, which has `error_message`; on the table of
`shared/database/migrations/0003_production_tables.sql`, which has not, every
`mark_failed` is a `MarkLost`.

### CircuitBreaker

`failures` is `consecutive_failures`, saturating at the threshold, because only the
comparison with it is ever used. `age` is the time since `opened_at`, saturating at
`open_duration_secs`, or `Zero`: timestamps matter only through that difference, and
`Tick` lets them pass. Each load, store, `fetch_add` and `compare_exchange` is an
action. The two stores of `record_success` happen in either order, because both are
relaxed. The clock is read in the step that loads `opened_at`. A request retries
without asking `is_open` again, as `mdm_proxy.rs` does. `probe` and `raced` are history
variables: requests let through half-open, and "a success and a trip were recorded
at the same time".

### IngestJobs

`upload`, `next`: the handler that enqueues the chunks; `status`, `processed`, `failed`,
`done`, `completed_at`: the job's row, of which `completed_at` counts how often it was stamped
(`duration_ms` is written with it); `queue`: the sorted set, from which any member may be the
greatest, since all priorities are equal and a random id comes first; `at`, `chunk`,
`result`: a worker; `stored`, `matchTasks`: what mdm-core did with a chunk. A row is
"good", "blocked" (a quality rule) or "rejected" (by PostgreSQL). `Post` is the whole of
`create_entities_bulk`: after a rejected row every statement of the transaction fails
and the COMMIT rolls it back without an error, which `Inserted` (what the answer says)
and `Stored` (what the table has) keep apart. `PostRefused`, `AnswerLost` and `BodyLost`
are the three ways `processor.rs` loses an answer; a commit that comes after the
client's timeout is an `AnswerLost`. The sums of the properties (`Sum`, `Records`) are the sizes of
disjoint unions, which can be reasoned about without an induction. `CheckDone` and `CompleteJob` are the SELECT and the
UPDATE of `maybe_complete_job`. `Crash` ends any set of workers and uploads at once, as
the end of a replica does.

### EntityApproval

`entity`, `request`, `about`: the two tables; `step`, `target`: a submission between its
statements; `held`, `verdict`: a review between its query and its transactions.
`StartSubmit`, `SetPending`, `InsertRequest` / `InsertConflict` are the three statements
of `submit_for_review`, of which the last may meet the unique index on pending requests
(`shared/database/migrations/0034_missing_runtime_tables.sql`); `Abandon` is a failing statement
or a client that hangs up, between any two. `Load` is the query of all four review
endpoints, `Decide` the transaction of one request (by its id, whatever its status is by
then), `DecideFails` a refused or failed one, after which a bulk call goes on, `HangUp`
the rest. `Patch`, `Erase`, `HardErase` are the writers that know nothing of the workflow.
`SetStatus` of a deleted entity changes nothing, and the code does not look at the
count. `Init` gives each entity any status of `Created`, since the INSERT stores the caller's
(`entity_repository.rs:149`): stewards create drafts, administrators and the ingestion publish at
once, and any client may ask for PendingReview. `stray` is a history variable: entities whose
status came from their creation, a PATCH or half a submission; a submission takes an entity out of it. Assignments are
read and never changed by the workflow (a caller without one does not act); notifications and audit rows are read by nothing.

### EntityMatching

`stored`, `cached`, `queue`, `matches`, `notices` are the table, the Redis entries, the sorted
set, `match_candidates` and the inbox; `loading` the entities that a bulk load has committed
and not yet queued; `fills` copies on their way into the cache (of a creation, a view, a
worker), which may arrive after the entity has changed; `policy` the weights and thresholds that each
replica has in memory; `at`, `subject`, `source`, `under`, `found`, `scored`, `unsaved`, `clusters`
a worker between its calls, of which `under` is the policy that its execution goes by. An entity is a function from
attributes to values; scores are in thousandths.

| Action | Code |
|---|---|
| `CreateEntity`; `BulkInsert`, `BulkRolledBack`, `EnqueueMatch`, `EnqueueFails` | `EntityService::create_entity`, which queues no match task; `create_entities_bulk` |
| `PatchEntity`, `HardErase` | `patch_entity`, `hard_erase_entity`: the database only |
| `View`, `FillCache`, `FillFails`, `CacheExpire` | `get_entity`, the cache's `set`, its 300 s |
| `Dequeue`, `ReadCached`, `ReadStored`, `FillSource`, `SkipMissing` | `workers/entity_match.rs` up to the match: a missing entity is dropped |
| `GenerateCandidates`, `ScoreCandidates`, `SaveCandidate`, `SaveFails`, `BuildClusters`, `NotifyOwner`, `ExecutionFails` | `Matcher::execute`, blocking, `ScoreCalculator`, the AI resolution, `persist`, `ClusterBuilder`, the notice |
| `UpdateWeights`, `Restart` | `PATCH /policy/weights`, which reaches one replica and is stored nowhere; the replica starts again with `MatchingPolicy::default` (so it does after an `ExecutionFails` that is its end) |
| `Decide` | approve and reject of the review queue |

`GenerateCandidates` takes the copy of the policy that `Matcher::execute` takes first; scores, statuses,
edges and clusters are of that copy. A policy is a weighting and two thresholds. The normalised weights
are real numbers, so that a weighting is a name, whose field scores and vector weight are
constants; `Updates` are the requests looked at, clamped as the code does. The weights of the master
selection have no field in the request, and the policies of a domain are never passed: the
`execute_matching_with_policy` that takes one has no caller.

The field score of two values is the constant `Similarity` (the string distances are data), `Mean`
the mean that the scores and the clusters take, rounded down;
`Key` and `Text` say what the exact lookup compares, which is not the same: a phone is looked
for without dashes and stored with them. `Limited` is any subset of the size of the limit,
because the candidates are cut in the order of a `HashSet`. `Masters` is a set for the same
reason. `ScoreCandidates` includes the answer of the AI service for each candidate, or none.

### Survivorship

One behaviour per execution: `Init` picks the entities of a merge and the rules from `Inputs`,
each rule is one step (`SelectWinner` or `NoCandidates`), then the record is built. An attribute
is named by its position, the one of its entity in the merge and its own in the entity, so that
`Candidates` is a set of positions and the stable descending sort is an order of them
(`Outranks`): `Place` counts those that come before a position, `Order` lists the positions by
their places. `Score` is `evaluate_attribute` with the nine strategies, in units of 1/5000 so
that every weight of the code is an integer. An `f32` of today's Unix times has a grain of `Ulp` seconds:
`Nearest` rounds to it, ties to even, the time first and its sum with the confidence again
(`Rounded`), so that the confidence of most attributes vanishes (`Absorbed`). `Confidence` rounds
the margin up, because an `f32` of a margin is zero only after a tie. Names are members of a small
set with a length. Confidences and trust scores are any numbers: what computes them keeps to 0..1, but
neither the type (`contracts/src/mdm/common.rs:75`) nor the column (`0029_entity_attributes_partition.sql:46`)
says so, and `entity_repository.rs:1527` stores what a client sends. Sums without a timestamp are
taken as exact: confidences of 2^24 and more, beside which an `f32` has no room for units, infinities
and NaN are not modelled.

### QualityRules

`rules`, `rows`, `stored` are the tables; `at`, `next`, `written`, `aborted`, `found` a creation
between its statements (a chunk of `create_entities_bulk` or a single one); `saving` the
violations a background task has still to save; `steady[q]` is a history variable: the rules
that have not changed since creation q was received, which is what the gate can be held to,
since nothing locks the rules. `CreateRule`, `UpdateRule`, `DeleteRule`, `Resolve`, `Erase` are the
handlers of stewards. `Receive`, `Check`, `CheckFails`, `Block`, `ReadExisting`, `Insert`,
`InsertFails`, `Deadlocked`, `Create`, `CreateFails`, `Commit`, `CommitFails` are the steps of a
creation; an error of `check_entity` is logged and the creation goes on (`CheckFails`,
`unchecked`). `Save`, `SaveFails` are the background task and `Crash` its end. `Passes` and `Fires` are
`eval_condition` and `evaluate_rule`; whether a text fits a pattern is the constant `Fits`.

### Notifications

`inbox`, `enabled`, `log` are the three tables, `checking` a check between its two statements,
`at`, `batch`, `row`, `answer` the worker of a replica, `sends` (history) what it posted. `Poll` selects
as many of `Pending` as the batch allows, any of them, because the query has no ORDER BY; `LogAttempt` inserts the row, which
meets no conflict because there is no unique key; `Post`, `UpdateLog`, `UpdateFails` follow;
`Crash` is the end of the process. `Tick` lets days pass: the debounce, the window in which a
warning is sent and the retention of the log are constants of it. Two replicas never exclude
each other, which is why `SentOnce` is stated for each replica.

### AiSuggestions

`attrs` are the attributes of the entities (`Subjects`); `subject`, `answer`, `status` the rows of `ai_suggestions`
("none" before the row is there, "gone" after the cascade of an erasure took it); `asking` a request
that waits for the AI service; `at`, `on` an approval between its transactions; `writes` (history)
how often a suggestion was written.

| Action | Code |
|---|---|
| `Ask`, `Store`, `StoreFails` | `trigger_enrichment` and `call_and_store`; the INSERT needs the entity to exist |
| `Approve`, `ApproveFails` | the guarded UPDATE of `approve`; what is left after blank values are dropped decides whether the handler goes on |
| `Write`, `WriteFails` | the transaction with `update_entity`, whose "no such entity" is not looked at; a commit that failed may have been executed |
| `Mark`, `MarkFails` | `mark_applied`, without a guard, its error dropped |
| `Reject` | the guarded UPDATE of `reject` |
| `PatchEntity`, `HardEraseSubject` | `patch_entity`, `gdpr_erase_entity`, which removes the suggestions by the foreign key |

An answer is a function from some of the fields to values or a blank; it need not be about the
fields that were asked for, which nothing checks. The request ends after any step if the client
hangs up, which is among the failures.

## 4. What the runs show

| Run | States | Shows |
|---|---|---|
| `outbox` | 252,877 | `NoEventLost`, `ParkedAfterMaxRetries`, `SettledForGood`, `ImplementsEventDelivery`, with every kind of fault; `RowsEventuallySettled`: a row Kafka never accepts ends in the dead-letter queue and does not block the rows behind it |
| `distribution` | 88,928 | `NoJobStranded`, `SendsBounded`, `SettledForGood`, `JobsEventuallySettled` |
| `breaker` | 454,440 | `AtomicsAgree`, `OpenEnds`, with three requests in flight |
| `ingest` | 222,187 | `NoChunkCountedTwice`, `FinalMeansAllCounted`, `CompletedMeansProcessed`, `ProcessedWasStored`, `FinalIsFinal`, `JobsEnd` |
| `approval` | 423,946 | `PendingHasRequest`, `PublishedWasApproved`, `ClosedForGood` |
| `matching` | 277,085 | `TypeOK`, `DuplicatesFound`, `QueueHoldsUnresolved`, `HubIsMaster`, with two workers whose policies change, and no fault |
| `matching_changes` | 57,527 | `DecisionRecorded`, `CacheSettles`, `TasksEnd`, with edits, erasures, decisions and a fault of every kind |
| `review_decision` | violated | a decision sent with the id that the review queue shows is acknowledged and changes nothing: the queue gives the id of the row, approve and reject look for the id of the entity |
| `quality` | 742,903 | `TypeOK` (violations refer to entities and rules that exist), `GateHolds`, `SnapshotExplains`, `NoViolationLost` |
| `survivorship` | 23,102 | `BestSurvives`, `StrategyHonoured`, `ConfidenceIsMargin` (a share, whatever the scale of the scores), `RulesAccounted` |
| `webhooks` | 281,446 | `TypeOK` (a worker that posts has a row of its own in the log), `WarningsBounded` with two checks at the same time, `SentOnce`, `WarningsAttempted` |
| `suggestions` | 170,812 | `StatusTellsOutcome`, with two approvals at a time, erasures and one fault |

The type invariants of all components are proved for every instance (section 5). Those that
say more than a type are checked as well, the others are not.

### Bounds, and why they are enough

* Outbox: one transaction of two events, two replicas that poll one row at a time, one row for a
  replay, two retries, one fault of any kind but any number of refusals by Kafka. Two replicas are
  what a stale row in memory needs, and a poll of one row is what lets a row that always fails
  starve the other; one fault can fall between any two steps; the retry limit of 2 lets a row
  fail, be fetched again with another count and be parked; the row of the replay is younger than
  the others. Several transactions and larger batches are left to the theorems: the safety
  properties are proved for any number of either.
* Distribution: two jobs, two replicas, three attempts, two faults. One job gets every
  orderly answer, the other the error page that panics until its connector is edited,
  so that the worker dies and the job is settled in different behaviours.
* Breaker: three requests, so that a success, a trip and a third request overlap;
  threshold 3 with two tries per request, so that one request cannot trip it alone; two
  seconds of open time, so that a tick may be the last or not.
* Ingestion: a file of two chunks and one of one chunk with a row that PostgreSQL refuses,
  two workers, every fault any number of times. Two chunks of one job let both workers test
  and complete it, and the second stamp a final row again.
* Approval: two entities, each created as a draft, in review or published, three requests (an entity can be resubmitted while a review
  still holds its decided request), one steward that may submit published entities and one
  that may not, two reviews. A fourth request repeats what the third shows.
* Matching: three entities, two of them bulk-loaded, two workers: the tasks of a pair overlap
  in every way, and the third entity competes for a limit of two candidates. Values are chosen
  so that a pair is exact, unclear or distinct, and so that a phone is stored with a dash. The
  second run has two entities, one worker, one PATCH per entity and one fault of any kind. A PATCH
  of the policy (other weights, and 0.55 for the review threshold) and its loss fall between any two steps
  of the first run, in either replica. Clusters of three candidates and other policies, such as a review threshold of
  0.3 or one above the automatic threshold, are left to the theorems. The constraint
  `UnreadCopiesWait` leaves out cache entries that no worker reads.
* Quality: one rule with three definitions (a flag of alternatives, a quarantine, an inactive one),
  two chunks that create the same two entities in opposite orders, which is what PostgreSQL
  deadlocks on, one single creation, one fault. A rule may change between any two steps.
* Survivorship: pairs of entities that differ in value, source, confidence or time under every
  strategy, and triples with two attributes and four rules, one without candidates. Confidences
  are absent, shares, 3 and -1. The order
  of a merge is part of the input, so both orders of each pair are there. The run has an `Ulp` of 4
  and an `Epoch` of 10 of them, where the code has 128 and 2^23, because TLC's integers have 32 bits; times are in the
  same, the next and distant units and half way between two. The theorems hold for any of either.
* Webhooks: two replicas, one subscription, two warnings, two days (debounce two,
  window and retention one), one fault. Retention and window are as close as the code has them,
  which is where a purge could bring a warning back. Two checks warn at the
  same time, up to four warnings in four days, so that both may find nothing, and both again once the
  debounce is over. What replicas take is what one of them writes: with both, the run would
  take an hour. That is the constraint `Bounds`; checks read nothing that replicas write, so that
  replicas make no difference to `WarningsBounded`; `WarningsAttempted` is about the behaviours within it.
* Suggestions: two of them, about one entity or two, two approvals, one fault. Two fields and one
  value let an answer fill a field, overwrite it, leave it out or propose nothing.
* Symmetry: entities, requests and reviewers in `approval`; workers in `matching`; entities,
  suggestions and reviewers in `suggestions`.
  Only safety and step properties are checked there, none under fairness.
* Deadlock is not reported, because all systems may come to rest: every row is settled,
  every file is done, every entity deleted, every client gone.

### Fairness

* Relay: weak fairness of each replica. `start_outbox_worker` loops for ever with a
  bounded sleep, and the orchestrator restarts a replica that stops. Nothing is assumed
  of Kafka.
* Distribution: weak fairness of each replica's worker (`run` loops, every await has a
  timeout) and of the passing of `next_attempt_at`. None for `Restart`: a worker whose task
  panicked is not restarted by anything, and `JobsEventuallySettled` says so.
* Breaker: only that time passes. No request need ever finish.
* Ingestion: the tasks of the upload handler and of the workers keep being scheduled.
  `JobsEnd` is claimed only while no chunk and no statement on the job's row is lost.
* Approval, quality, survivorship, suggestions: none, no liveness is claimed. Nobody has to review anything.
* Matching: handlers that queue go on, a cache entry expires (Redis, 300 s), a copy on its way to
  the cache arrives or fails, each worker keeps being scheduled. Nobody has to send a request.
* Webhooks: weak fairness of the worker of each replica (`run` polls for ever, the POST has a
  timeout). None for the days, the checks and the purge.

### Disagreements that are not runs of their own

Where the code does not do what a document, a comment or a name says, the model does what the
code does, and the properties are stated for what is left.

Relay
* `outbox/repository.rs:30` and `docs/DATABASE_AND_DATAFLOW.md:378` and `:847` promise that
  SKIP LOCKED keeps replicas apart and that publication is exactly once. The locks end with the
  SELECT: two replicas publish an event twice without any fault. At least once is what
  `EventDelivery` says.
* `publisher.rs:41` says that the partition key "ensures ordering guarantees". A refused
  row is retried at the next poll, after later rows of the same aggregate have been sent, so
  that even one replica reorders an aggregate's events.
* `docs/DATABASE_AND_DATAFLOW.md:861` describes a backoff of 5, 25 and 125 seconds for the
  relay, which has none; line 1219 a check of `gdpr_erased`, which the poll does not make.

Distribution
* `worker.rs:27` runs "indefinitely". An error page with a character across byte 200 makes
  the slice of `connectors/webhook.rs:135` panic, which ends the only task that polls.
* `worker.rs:114` says of a job that is given up that it "won't be retried": a replica that fetched
  it before posts it once more and overwrites its status. `SettledForGood` is therefore stated
  for jobs no replica holds. The dead-letter queue of lines 16-17 does not exist.
* `mark_failed` writes `error_message`, a column of `infra/postgres/migrations` only.

Breaker
* `circuit_breaker.rs:8` says that a failed probe re-opens it. `opened_at` still holds the first
  trip, and the `compare_exchange` from 0 of line 64 fails: it stays half-open.
* The same line speaks of one probe; every request passes once the time is over.
* A success recorded between the `fetch_add` and the `compare_exchange` of a trip leaves a
  closed breaker with an opening time, and its next trip is not stamped. `AtomicsAgree` excludes
  exactly that case, by `raced`.

Ingestion
* A row that PostgreSQL refuses aborts the transaction of its chunk (`entities.rs:310`). The loop goes on,
  the COMMIT rolls back without an error, and `inserted` counts and queues for matching rows that
  are not there (line 353).
* Two workers that both find all chunks done both complete the job: the second rewrites `completed_at`
  and `duration_ms` of a row that is final (`jobs.rs:84`-`85`).

Approval
* An entity may be published without an approval: `POST /entities` stores the status that it is sent
  (`entity_repository.rs:149`, `entity_service.rs:359` refuses only Deleted), the ingestion creates Active
  entities (`ingest-service/src/processor.rs:339`), and the UI says "Stewards create as Draft; Admins publish
  directly as Active" (`entity_create_page.dart:566`-`567`). `PublishedWasApproved` is about those the workflow published.
* A submission that stops between its two statements (`data_governance.rs:293`) leaves an entity in
  review without a request: it can be neither decided nor, by line 230, submitted again.
* A stale review overturns a verdict, or makes a soft-deleted entity Active again; the approval of a
  hard-deleted entity answers that it is Active; a PATCH sets PendingReview without a
  request (the entity page of the UI does this) or Active without an approval.

Matching
* `matcher.rs:209` stores "only the top-N"; the candidates were already cut to the limit, unsorted,
  before they were scored (`candidate_generation.rs:126`).
* `main.rs:1173`-`1175` speaks of a "single live policy", of which "no frozen copy exists". It is single in its process:
  a PATCH reaches one of the replicas and is lost when that restarts.
* A PATCH of the automatic threshold alone may leave it below the review threshold
  (`handlers/policy.rs:83`-`88`): then nothing is unclear, and pairs are Matched without an edge in the graph.
* With a review threshold below 0.55 a candidate may be the suggested master of a cluster of two in
  place of the entity that links them: a pair of 0.9 beside one of 0.3. `HubIsMaster` leaves that out.
* The AI service is sent the id of the candidate, not its attributes (`matcher.rs:139`).
* An entity created by a single request gets no match task. A phone with a dash, or a field
  that is stored encrypted, never matches exactly; phonetic and canopy blocking find nothing.
* `requires_human_review` is never cleared, so that a decided pair stays in the queue.
* `invalidate_cache` has no caller: an edit or an erasure is not seen by cached reads for 300 s.

Survivorship
* `merge_service.rs:93`-`94` says of the rules: "Falls back to the engine's built-in latest-wins default
  when no rules exist". Without rules the golden record has no attributes. Entities that come
  from the database have no `extracted_at`, so that MostRecent decides by confidence and order.
* A confidence above 1, which nothing refuses, lets any source outrank the trusted ones, and as many
  seconds of a timestamp. `StrategyHonoured` says by how much.

Quality rules
* `0013_quality_rules.sql:6`-`7` says that rules are evaluated on every create and update; a PATCH
  evaluates none.
* `entities.rs:103`-`104` says that violations are saved for what was created: a retried creation
  and a chunk that rolls back save those of attributes that were not written, and repeat rows.
* The update, the deletion and the resolution of line 684 and following decode `RETURNING 1` as
  an i64: they are executed and answered with 500.
* `POST /quality-rules/run` answers 202 and always fails in the background.

Webhooks
* `webhook_delivery.rs:32` says that replicas "don't double-deliver"; the SELECT takes no lock, and
  the log has no unique key for its ON CONFLICT (`0034_missing_runtime_tables.sql:263`-`277`).
* `MAX_ATTEMPTS` is never read: a failed delivery is not repeated.
* The debounce is commented as looking for unread warnings; the query does not look at that.
* `POST /push` of notification-service has no caller.

AI suggestions
* `handlers/ai_suggestions.rs:171` says that an approval "applies the suggested field values to the
  entity". It passes only those to `update_entity`, which deletes all attributes before it inserts
  (`entity_repository.rs:1499`): every field that was not suggested is lost (`Replace`).
* Requests for an address or an anomaly are always refused: the handlers pass the attributes as an
  array, where `ai_suggestion_service.rs:39` and `:79` look for fields by name. An enrichment sends
  no context for the same reason.
* An approval that fails after its first UPDATE stays approved: a retry finds nothing pending
  and answers 404.
* `reject` decodes `RETURNING 1` as an i64: it is executed and answered with 500. The list
  decodes a NUMERIC as an f64 and panics when there is a row.

Enrichment
* `enrichment-service/src/consumer.rs:65` says "At-least-once delivery: commit after processing"
  and commits whatever the outcome.

## 5. What is proved

The theorems hold for every value of the constants that satisfies the module's named
assumption (`OutboxAssumption`, `DistributionAssumption`, ...): any number of replicas,
transactions, jobs, chunks, requests, any limits, any faults. The assumptions only say
what kind of value a constant is; TLC evaluates them in the runs.

* `OutboxRelayProofs`. `IInv` is `TypeOK`, `RefsValid` (rows in batches, in Kafka, in the
  queue exist and carry an event; rows of an open transaction do not exist yet),
  `MarkAfterDelivery` (a replica about to mark a row has delivered it), `SeenNotAhead` (a
  fetched retry count is never above the table's), `ParkedAfterMaxRetries` and
  `NoEventLost`. The strengthening is needed because neither property says anything about
  the replicas' memory, on which the next step depends: `NoEventLost` survives
  `MarkPublished` only by `MarkAfterDelivery`, `ParkedAfterMaxRetries` survives `MoveToDlq`
  only by `SeenNotAhead`. `Refinement` maps each step to a step of `EventDelivery` or a
  stutter: a commit is `Commit`, an append `Deliver`, a mark `Discharge`, a move to the
  queue `Bury`, a replay `Revive`. `SettledCorrect` proves the step property from `IInv`: the
  copy that a replay inserts is new, so `RefsValid` says that it is not published.
* `OutboundProofs`, of the two components that call others over HTTP.
  - *Distribution.* `IInv` is `TypeOK`, `NewIsUntried`, `NoJobStranded`,
    `GivenUpAfterMaxAttempts`, `CompletedWasAccepted` and `OkWasAccepted` (a replica about to
    record success posted a job that was processed). `SettledCorrect` proves the step property
    from `TypeOK` alone. `SendsBoundedCorrect` needs an invariant about the posts still to
    come: `RoomLeft` adds to the posts made the number of replicas that may still post the job
    as it is (`MayPost`: of an open job those that run and do not have it in hand, of a settled
    one those that fetched it before). A post uses up one of these, a recorded failure makes
    room for all replicas, a fault for one. `OneReplica` proves that with one replica no settled job is
    ever held, so that the condition of `SettledForGood` is about replication only;
    `OneReplicaDelivers`, that it implements `EventDelivery` as the outbox relay does. Two replicas
    do not, so that no run asks for it: one may record as completed a job that the other has given up.
  - *Breaker.* `BreakerInv` is `BreakerTypeOK`, `Apart` (an overlap of a success and a trip has
    been noted), `StoresHold` (what is true of the atomics after each half of
    `record_success`) and `Agreement` (whenever they disagree, some request is recording the
    outcome that explains it). `AtomicsAgree` is `Agreement` at quiet moments.
* `IngestJobsProofs`. `IInv` is `TypeOK`, a finite queue, `UploadProgress` and `BehindNext`
  (only chunks the upload has passed are in the queue or with a worker),
  `NoChunkCountedTwice`, `CompletingIsCounted` and `FinalMeansAllCounted`. The argument is
  a count: chunks counted, queued and under way are at most those enqueued, so a job whose
  chunks are all counted has none under way and its counters cannot move any more.
  `FinalIsFinal` follows from the same count: a worker that comes to `maybe_complete_job` after the
  job is final would have a chunk that is not counted yet. So only those that were there before
  stamp it again, and each leaves by doing so.
  `CompletedMeansProcessed` and `ProcessedWasStored` need what the counters of a job are made of:
  `Accounted` says that there is a set of chunks, out of the queue and out of every worker's hands
  (`Past`), whose results the row adds up to (`Amounts`); that no two workers have the same chunk
  (`OneHand`); and that a worker about to count has a result for every row of its chunk, of which
  no more are processed than stored (`ResultsFit`). When all chunks are counted that set is all
  chunks of the file, and "completed", which is "nothing failed", leaves the processed rows only.
* `EntityMatchingProofs`. Four arguments.
  - *Types and scores.* `Typed` is the types of the data, of the workers and of what an execution
    has reached (`ExecutionsFit`), and `RowFits`: what a stored row says of its score, its status
    and the answer of the AI service belongs together, which is `QueueHoldsUnresolved`. Scores are
    means, and a mean is a fold of the community modules: `FoldIsTotal` shows once, by well-founded
    induction over the subsets, that the fold over a finite set is the size of a disjoint union,
    and with that a mean of numbers of a range is of that range. So scores, confidences and, after any updates, the
    policies are in their ranges. (The vector similarity is dropped: with the standard weights no
    score exceeds 0.9, and no pair reaches the 0.95 of an automatic merge without the AI service.)
  - *Clusters.* `HubCorrect` is arithmetic (`DegreeDecides`): an edge more weighs 200, with the mean of the
    source's edges on the other side. One of these edges is that of the best candidate and the others reach
    the review threshold, of which the confidence follows at four fifths: two edges are enough from a
    threshold of 0.55, three from the least that can be set, 0.3. It needs that the thresholds
    of an execution are those of one policy (`under`), whatever happens to the replica's.
  - *One task.* An entity is being loaded, queued, with one worker or done with (`TasksApart`), so
    that the rows of an entity are of one execution and no candidate is stored twice (`RowsApart`):
    `DecisionsCorrect` needs it, because a decision is recorded by the ids of the pair. It is proved for
    clients that send the id of the entity; for the others the run `review_decision` refutes it.
  - *Duplicates.* `Fresh`: of an entity that has not changed every copy, in the cache, on its way
    there or with a worker, is what the table has. `NoPairMissed`: of two twins one still waits
    for its execution, or has the other among what it found, has to store it, or has stored it.
    The step that matters is the blocking of the second of the two: by then the first is stored, and the limit
    cuts nothing, because neither is crowded (`ExactMatchFound`).
* `ReviewProofs`, of the two workflows in which a person decides.
  - *Approval.* `PendingHasRequest` and `PublishedWasApproved` are inductive together with `TypeOK`, whatever
    statuses entities are created with: what was not created as a draft is `stray` until it is submitted;
    `ClosedForGood` follows from `TypeOK`, since only a review that holds a request writes it.
  - *Suggestions.* For `StatusTellsOutcome`, the property of the run `suggestions`, `IInv` is
    `AITypeOK`, `StatusTellsOutcome`, `Exclusive` (one approval holds a suggestion), `Known` (what
    the step of an approval says about status and writes), `Kept` (the entity of a row exists) and `Untouched` (what nobody approved is not written). `Kept`, which rests
    on the cascade, is what makes the mark true although the handler does not look whether the
    write found the entity.
* `NotificationsProofs`. For `SentOnce`, `IInv` is `Typed`, `LoggedLater` (a row of the log is not
  older than its warning) and `SendInv`: what a replica has posted or is about to post is
  `Covered`, that is logged or too old, and what is in its batch it has not posted. The nightly
  purge keeps that because a row old enough to be purged is of a warning too old to be
  selected: `Retention >= Window` is the assumption that carries the proof. For
  `WarningsBounded` the warnings of a type within a debounce, and the checks about to write one,
  are counted against checks and faults, for any number of checks at the same time (the run has
  two). `TypeOK` says more than the types, that a worker that posts
  has a row of its own in the log, pending: it needs that the purge takes only older rows (`RowHeld`).
* `QualityRulesProofs`. `IInv` is `Typed`, `NewIsClean` (a creation that has not been received has
  written nothing), `SteadyIsCurrent` (a rule that has not changed since is the one in the
  table) and `Allowances`: the item being checked, those written in the open transaction and
  those stored were allowed by the steady rules. `GateHolds` needs all three, because it speaks
  of the end of a transaction whose items were checked one by one long before.
  The violations need three more invariants. `Transactions`: what is stored has a creation that
  stored it, what a transaction has written is in the part of its chunk that it has passed,
  and no two transactions have written the same entity. `RowInv`: a row and an unsaved violation
  show a rule that fired (`SnapshotExplains`) and refer to what exists, and each is saved once.
  `LossInv`: for every item of a creation that has been checked and every rule that is due, the
  violation is found, with a task, or saved (`NoViolationLost`). That the attributes that fired are
  those the request sent is what carries the last step, when the creation is long closed.

* `SurvivorshipProofs`. The algorithm first, then the execution.
  - *The sort.* `OutranksOrders`: on the positions of a merge, `Outranks` is a strict total order.
    So a candidate that outranks another has fewer before it (`PlacesAre`), places are distinct,
    and as there are as many places as candidates each place is taken: the pigeonhole of the
    library, cited in `OrderSorts`, says that `Order` lists every candidate once and in order.
    `WinnerIs` follows, also against the attributes that a minimum keeps out, because a minimum
    bounds the score.
  - *The confidence.* `ConfidenceIs`: whatever the scale of a strategy's scores, the margin over
    the greater of the score and 1 is a share, and it is zero exactly if the second has the score
    of the first. Scores may be negative; then the clamp of `calculate_confidence` is what keeps it a share.
  - *The execution.* `IInv` is `TypeOK`, `AllBuilt` (a golden attribute is what its rule gives from
    the entities), `AllAccounted` (there is an evaluation for every rule before the next, with its
    golden attribute or a warning, and as many conflicts as rules with two candidates) and
    `RecordComplete`. `BestSurvives`, `StrategyHonoured` and `ConfidenceIsMargin` are `AllBuilt`
    with the lemmas above and the arithmetic of one strategy. A rank of sources weighs 1, so that a source
    loses to a later one only by that difference of confidences or more; with shares, it can tie with the
    next and not lose. A rounded time is within half a unit of the time (`NearestIs`); a
    confidence of less than half a unit vanishes beside it (`NextTo`), and any other counts as so many
    seconds. `RulesAccounted` is `AllAccounted` at the end.

What proving changed in the model:

* `Survivorship` flattened the attributes of a merge into a sequence, by recursion, of which
  nothing could be proved. They are named by their positions now, and the sort is an order.
* `ConfidenceIsMargin` made an exception of MostRecent, because the model rounded a margin of a
  few units of a large score down to zero; the code computes it in floating point, where it is
  small and not zero. Now the model rounds up, and the exception is gone.
* `DuplicatesFound` asked that one of the two entities be not crowded. That is not enough: its execution
  may run before the other is stored, and the one of the other, which shares a second key with a
  third entity, may drop it. TLC finds the case with three entities. Now neither may be crowded, and
  the number of all entities matters too, because vector neighbours compete for the same limit.
* `Coverage` divided by the greater number of attributes, where `score_calculator.rs:229`-`237` has
  `.max(1)`: an entity without attributes has no coverage.
* Assumptions that were tacit are stated: an action of a rule is one of the four that the CHECK of
  `0013_quality_rules.sql:21` admits; `None` is no row of the log, `Absent` no entity and no
  attributes; entities are finitely many and the field score of two values is within 0 and 1.

Only model-checked:

* the liveness properties (`RowsEventuallySettled`, `JobsEventuallySettled`, `OpenEnds`, `JobsEnd`,
  `TasksEnd`, `CacheSettles`, `WarningsAttempted`), because the prover handles neither fairness nor
  ENABLED;
* the violation, which is a counterexample.
