------------------------------ MODULE IngestJobs ------------------------------
(***************************************************************************)
(* Asynchronous CSV ingestion: ingest-service splits an upload into chunks *)
(* on a Redis queue; its workers pop the chunks, post each of them to      *)
(* mdm-core, which stores it in one transaction, and count the outcome in  *)
(* the job's row until the job can be given its final status.              *)
(*                                                                         *)
(* A chunk <<j, i>> is the i-th of Files[j], a sequence of rows.  A row is *)
(* "good", "blocked" (by a quality rule) or "rejected" (PostgreSQL refuses *)
(* its INSERT, which aborts the transaction the chunk is stored in).       *)
(***************************************************************************)
EXTENDS Integers, FiniteSets, Sequences

CONSTANTS
  Jobs,          \* accepted CSV files
  Workers,       \* worker tasks, of all the replicas
  Files,         \* Files[j]: the chunks of file j
  HasQueue,      \* the service was started with a task queue
  Faults         \* what may go wrong, any number of times

ASSUME IngestAssumption ==
  /\ IsFiniteSet(Workers)
  /\ Files \in [Jobs -> Seq(Seq({"good", "blocked", "rejected"}))]
  /\ \A j \in Jobs : Files[j] # <<>>
  /\ HasQueue \in BOOLEAN
  /\ Faults \subseteq {"crash", "enqueue", "pop", "refused", "answer", "body", "sql"}

Total(j) == Len(Files[j])
Chunks == UNION {{<<j, i>> : i \in 1..Total(j)} : j \in Jobs}
Rows(c) == Files[c[1]][c[2]]
Job(c) == c[1]
Of(cs, j) == {c \in cs : Job(c) = j}

\* The rows of files and chunks; a sum is the size of a disjoint union, in which
\* chunk c has n[c] elements.
Size(c) == Len(Rows(c))
Sum(n, cs) == Cardinality(UNION {{c} \X (1..n[c]) : c \in cs})
Records(j) == Sum([c \in Chunks |-> Size(c)], Of(Chunks, j))

VARIABLES
  upload,        \* upload[j]: where the handler that received file j is
  next,          \* next[j]: the next chunk it enqueues
  status,        \* status[j], processed[j], failed[j] and done[j]: the job's
  processed,     \*   row; done is chunks_done
  failed,
  done,
  completed_at,  \* completed_at[j]: how often it was stamped, and duration_ms with it
  queue,         \* the chunks in the Redis sorted set
  at,            \* at[w]: what worker w does next
  chunk,         \* chunk[w]: the chunk it popped last
  result,        \* result[w]: the counts it has to add
  stored,        \* stored[c]: the records of chunk c that mdm-core stores
  matchTasks,    \* matchTasks[c]: the match tasks it enqueued for them
  faults         \* the kinds of faults that have happened

uploadVars == <<upload, next>>
jobVars == <<status, processed, failed, done, completed_at>>
workerVars == <<at, chunk, result>>
coreVars == <<stored, matchTasks>>
vars == <<uploadVars, jobVars, queue, workerVars, coreVars, faults>>

NoChunk == <<>>
Nothing == [processed |-> 0, failed |-> 0]
Final == {"completed", "partial_success", "failed"}

TypeOK ==
  /\ upload \in [Jobs -> {"none", "enqueueing", "accepted", "refused", "abandoned"}]
  /\ next \in [Jobs -> Nat] /\ \A j \in Jobs : next[j] \in 1..(Total(j) + 1)
  /\ status \in [Jobs -> {"none", "processing"} \cup Final]
  /\ processed \in [Jobs -> Nat] /\ failed \in [Jobs -> Nat]
  /\ done \in [Jobs -> Nat] /\ \A j \in Jobs : done[j] <= Total(j)
  /\ completed_at \in [Jobs -> Nat]
  /\ queue \subseteq Chunks
  /\ at \in [Workers -> {"polling", "posting", "updating", "checking", "completing"}]
  /\ chunk \in [Workers -> Chunks \cup {NoChunk}]
  /\ \A w \in Workers : at[w] # "polling" => chunk[w] \in Chunks \ queue
  /\ result \in [Workers -> [processed : Nat, failed : Nat]]
  /\ stored \in [Chunks -> Nat] /\ matchTasks \in [Chunks -> Nat]
  /\ faults \subseteq Faults

Init ==
  /\ upload = [j \in Jobs |-> "none"]
  /\ next = [j \in Jobs |-> 1]
  /\ status = [j \in Jobs |-> "none"]
  /\ processed = [j \in Jobs |-> 0]
  /\ failed = [j \in Jobs |-> 0]
  /\ done = [j \in Jobs |-> 0]
  /\ completed_at = [j \in Jobs |-> 0]
  /\ queue = {}
  /\ at = [w \in Workers |-> "polling"]
  /\ chunk = [w \in Workers |-> NoChunk]
  /\ result = [w \in Workers |-> Nothing]
  /\ stored = [c \in Chunks |-> 0]
  /\ matchTasks = [c \in Chunks |-> 0]
  /\ faults = {}

Fault(kind) ==
  /\ kind \in Faults
  /\ faults' = faults \cup {kind}

-----------------------------------------------------------------------------
(* POST /ingest/csv/upload.                                                *)

\* The job's row is inserted before the queue is looked for: without one the
\* answer is 503 and the row stays.
CreateJob(j) ==
  /\ upload[j] = "none"
  /\ status' = [status EXCEPT ![j] = "processing"]
  /\ upload' = [upload EXCEPT ![j] = IF HasQueue THEN "enqueueing" ELSE "refused"]
  /\ UNCHANGED <<next, processed, failed, done, completed_at, queue, workerVars, coreVars,
                 faults>>

\* The handler goes on to the next chunk, or answers 202.
Advance(j) ==
  /\ next' = [next EXCEPT ![j] = @ + 1]
  /\ upload' = [upload EXCEPT ![j] = IF next[j] = Total(j) THEN "accepted" ELSE @]

EnqueueChunk(j) ==
  /\ upload[j] = "enqueueing"
  /\ queue' = queue \cup {<<j, next[j]>>}
  /\ Advance(j)
  /\ UNCHANGED <<jobVars, workerVars, coreVars, faults>>

\* A failed ZADD is logged; chunks_total still counts the chunk.
EnqueueFails(j) ==
  /\ upload[j] = "enqueueing"
  /\ Advance(j)
  /\ Fault("enqueue")
  /\ UNCHANGED <<jobVars, queue, workerVars, coreVars>>

-----------------------------------------------------------------------------
(* The worker loop.                                                        *)

Goto(w, where) == at' = [at EXCEPT ![w] = where]

\* DEFECT: the task is read now and removed from the set later.
DequeuePeeks(w) ==
  /\ at[w] = "polling"
  /\ \E c \in queue : chunk' = [chunk EXCEPT ![w] = c]
  /\ Goto(w, "posting")
  /\ UNCHANGED <<uploadVars, jobVars, queue, result, coreVars, faults>>

\* ZPOPMAX.  All tasks have the same priority and a random task_id in front,
\* so any of them may be the greatest.
Dequeue(w) ==
  /\ at[w] = "polling"
  /\ \E c \in queue :
       /\ queue' = queue \ {c}
       /\ chunk' = [chunk EXCEPT ![w] = c]
  /\ Goto(w, "posting")
  /\ UNCHANGED <<uploadVars, jobVars, result, coreVars, faults>>

\* ZPOPMAX pops a task, but its reply does not arrive.
PopLost(w) ==
  /\ at[w] = "polling"
  /\ \E c \in queue : queue' = queue \ {c}
  /\ Fault("pop")
  /\ UNCHANGED <<uploadVars, jobVars, workerVars, coreVars>>

-----------------------------------------------------------------------------
(* POST /entities/ingest-bulk: what create_entities_bulk does with a chunk *)
(* and what its answer says.  After a rejected row every statement of the  *)
(* transaction fails, and its COMMIT rolls it back without an error.       *)

Rejected(c, i) == \E k \in 1..i : Rows(c)[k] = "rejected"
Inserted(c) ==
  Cardinality({i \in 1..Size(c) : Rows(c)[i] = "good" /\ ~Rejected(c, i)})
Stored(c) == IF Rejected(c, Size(c)) THEN 0 ELSE Inserted(c)

\* DEFECT: the rows that a quality rule blocks are not reported.
AnswerWithoutBlocked(c) == [processed |-> Inserted(c), failed |-> 0]

Answer(c) == [processed |-> Inserted(c), failed |-> Size(c) - Inserted(c)]
\* DEFECT: a chunk that could not be posted counts as processed.
NoneFailed(c) == [processed |-> Size(c), failed |-> 0]

AllFailed(c) == [processed |-> 0, failed |-> Size(c)]

\* mdm-core commits and enqueues a match task for each entity it inserted.
BulkInsert(c) ==
  /\ stored' = [stored EXCEPT ![c] = Stored(c)]
  /\ matchTasks' = [matchTasks EXCEPT ![c] = Inserted(c)]

Count(w, r) ==
  /\ result' = [result EXCEPT ![w] = r]
  /\ Goto(w, "updating")

Post(w) ==
  /\ at[w] = "posting"
  /\ BulkInsert(chunk[w])
  /\ Count(w, Answer(chunk[w]))
  /\ UNCHANGED <<uploadVars, jobVars, queue, chunk, faults>>

\* mdm-core is not reached, or cannot begin or commit its transaction.
PostRefused(w) ==
  /\ at[w] = "posting"
  /\ Count(w, AllFailed(chunk[w]))
  /\ Fault("refused")
  /\ UNCHANGED <<uploadVars, jobVars, queue, chunk, coreVars>>

\* The transaction is committed, but its answer does not arrive in time.
AnswerLost(w) ==
  /\ at[w] = "posting"
  /\ BulkInsert(chunk[w])
  /\ Count(w, AllFailed(chunk[w]))
  /\ Fault("answer")
  /\ UNCHANGED <<uploadVars, jobVars, queue, chunk>>

\* The status line of the answer arrives, its body is cut: nothing is counted.
BodyLost(w) ==
  /\ at[w] = "posting"
  /\ BulkInsert(chunk[w])
  /\ Count(w, Nothing)
  /\ Fault("body")
  /\ UNCHANGED <<uploadVars, jobVars, queue, chunk>>

-----------------------------------------------------------------------------
(* The job's row.                                                          *)

\* DEFECT: only the chunks that were stored are counted in chunks_done.
UpdateProgressStoredOnly(w) ==
  LET j == Job(chunk[w]) IN
  /\ at[w] = "updating"
  /\ processed' = [processed EXCEPT ![j] = @ + result[w].processed]
  /\ failed' = [failed EXCEPT ![j] = @ + result[w].failed]
  /\ done' = [done EXCEPT ![j] = IF result[w].processed > 0 THEN @ + 1 ELSE @]
  /\ Goto(w, "checking")
  /\ UNCHANGED <<uploadVars, status, completed_at, queue, chunk, result, coreVars, faults>>

\* update_job_progress: one UPDATE with increments.
UpdateProgress(w) ==
  LET j == Job(chunk[w]) IN
  /\ at[w] = "updating"
  /\ processed' = [processed EXCEPT ![j] = @ + result[w].processed]
  /\ failed' = [failed EXCEPT ![j] = @ + result[w].failed]
  /\ done' = [done EXCEPT ![j] = @ + 1]
  /\ Goto(w, "checking")
  /\ UNCHANGED <<uploadVars, status, completed_at, queue, chunk, result, coreVars, faults>>

\* Its error is logged and the worker goes on to maybe_complete_job.
UpdateFails(w) ==
  /\ at[w] = "updating"
  /\ Goto(w, "checking")
  /\ Fault("sql")
  /\ UNCHANGED <<uploadVars, jobVars, queue, chunk, result, coreVars>>

\* DEFECT: the job is complete when its last chunk but one is.
CheckDoneOneEarly(w) ==
  LET j == Job(chunk[w]) IN
  /\ at[w] = "checking"
  /\ Goto(w, IF done[j] + 1 >= Total(j) THEN "completing" ELSE "polling")
  /\ UNCHANGED <<uploadVars, jobVars, queue, chunk, result, coreVars, faults>>

\* maybe_complete_job: SELECT chunks_done >= chunks_total.
CheckDone(w) ==
  LET j == Job(chunk[w]) IN
  /\ at[w] = "checking"
  /\ Goto(w, IF done[j] >= Total(j) THEN "completing" ELSE "polling")
  /\ UNCHANGED <<uploadVars, jobVars, queue, chunk, result, coreVars, faults>>

\* The SELECT or the UPDATE of complete_job fails: nothing tries again.
CompleteFails(w) ==
  /\ at[w] \in {"checking", "completing"}
  /\ Goto(w, "polling")
  /\ Fault("sql")
  /\ UNCHANGED <<uploadVars, jobVars, queue, chunk, result, coreVars>>

\* complete_job: its CASE, and the UPDATE, which does not look whether the job has
\* its final status already.
StatusOf(p, f) ==
  IF f = 0 THEN "completed" ELSE IF p = 0 THEN "failed" ELSE "partial_success"

CompleteJob(w) ==
  LET j == Job(chunk[w]) IN
  /\ at[w] = "completing"
  /\ status' = [status EXCEPT ![j] = StatusOf(processed[j], failed[j])]
  /\ Goto(w, "polling")
  /\ completed_at' = [completed_at EXCEPT ![j] = @ + 1]
  /\ UNCHANGED <<uploadVars, processed, failed, done, queue, chunk, result, coreVars, faults>>

-----------------------------------------------------------------------------
\* A replica ends (a crash, a deployment, a scale-down) with the workers and
\* the uploads it runs; an upload also ends when its client disconnects.
Crash ==
  \E ws \in SUBSET {w \in Workers : at[w] # "polling"},
     us \in SUBSET {j \in Jobs : upload[j] = "enqueueing"} :
       /\ ws # {} \/ us # {}
       /\ at' = [w \in Workers |-> IF w \in ws THEN "polling" ELSE at[w]]
       /\ upload' = [j \in Jobs |-> IF j \in us THEN "abandoned" ELSE upload[j]]
       /\ Fault("crash")
       /\ UNCHANGED <<next, jobVars, queue, chunk, result, coreVars>>

Upload(j) == CreateJob(j) \/ EnqueueChunk(j) \/ EnqueueFails(j)

Worker(w) ==
  \/ Dequeue(w) \/ PopLost(w)
  \/ Post(w) \/ PostRefused(w) \/ AnswerLost(w) \/ BodyLost(w)
  \/ UpdateProgress(w) \/ UpdateFails(w)
  \/ CheckDone(w) \/ CompleteJob(w) \/ CompleteFails(w)

Next == Crash \/ (\E j \in Jobs : Upload(j)) \/ (\E w \in Workers : Worker(w))

Spec == Init /\ [][Next]_vars

\* The handler and the workers are tasks that the runtime keeps scheduling.
FairSpec ==
  /\ Spec
  /\ \A j \in Jobs : WF_vars(Upload(j))
  /\ \A w \in Workers : WF_vars(Worker(w))

-----------------------------------------------------------------------------
(* Properties.                                                             *)

UnderWay(j) ==
  {w \in Workers : at[w] \in {"posting", "updating"} /\ Job(chunk[w]) = j}

\* Concurrent workers never count a chunk twice: the chunks counted, waiting
\* and under way are at most those the upload has enqueued.
NoChunkCountedTwice ==
  \A j \in Jobs :
    done[j] + Cardinality(Of(queue, j)) + Cardinality(UnderWay(j)) <= next[j] - 1

\* maybe_complete_job reads the row and writes it later, and other workers do
\* the same in between: still a job gets its final status only when all of
\* its chunks are counted, and the status is that of the final counts.
FinalMeansAllCounted ==
  \A j \in Jobs : status[j] \in Final =>
    done[j] = Total(j) /\ status[j] = StatusOf(processed[j], failed[j])

\* The workers that are in maybe_complete_job for job j.
Closing(j) ==
  {w \in Workers : at[w] \in {"checking", "completing"} /\ Job(chunk[w]) = j}

\* Once a job is final its status and its counts stay, and a client may stop
\* polling.  Only completed_at and duration_ms may still be rewritten, by the
\* workers that were in maybe_complete_job when it became final: no other one
\* gets there any more, and each of them rewrites them at most once.
FinalIsFinal ==
  [][\A j \in Jobs : status[j] \in Final =>
       /\ status'[j] = status[j]
       /\ processed'[j] = processed[j] /\ failed'[j] = failed[j] /\ done'[j] = done[j]
       /\ Closing(j)' \subseteq Closing(j)
       /\ completed_at'[j] # completed_at[j] => Closing(j)' # Closing(j)]_vars

\* Unless the body of an answer was cut, a job is reported as completed only
\* if every row of its file was counted as processed: no row is forgotten
\* between the chunks, the answers and the counters.
CompletedMeansProcessed ==
  \A j \in Jobs : status[j] = "completed" /\ "body" \notin faults =>
    processed[j] = Records(j)

\* What is counted as processed is in the database, for a file without rows
\* that PostgreSQL rejects.
ProcessedWasStored ==
  \A j \in Jobs : (\A c \in Of(Chunks, j) : ~Rejected(c, Size(c))) =>
    processed[j] <= Sum(stored, Of(Chunks, j))

\* As long as only calls to mdm-core fail, every job is given a final status,
\* and the client that polls it stops.  A chunk that is lost (not enqueued,
\* popped into nowhere, under way in a replica that ends) or a failed
\* statement on the job's row may leave it in "processing" for ever.
Losses == {"crash", "enqueue", "pop", "sql"}
JobsEnd ==
  \A j \in Jobs :
    status[j] = "processing" ~> status[j] \in Final \/ faults \cap Losses # {}

=============================================================================
