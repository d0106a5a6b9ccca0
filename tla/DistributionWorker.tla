------------------------- MODULE DistributionWorker -------------------------
(***************************************************************************)
(* The workers of distribution-service: each replica polls the table       *)
(* platform.distribution_jobs, posts the payload of each due job to the    *)
(* endpoint of its connector and records what the endpoint answered.       *)
(*                                                                         *)
(* A job that failed waits until next_attempt_at; after MaxAttempts        *)
(* failures it is "failed".  The SELECT ... FOR UPDATE SKIP LOCKED of a    *)
(* poll runs outside a transaction, so its locks are gone when the jobs    *)
(* are executed, and neither UPDATE looks at the status it overwrites.     *)
(*                                                                         *)
(* The order of jobs in a batch (ORDER BY created_at) is left open.        *)
(***************************************************************************)
EXTENDS Naturals, FiniteSets

CONSTANTS
  Jobs,          \* job ids
  Workers,       \* replicas of distribution-service
  AnswersOf,     \* AnswersOf[j]: what the endpoint of job j may answer
  MaxAttempts,   \* MAX_ATTEMPTS of worker.rs
  BatchLimit,    \* LIMIT of the polling query
  Faults,        \* the kinds of faults that may happen
  MaxFaults,     \* bound on crashes and database errors
  None           \* no job

\* "accepted":  a 2xx response
\* "refused":   another response, no response, or an endpoint that fails validation
\* "late":      the endpoint processes the job, but answers after the timeout
\* "unsliceable": an error page whose byte 200 is inside a character
\* "unbuilt":   no connector exists for the connector_type
Answers == {"accepted", "refused", "late", "unsliceable", "unbuilt"}

ASSUME DistributionAssumption ==
  /\ AnswersOf \in [Jobs -> (SUBSET Answers) \ {{}}]
  /\ MaxAttempts \in Nat \ {0}
  /\ BatchLimit \in Nat \ {0}
  /\ Faults \subseteq {"crash", "db"}
  /\ MaxFaults \in Nat
  /\ None \notin Jobs
  /\ IsFiniteSet(Workers)

VARIABLES
  status,        \* status[j]: "none" before the job is enqueued
  attempts,      \* attempts[j]
  due,           \* due[j]: next_attempt_at is NULL or has passed
  batch,         \* batch[w]: rows fetched by w and not executed yet
  cur,           \* cur[w]: the job whose answer w has to record
  answer,        \* answer[w]: the result of send for cur[w]
  alive,         \* alive[w]: the task that runs the worker has not panicked
  sent,          \* sent[j]: how often job j was posted
  accepted,      \* jobs that their endpoint has processed
  faults         \* faults that have happened

jobVars == <<status, attempts, due>>
workerVars == <<batch, cur, answer, alive>>
vars == <<jobVars, workerVars, sent, accepted, faults>>

TypeOK ==
  /\ status \in [Jobs -> {"none", "pending", "completed", "failed"}]
  /\ attempts \in [Jobs -> Nat]
  /\ due \in [Jobs -> BOOLEAN]
  /\ batch \in [Workers -> SUBSET Jobs]
  /\ cur \in [Workers -> Jobs \cup {None}]
  /\ answer \in [Workers -> {"none", "ok", "err"}]
  /\ \A w \in Workers : (cur[w] = None) <=> (answer[w] = "none")
  /\ alive \in [Workers -> BOOLEAN]
  /\ sent \in [Jobs -> Nat]
  /\ accepted \subseteq Jobs
  /\ faults \in 0..MaxFaults

Init ==
  /\ status = [j \in Jobs |-> "none"]
  /\ attempts = [j \in Jobs |-> 0]
  /\ due = [j \in Jobs |-> TRUE]
  /\ batch = [w \in Workers |-> {}]
  /\ cur = [w \in Workers |-> None]
  /\ answer = [w \in Workers |-> "none"]
  /\ alive = [w \in Workers |-> TRUE]
  /\ sent = [j \in Jobs |-> 0]
  /\ accepted = {}
  /\ faults = 0

Fault(kind) ==
  /\ kind \in Faults
  /\ faults < MaxFaults
  /\ faults' = faults + 1

-----------------------------------------------------------------------------
\* enqueue_job: another service inserts a job, pending and due at once.
Enqueue(j) ==
  /\ status[j] = "none"
  /\ status' = [status EXCEPT ![j] = "pending"]
  /\ UNCHANGED <<attempts, due, workerVars, sent, accepted, faults>>

\* next_attempt_at passes.
BackoffElapses(j) ==
  /\ ~due[j]
  /\ due' = [due EXCEPT ![j] = TRUE]
  /\ UNCHANGED <<status, attempts, workerVars, sent, accepted, faults>>

\* DEFECT: the polling query ignores the status.
ReadyWhateverStatus == {j \in Jobs : status[j] # "none" /\ attempts[j] < MaxAttempts /\ due[j]}

\* The WHERE clause of the poll.
Ready == {j \in Jobs : status[j] = "pending" /\ attempts[j] < MaxAttempts /\ due[j]}

\* process_batch: the poll.  Rows that another replica holds may be skipped.
FetchBatch(w) ==
  /\ alive[w]
  /\ cur[w] = None /\ batch[w] = {}
  /\ \E S \in SUBSET Ready :
       /\ S # {}
       /\ Cardinality(S) <= BatchLimit
       /\ batch' = [batch EXCEPT ![w] = S]
  /\ UNCHANGED <<jobVars, cur, answer, alive, sent, accepted, faults>>

\* execute_job: w builds the connector of j, posts the payload and gets a.
Send(w, j, a) ==
  /\ cur[w] = None
  /\ j \in batch[w]
  /\ a \in AnswersOf[j] \ {"unsliceable"}
  /\ batch' = [batch EXCEPT ![w] = @ \ {j}]
  /\ cur' = [cur EXCEPT ![w] = j]
  /\ answer' = [answer EXCEPT ![w] = IF a = "accepted" THEN "ok" ELSE "err"]
  /\ sent' = [sent EXCEPT ![j] = IF a = "unbuilt" THEN @ ELSE @ + 1]
  /\ accepted' = IF a \in {"accepted", "late"} THEN accepted \cup {j} ELSE accepted
  /\ UNCHANGED <<jobVars, alive, faults>>

\* send quotes the first 200 bytes of an error page: slicing a string inside
\* a character panics, which ends the worker's task and nothing else.
SendPanics(w, j) ==
  /\ cur[w] = None
  /\ j \in batch[w]
  /\ "unsliceable" \in AnswersOf[j]
  /\ alive' = [alive EXCEPT ![w] = FALSE]
  /\ batch' = [batch EXCEPT ![w] = {}]
  /\ sent' = [sent EXCEPT ![j] = @ + 1]
  /\ UNCHANGED <<jobVars, cur, answer, accepted, faults>>

\* The worker is done with the job and takes up the next one of its batch.
Recorded(w) ==
  /\ cur' = [cur EXCEPT ![w] = None]
  /\ answer' = [answer EXCEPT ![w] = "none"]
  /\ UNCHANGED <<batch, alive, sent, accepted>>

\* mark_completed
MarkCompleted(w) ==
  /\ answer[w] = "ok"
  /\ status' = [status EXCEPT ![cur[w]] = "completed"]
  /\ Recorded(w)
  /\ UNCHANGED <<attempts, due, faults>>

\* DEFECT: the job gives up one attempt late.
MarkFailedOneLate(w) ==
  /\ answer[w] = "err"
  /\ LET j == cur[w]
         giveUp == attempts[j] >= MaxAttempts
     IN  /\ status' = [status EXCEPT ![j] = IF giveUp THEN "failed" ELSE "pending"]
         /\ due' = [due EXCEPT ![j] = giveUp]
         /\ attempts' = [attempts EXCEPT ![j] = @ + 1]
  /\ Recorded(w)
  /\ UNCHANGED faults

\* DEFECT: the failed attempt is not counted.
MarkFailedUncounted(w) ==
  /\ answer[w] = "err"
  /\ due' = [due EXCEPT ![cur[w]] = FALSE]
  /\ Recorded(w)
  /\ UNCHANGED <<status, attempts, faults>>

\* mark_failed: the attempt is counted, and the job waits for its next
\* attempt (5^attempts seconds) or is given up (next_attempt_at = NULL).
MarkFailed(w) ==
  /\ answer[w] = "err"
  /\ LET j == cur[w]
         giveUp == attempts[j] + 1 >= MaxAttempts
     IN  /\ status' = [status EXCEPT ![j] = IF giveUp THEN "failed" ELSE "pending"]
         /\ due' = [due EXCEPT ![j] = giveUp]
         /\ attempts' = [attempts EXCEPT ![j] = @ + 1]
  /\ Recorded(w)
  /\ UNCHANGED faults

\* The error of either UPDATE is dropped (let _ = ...): the job stays as it is.
MarkLost(w) ==
  /\ answer[w] # "none"
  /\ Fault("db")
  /\ Recorded(w)
  /\ UNCHANGED jobVars

\* The process of w stops and is started again.
Restart(w) ==
  /\ Fault("crash")
  /\ batch' = [batch EXCEPT ![w] = {}]
  /\ cur' = [cur EXCEPT ![w] = None]
  /\ answer' = [answer EXCEPT ![w] = "none"]
  /\ alive' = [alive EXCEPT ![w] = TRUE]
  /\ UNCHANGED <<jobVars, sent, accepted>>

-----------------------------------------------------------------------------
Worker(w) ==
  \/ FetchBatch(w)
  \/ \E j \in Jobs : (\E a \in Answers : Send(w, j, a)) \/ SendPanics(w, j)
  \/ MarkCompleted(w) \/ MarkFailed(w) \/ MarkLost(w)

Next ==
  \/ \E j \in Jobs : Enqueue(j) \/ BackoffElapses(j)
  \/ \E w \in Workers : Worker(w) \/ Restart(w)

Spec == Init /\ [][Next]_vars

\* run polls for ever, every await of execute_job is bounded by a timeout,
\* and time passes.  Nothing restarts a worker that has panicked: /health
\* does not look at it.
Fairness ==
  /\ \A w \in Workers : WF_vars(Worker(w))
  /\ \A j \in Jobs : WF_vars(BackoffElapses(j))

FairSpec == Spec /\ Fairness

-----------------------------------------------------------------------------
(* Properties.                                                             *)

Settled == {"completed", "failed"}

\* Whatever replicas overwrite each other's results, a job that is pending
\* still has an attempt left, so that some later poll selects it: no job is
\* stranded between "pending" and the limit of the polling query.
NoJobStranded == \A j \in Jobs : status[j] = "pending" => attempts[j] < MaxAttempts

\* A job is given up only after MaxAttempts recorded failures, although
\* replicas with stale batches count failures for the same job.
GivenUpAfterMaxAttempts ==
  \A j \in Jobs : status[j] = "failed" => attempts[j] >= MaxAttempts

\* A job is completed only if its endpoint has processed it.
CompletedWasAccepted == \A j \in Jobs : status[j] = "completed" => j \in accepted

\* A job that is settled and that no replica has in its hands any more is
\* settled for good: no poll takes it up and nothing posts it again, whatever
\* statements fail and wherever replicas stop.  (A replica that fetched it
\* before still posts it and overwrites its status.)
Unheld(j) == \A w \in Workers : j \notin batch[w] /\ cur[w] # j
SettledForGood ==
  [][\A j \in Jobs : status[j] \in Settled /\ Unheld(j) =>
       status'[j] = status[j] /\ sent'[j] = sent[j] /\ Unheld(j)']_vars

\* Replicas post the same job in parallel, but no more often than one post of
\* each for every recorded failure, one round more, and one post for each
\* crash or lost UPDATE.
SendsBounded ==
  \A j \in Jobs : sent[j] <= Cardinality(Workers) * (attempts[j] + 1) + faults

\* Every job is eventually completed or given up, whatever its endpoint and
\* those of the other jobs answer, as long as some replica still polls.
JobsEventuallySettled ==
  \A j \in Jobs :
    status[j] = "pending" ~> status[j] \in Settled \/ \A w \in Workers : ~alive[w]
=============================================================================
