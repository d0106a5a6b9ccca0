--------------------------- MODULE OutboundProofs ---------------------------
(***************************************************************************)
(* Proofs about the two components that call others over HTTP and live     *)
(* with their failures: the workers of distribution-service                *)
(* (DistributionWorker), however many replicas overwrite each other's      *)
(* results, and what one replica guarantees on top; and the circuit        *)
(* breaker of api-gateway (CircuitBreaker), for any number of requests,    *)
(* threshold and number of tries.                                          *)
(***************************************************************************)
EXTENDS DistributionWorker, CircuitBreaker, FiniteSetTheorems, TLAPS

\* An "ok" that waits to be recorded is about a job its endpoint processed.
OkWasAccepted == \A w \in Workers : answer[w] = "ok" => cur[w] \in accepted

\* A job that has not been enqueued has no attempts.
NewIsUntried == \A j \in Jobs : status[j] = "none" => attempts[j] = 0

IInv ==
  /\ TypeOK
  /\ NewIsUntried
  /\ NoJobStranded
  /\ GivenUpAfterMaxAttempts
  /\ CompletedWasAccepted
  /\ OkWasAccepted

\* The initial state satisfies the invariant: no job exists, nothing is recorded.
LEMMA IInvInit == Init => IInv
BY DistributionAssumption
DEF DistributionAssumption, Init, IInv, TypeOK, NewIsUntried, NoJobStranded,
    GivenUpAfterMaxAttempts, CompletedWasAccepted, OkWasAccepted

\* Every step of producers, replicas and the environment preserves the invariant.
LEMMA IInvStep == IInv /\ [Next]_vars => IInv'
<1> SUFFICES ASSUME IInv, [Next]_vars PROVE IInv'
  OBVIOUS
<1> USE DistributionAssumption DEF DistributionAssumption, IInv, TypeOK, NewIsUntried,
      NoJobStranded, GivenUpAfterMaxAttempts, CompletedWasAccepted, OkWasAccepted
<1>1. ASSUME NEW j \in Jobs, Enqueue(j) PROVE IInv'
  BY <1>1 DEF Enqueue, workerVars
<1>2. ASSUME NEW j \in Jobs, BackoffElapses(j) PROVE IInv'
  BY <1>2 DEF BackoffElapses, workerVars
<1>3. ASSUME NEW w \in Workers, FetchBatch(w) PROVE IInv'
  BY <1>3 DEF FetchBatch, Ready, jobVars
<1>4. ASSUME NEW w \in Workers, NEW j \in Jobs, NEW a \in Answers, Send(w, j, a) PROVE IInv'
  BY <1>4 DEF Send, jobVars
<1>5. ASSUME NEW w \in Workers, NEW j \in Jobs, SendPanics(w, j) PROVE IInv'
  BY <1>5 DEF SendPanics, jobVars
<1>6. ASSUME NEW w \in Workers, MarkCompleted(w) PROVE IInv'
  BY <1>6 DEF MarkCompleted, Recorded
<1>7. ASSUME NEW w \in Workers, MarkFailed(w) PROVE IInv'
  BY <1>7 DEF MarkFailed, Recorded
<1>8. ASSUME NEW w \in Workers, MarkLost(w) PROVE IInv'
  BY <1>8 DEF MarkLost, Recorded, Fault, jobVars
<1>9. ASSUME NEW w \in Workers, Restart(w) PROVE IInv'
  BY <1>9 DEF Restart, Fault, jobVars
<1>10. CASE UNCHANGED vars
  BY <1>10 DEF vars, jobVars, workerVars
<1> QED
  BY <1>1, <1>2, <1>3, <1>4, <1>5, <1>6, <1>7, <1>8, <1>9, <1>10 DEF Next, Worker

\* The workers keep their state well typed.
THEOREM TypeCorrect == Spec => []TypeOK
<1>1. IInv => TypeOK
  BY DEF IInv
<1> QED
  BY <1>1, IInvInit, IInvStep, PTL DEF Spec

\* No job is stranded: what is pending can still be selected by a poll, for
\* any number of replicas, jobs and faults.
THEOREM NoJobStrandedCorrect == Spec => []NoJobStranded
<1>1. IInv => NoJobStranded
  BY DEF IInv
<1> QED
  BY <1>1, IInvInit, IInvStep, PTL DEF Spec

\* A job that is given up has MaxAttempts recorded failures.
THEOREM GivenUpCorrect == Spec => []GivenUpAfterMaxAttempts
<1>1. IInv => GivenUpAfterMaxAttempts
  BY DEF IInv
<1> QED
  BY <1>1, IInvInit, IInvStep, PTL DEF Spec

\* A job is completed only if its endpoint has processed it.
THEOREM CompletedCorrect == Spec => []CompletedWasAccepted
<1>1. IInv => CompletedWasAccepted
  BY DEF IInv
<1> QED
  BY <1>1, IInvInit, IInvStep, PTL DEF Spec

-----------------------------------------------------------------------------
(* One replica.                                                            *)

\* What a replica holds is still to be done: nothing else settles a job or
\* makes it wait between the poll and the UPDATE.  Two replicas refute this.
HoldsOpenJobs ==
  \A w \in Workers :
    /\ \A j \in batch[w] : status[j] = "pending" /\ due[j]
    /\ cur[w] # None => cur[w] \notin batch[w] /\ status[cur[w]] = "pending"

SInv == TypeOK /\ HoldsOpenJobs

LEMMA SInvStep ==
  ASSUME NEW only, Workers = {only}, SInv, [Next]_vars, TypeOK'
  PROVE  HoldsOpenJobs'
<1> USE DistributionAssumption DEF DistributionAssumption, SInv, TypeOK, HoldsOpenJobs
<1>1. ASSUME NEW j \in Jobs, Enqueue(j) PROVE HoldsOpenJobs'
  BY <1>1 DEF Enqueue, workerVars
<1>2. ASSUME NEW j \in Jobs, BackoffElapses(j) PROVE HoldsOpenJobs'
  BY <1>2 DEF BackoffElapses, workerVars
<1>3. ASSUME NEW w \in Workers, FetchBatch(w) PROVE HoldsOpenJobs'
  BY <1>3 DEF FetchBatch, Ready, jobVars
<1>4. ASSUME NEW w \in Workers, NEW j \in Jobs, NEW a \in Answers, Send(w, j, a)
      PROVE HoldsOpenJobs'
  BY <1>4 DEF Send, jobVars
<1>5. ASSUME NEW w \in Workers, NEW j \in Jobs, SendPanics(w, j) PROVE HoldsOpenJobs'
  BY <1>5 DEF SendPanics, jobVars
<1>6. ASSUME NEW w \in Workers, MarkCompleted(w) PROVE HoldsOpenJobs'
  BY <1>6 DEF MarkCompleted, Recorded
<1>7. ASSUME NEW w \in Workers, MarkFailed(w) PROVE HoldsOpenJobs'
  BY <1>7 DEF MarkFailed, Recorded
<1>8. ASSUME NEW w \in Workers, MarkLost(w) PROVE HoldsOpenJobs'
  BY <1>8 DEF MarkLost, Recorded, Fault, jobVars
<1>9. ASSUME NEW w \in Workers, Restart(w) PROVE HoldsOpenJobs'
  BY <1>9 DEF Restart, Fault, jobVars
<1>10. CASE UNCHANGED vars
  BY <1>10 DEF vars, jobVars, workerVars
<1> QED
  BY <1>1, <1>2, <1>3, <1>4, <1>5, <1>6, <1>7, <1>8, <1>9, <1>10 DEF Next, Worker

\* A single replica holds open jobs only, so that every settled job of its is
\* settled for good.
THEOREM OneReplica ==
  ASSUME NEW only, Workers = {only}
  PROVE  Spec => [](\A j \in Jobs : status[j] \in Settled => Unheld(j))
<1>1. Init => SInv
  BY DistributionAssumption DEF Init, SInv, TypeOK, HoldsOpenJobs, DistributionAssumption
<1>2. Spec => []TypeOK
  BY TypeCorrect
<1>3. SInv /\ TypeOK' /\ [Next]_vars => SInv'
  BY SInvStep DEF SInv
<1>4. SInv => \A j \in Jobs : status[j] \in Settled => Unheld(j)
  BY DistributionAssumption
  DEF SInv, TypeOK, HoldsOpenJobs, Settled, Unheld, DistributionAssumption
<1> QED
  BY <1>1, <1>2, <1>3, <1>4, PTL DEF Spec

\* A job as an event of EventDelivery: an obligation while it is pending, delivered
\* when its endpoint has processed it, dead when it has been given up.
OpenJobs == {j \in Jobs : status[j] = "pending"}
DeadJobs == {j \in Jobs : status[j] = "failed"}
Delivery == INSTANCE EventDelivery
              WITH Events <- Jobs, open <- OpenJobs, delivered <- accepted, dead <- DeadJobs

\* Every step of the replica is a step of the promise or leaves it as it is.
LEMMA DeliveryStep ==
  ASSUME NEW only, Workers = {only}, IInv, HoldsOpenJobs, [Next]_vars
  PROVE  [Delivery!Next]_(Delivery!vars)
<1> DEFINE Goal == [Delivery!Next]_(Delivery!vars)
<1> SUFFICES Goal
  OBVIOUS
<1>0. /\ TypeOK /\ OkWasAccepted /\ None \notin Jobs
      /\ \A w \in Workers : cur[w] # None => cur[w] \in OpenJobs
      /\ \A w \in Workers : batch[w] \subseteq OpenJobs
  BY DistributionAssumption
  DEF DistributionAssumption, IInv, TypeOK, HoldsOpenJobs, OpenJobs
<1>1. ASSUME OpenJobs' = OpenJobs, DeadJobs' = DeadJobs, accepted' = accepted PROVE Goal
  BY <1>1 DEF Delivery!vars
<1>2. ASSUME NEW j \in Jobs, Enqueue(j) PROVE Goal
  <2>1. OpenJobs' = OpenJobs \cup {j} /\ DeadJobs' = DeadJobs /\ accepted' = accepted
    BY <1>0, <1>2 DEF Enqueue, OpenJobs, DeadJobs, TypeOK
  <2>2. {j} \in SUBSET Jobs
    OBVIOUS
  <2> QED
    BY <2>1, <2>2 DEF Delivery!Commit, Delivery!Next
<1>3. ASSUME NEW w \in Workers, NEW j \in Jobs, NEW a \in Answers, Send(w, j, a) PROVE Goal
  <2>1. OpenJobs' = OpenJobs /\ DeadJobs' = DeadJobs /\ j \in OpenJobs
    BY <1>0, <1>3 DEF Send, jobVars, OpenJobs, DeadJobs
  <2>2. CASE a \in {"accepted", "late"}
    <3>1. accepted' = accepted \cup {j}
      BY <1>3, <2>2 DEF Send
    <3> QED
      BY <2>1, <3>1 DEF Delivery!Deliver, Delivery!Next
  <2>3. CASE a \notin {"accepted", "late"}
    BY <1>1, <1>3, <2>1, <2>3 DEF Send
  <2> QED
    BY <2>2, <2>3
<1>4. ASSUME NEW w \in Workers, MarkCompleted(w) PROVE Goal
  <2>1. PICK j \in Jobs : j = cur[w] /\ j \in OpenJobs \cap accepted
    BY <1>0, <1>4 DEF MarkCompleted, OkWasAccepted, TypeOK
  <2>2. OpenJobs' = OpenJobs \ {j} /\ DeadJobs' = DeadJobs /\ accepted' = accepted
    BY <1>0, <1>4, <2>1 DEF MarkCompleted, Recorded, OpenJobs, DeadJobs, TypeOK
  <2> QED
    BY <2>1, <2>2 DEF Delivery!Discharge, Delivery!Next
<1>5. ASSUME NEW w \in Workers, MarkFailed(w) PROVE Goal
  <2>1. PICK j \in Jobs : j = cur[w] /\ j \in OpenJobs
    BY <1>0, <1>5 DEF MarkFailed, TypeOK
  <2>2. accepted' = accepted
    BY <1>5 DEF MarkFailed, Recorded
  <2>3. CASE attempts[j] + 1 >= MaxAttempts
    <3>1. OpenJobs' = OpenJobs \ {j} /\ DeadJobs' = DeadJobs \cup {j}
      BY <1>0, <1>5, <2>1, <2>3 DEF MarkFailed, OpenJobs, DeadJobs, TypeOK
    <3> QED
      BY <2>1, <2>2, <3>1 DEF Delivery!Bury, Delivery!Next
  <2>4. CASE ~(attempts[j] + 1 >= MaxAttempts)
    <3>1. OpenJobs' = OpenJobs /\ DeadJobs' = DeadJobs
      BY <1>0, <1>5, <2>1, <2>4 DEF MarkFailed, OpenJobs, DeadJobs, TypeOK
    <3> QED
      BY <1>1, <2>2, <3>1
  <2> QED
    BY <2>3, <2>4
<1>6. ASSUME UNCHANGED <<status, accepted>> PROVE Goal
  BY <1>1, <1>6 DEF OpenJobs, DeadJobs
<1>7. ASSUME NEW j \in Jobs, BackoffElapses(j) PROVE Goal
  BY <1>6, <1>7 DEF BackoffElapses
<1>8. ASSUME NEW w \in Workers,
             \/ FetchBatch(w) \/ MarkLost(w) \/ Restart(w)
             \/ \E j \in Jobs : SendPanics(w, j)
      PROVE  Goal
  BY <1>6, <1>8 DEF FetchBatch, MarkLost, Restart, SendPanics, Recorded, jobVars
<1>9. CASE UNCHANGED vars
  BY <1>6, <1>9 DEF vars, jobVars
<1> HIDE DEF Goal
<1> QED
  BY <1>2, <1>3, <1>4, <1>5, <1>7, <1>8, <1>9 DEF Next, Worker

\* A single replica hands jobs over as the outbox relay does events: a pending job
\* stays an obligation, through crashes, failing statements and panics, until its
\* endpoint has processed it or it has been given up.  (Two replicas do not: one may
\* record as completed a job that the other has given up, worker.rs:103.)
THEOREM OneReplicaDelivers ==
  ASSUME NEW only, Workers = {only}
  PROVE  Spec => Delivery!Spec
<1>1. Init => Delivery!Init
  BY DEF Init, Delivery!Init, OpenJobs, DeadJobs
<1>2. Init => SInv
  BY DistributionAssumption DEF Init, SInv, TypeOK, HoldsOpenJobs, DistributionAssumption
<1>3. IInv /\ SInv /\ [Next]_vars => IInv' /\ SInv'
  BY IInvStep, SInvStep DEF SInv, IInv
<1>4. IInv /\ SInv /\ [Next]_vars => [Delivery!Next]_(Delivery!vars)
  BY DeliveryStep DEF SInv
<1> QED
  BY <1>1, <1>2, <1>3, <1>4, IInvInit, PTL DEF Spec, Delivery!Spec

-----------------------------------------------------------------------------
(* Any number of replicas.                                                 *)

\* No step touches a settled job that no replica holds: polls take up pending
\* jobs only, and a replica posts and marks nothing but what it holds.
LEMMA SettledStep ==
  ASSUME TypeOK, [Next]_vars, NEW j \in Jobs, status[j] \in Settled, Unheld(j)
  PROVE  status'[j] = status[j] /\ sent'[j] = sent[j] /\ Unheld(j)'
<1> DEFINE Goal == status'[j] = status[j] /\ sent'[j] = sent[j] /\ Unheld(j)'
<1> SUFFICES Goal
  OBVIOUS
<1>0. j # None
  BY DistributionAssumption DEF DistributionAssumption
<1> USE DEF Unheld, Settled, TypeOK
<1>1. ASSUME NEW i \in Jobs, Enqueue(i) \/ BackoffElapses(i) PROVE Goal
  BY <1>1 DEF Enqueue, BackoffElapses, workerVars
<1>2. ASSUME NEW w \in Workers, FetchBatch(w) PROVE Goal
  BY <1>2 DEF FetchBatch, Ready, jobVars
<1>3. ASSUME NEW w \in Workers, NEW i \in Jobs, NEW a \in Answers, Send(w, i, a) PROVE Goal
  <2>1. i # j
    BY <1>3 DEF Send
  <2>2. status'[j] = status[j] /\ sent'[j] = sent[j]
    BY <1>3, <2>1 DEF Send, jobVars
  <2>3. Unheld(j)'
    BY <1>3, <2>1 DEF Send
  <2> QED
    BY <2>2, <2>3
<1>4. ASSUME NEW w \in Workers, NEW i \in Jobs, SendPanics(w, i) PROVE Goal
  <2>1. i # j
    BY <1>4 DEF SendPanics
  <2>2. status'[j] = status[j] /\ sent'[j] = sent[j]
    BY <1>4, <2>1 DEF SendPanics, jobVars
  <2>3. Unheld(j)'
    BY <1>4 DEF SendPanics
  <2> QED
    BY <2>2, <2>3
<1>5. ASSUME NEW w \in Workers, MarkCompleted(w) PROVE Goal
  <2>1. Unheld(j)'
    BY <1>0, <1>5 DEF MarkCompleted, Recorded
  <2>2. status'[j] = status[j] /\ sent'[j] = sent[j]
    BY <1>5 DEF MarkCompleted, Recorded
  <2> QED
    BY <2>1, <2>2
<1>6. ASSUME NEW w \in Workers, MarkFailed(w) PROVE Goal
  <2>1. Unheld(j)'
    BY <1>0, <1>6 DEF MarkFailed, Recorded
  <2>2. status'[j] = status[j] /\ sent'[j] = sent[j]
    BY <1>6 DEF MarkFailed, Recorded
  <2> QED
    BY <2>1, <2>2
<1>7. ASSUME NEW w \in Workers, MarkLost(w) PROVE Goal
  <2>1. Unheld(j)'
    BY <1>0, <1>7 DEF MarkLost, Recorded
  <2>2. status'[j] = status[j] /\ sent'[j] = sent[j]
    BY <1>7 DEF MarkLost, Recorded, jobVars
  <2> QED
    BY <2>1, <2>2
<1>8. ASSUME NEW w \in Workers, Restart(w) PROVE Goal
  <2>1. Unheld(j)'
    BY <1>0, <1>8 DEF Restart
  <2>2. status'[j] = status[j] /\ sent'[j] = sent[j]
    BY <1>8 DEF Restart, jobVars
  <2> QED
    BY <2>1, <2>2
<1>9. CASE UNCHANGED vars
  BY <1>9 DEF vars, jobVars, workerVars
<1> HIDE DEF Goal
<1> QED
  BY <1>1, <1>2, <1>3, <1>4, <1>5, <1>6, <1>7, <1>8, <1>9
  DEF Next, Worker

\* Once no replica holds a settled job, it is never posted again and keeps its
\* status: what remains of the races between replicas ends with their batches.
THEOREM SettledCorrect == Spec => SettledForGood
<1>1. Spec => []TypeOK
  BY TypeCorrect
<1>2. TypeOK /\ [Next]_vars =>
        [\A j \in Jobs : status[j] \in Settled /\ Unheld(j) =>
           status'[j] = status[j] /\ sent'[j] = sent[j] /\ Unheld(j)']_vars
  BY SettledStep
<1> QED
  BY <1>1, <1>2, PTL DEF Spec, SettledForGood

-----------------------------------------------------------------------------
(* How often a job is posted.                                              *)

\* A replica that holds jobs is running, and no longer holds the one it posted.
HoldsApart ==
  \A w \in Workers :
    /\ cur[w] \notin batch[w]
    /\ batch[w] # {} \/ cur[w] # None => alive[w]

\* The replicas that may still post j before anything else happens to it: of
\* an open job all that could poll it, of a settled one those that hold it.
MayPost(j) ==
  IF status[j] \in Settled
  THEN {w \in Workers : j \in batch[w]}
  ELSE {w \in Workers : alive[w] /\ cur[w] # j}

Allowed(j) == Cardinality(Workers) * (attempts[j] + 1) + faults

\* SendsBounded leaves room for the posts that are still to come.
RoomLeft == \A j \in Jobs : sent[j] + Cardinality(MayPost(j)) <= Allowed(j)

PInv == TypeOK /\ HoldsApart /\ RoomLeft

\* There are finitely many replicas, and no more may post than there are.
LEMMA MayPostType ==
  ASSUME NEW j \in Jobs
  PROVE  /\ Cardinality(Workers) \in Nat
         /\ MayPost(j) \subseteq Workers /\ IsFiniteSet(MayPost(j))
         /\ Cardinality(MayPost(j)) \in Nat
         /\ Cardinality(MayPost(j)) <= Cardinality(Workers)
<1>1. MayPost(j) \subseteq Workers /\ IsFiniteSet(Workers)
  BY DistributionAssumption DEF MayPost, DistributionAssumption
<1> QED
  BY <1>1, FS_Subset, FS_CardinalityType

\* The same in the next state.
LEMMA MayPostTypeNext ==
  ASSUME NEW j \in Jobs
  PROVE  /\ MayPost(j)' \subseteq Workers /\ IsFiniteSet(MayPost(j)')
         /\ Cardinality(MayPost(j)') \in Nat
         /\ Cardinality(MayPost(j)') <= Cardinality(Workers)
<1>1. MayPost(j)' \subseteq Workers /\ IsFiniteSet(Workers)
  BY DistributionAssumption DEF MayPost, DistributionAssumption
<1> QED
  BY <1>1, FS_Subset, FS_CardinalityType

\* One more attempt makes room for one more post of every replica.
LEMMA AllowedGrows ==
  ASSUME NEW n \in Nat, NEW a \in Nat
  PROVE  /\ n * (a + 1) \in Nat
         /\ n * (a + 1 + 1) = n * (a + 1) + n
OBVIOUS

\* A step after which no further replica may post j needs no room for it.
LEMMA NoMorePosters ==
  ASSUME PInv, NEW j \in Jobs, MayPost(j)' \subseteq MayPost(j),
         sent'[j] = sent[j], attempts'[j] = attempts[j], faults' = faults
  PROVE  sent'[j] + Cardinality(MayPost(j)') <= Allowed(j)'
<1>1. Cardinality(MayPost(j)') <= Cardinality(MayPost(j))
  BY MayPostType, FS_Subset
<1>2. Allowed(j)' = Allowed(j) /\ Allowed(j) \in Nat
  BY MayPostType, AllowedGrows DEF Allowed, PInv, TypeOK
<1> QED
  BY <1>1, <1>2, MayPostType, MayPostTypeNext DEF PInv, RoomLeft, TypeOK

\* A post uses up the room of the replica that makes it.
LEMMA OnePosterLess ==
  ASSUME PInv, NEW j \in Jobs, NEW w \in MayPost(j), MayPost(j)' \subseteq MayPost(j) \ {w},
         sent'[j] \in {sent[j], sent[j] + 1}, attempts'[j] = attempts[j], faults' = faults
  PROVE  sent'[j] + Cardinality(MayPost(j)') <= Allowed(j)'
<1>1. Cardinality(MayPost(j)') <= Cardinality(MayPost(j)) - 1
  <2>1. /\ IsFiniteSet(MayPost(j) \ {w})
        /\ Cardinality(MayPost(j) \ {w}) = Cardinality(MayPost(j)) - 1
    BY MayPostType, FS_RemoveElement
  <2> QED
    BY <2>1, FS_Subset
<1>2. Allowed(j)' = Allowed(j) /\ Allowed(j) \in Nat
  BY MayPostType, AllowedGrows DEF Allowed, PInv, TypeOK
<1> QED
  BY <1>1, <1>2, MayPostType, MayPostTypeNext DEF PInv, RoomLeft, TypeOK

\* A fault makes room for one post.
LEMMA OneFaultMore ==
  ASSUME PInv, NEW j \in Jobs, NEW w \in Workers, MayPost(j)' \subseteq MayPost(j) \cup {w},
         sent'[j] = sent[j], attempts'[j] = attempts[j], faults' = faults + 1
  PROVE  sent'[j] + Cardinality(MayPost(j)') <= Allowed(j)'
<1>1. Cardinality(MayPost(j)') <= Cardinality(MayPost(j)) + 1
  <2>0. IsFiniteSet(MayPost(j)) /\ Cardinality(MayPost(j)) \in Nat
    BY MayPostType
  <2>1. /\ IsFiniteSet(MayPost(j) \cup {w})
        /\ Cardinality(MayPost(j) \cup {w}) =
             IF w \in MayPost(j) THEN Cardinality(MayPost(j)) ELSE Cardinality(MayPost(j)) + 1
    BY <2>0, FS_AddElement
  <2> QED
    BY <2>0, <2>1, FS_Subset, MayPostTypeNext
<1>2. Allowed(j)' = Allowed(j) + 1 /\ Allowed(j) \in Nat
  BY MayPostType, AllowedGrows DEF Allowed, PInv, TypeOK
<1> QED
  BY <1>1, <1>2, MayPostType, MayPostTypeNext DEF PInv, RoomLeft, TypeOK

\* A recorded failure makes room for every replica.
LEMMA OneAttemptMore ==
  ASSUME PInv, NEW j \in Jobs,
         sent'[j] = sent[j], attempts'[j] = attempts[j] + 1, faults' = faults
  PROVE  sent'[j] + Cardinality(MayPost(j)') <= Allowed(j)'
<1>1. Allowed(j)' = Allowed(j) + Cardinality(Workers) /\ Allowed(j) \in Nat
  BY MayPostType, AllowedGrows DEF Allowed, PInv, TypeOK
<1> QED
  BY <1>1, MayPostType, MayPostTypeNext DEF PInv, RoomLeft, TypeOK

\* The initial state: nothing is posted, every replica may.
LEMMA PInvInit == Init => PInv
<1> SUFFICES ASSUME Init PROVE PInv
  OBVIOUS
<1>1. TypeOK
  BY DistributionAssumption DEF Init, TypeOK, DistributionAssumption
<1>2. HoldsApart
  BY DEF Init, HoldsApart
<1>3. ASSUME NEW j \in Jobs PROVE sent[j] + Cardinality(MayPost(j)) <= Allowed(j)
  <2>1. sent[j] = 0 /\ attempts[j] = 0 /\ faults = 0
    BY <1>3 DEF Init
  <2> QED
    BY <2>1, MayPostType DEF Allowed
<1> QED
  BY <1>1, <1>2, <1>3 DEF PInv, RoomLeft

\* A replica takes up jobs only when it has finished the last.
LEMMA HoldsApartStep ==
  ASSUME TypeOK, HoldsApart, [Next]_vars
  PROVE  HoldsApart'
<1> USE DistributionAssumption DEF DistributionAssumption, TypeOK, HoldsApart
<1>1. ASSUME NEW j \in Jobs, Enqueue(j) \/ BackoffElapses(j) PROVE HoldsApart'
  BY <1>1 DEF Enqueue, BackoffElapses, workerVars
<1>2. ASSUME NEW w \in Workers, FetchBatch(w) PROVE HoldsApart'
  BY <1>2 DEF FetchBatch, Ready
<1>3. ASSUME NEW w \in Workers, NEW j \in Jobs, NEW a \in Answers, Send(w, j, a)
      PROVE  HoldsApart'
  BY <1>3 DEF Send
<1>4. ASSUME NEW w \in Workers, NEW j \in Jobs, SendPanics(w, j) PROVE HoldsApart'
  BY <1>4 DEF SendPanics
<1>5. ASSUME NEW w \in Workers, MarkCompleted(w) \/ MarkFailed(w) \/ MarkLost(w)
      PROVE  HoldsApart'
  BY <1>5 DEF MarkCompleted, MarkFailed, MarkLost, Recorded
<1>6. ASSUME NEW w \in Workers, Restart(w) PROVE HoldsApart'
  BY <1>6 DEF Restart
<1>7. CASE UNCHANGED vars
  BY <1>7 DEF vars, workerVars
<1> QED
  BY <1>1, <1>2, <1>3, <1>4, <1>5, <1>6, <1>7 DEF Next, Worker

\* No step uses more room than it leaves.
LEMMA RoomLeftStep ==
  ASSUME PInv, [Next]_vars, NEW j \in Jobs
  PROVE  sent'[j] + Cardinality(MayPost(j)') <= Allowed(j)'
<1> DEFINE Goal == sent'[j] + Cardinality(MayPost(j)') <= Allowed(j)'
<1> SUFFICES Goal
  OBVIOUS
<1>0. j # None /\ TypeOK /\ HoldsApart
  BY DistributionAssumption DEF DistributionAssumption, PInv
<1> HIDE DEF Goal
<1>1. ASSUME MayPost(j)' \subseteq MayPost(j), UNCHANGED <<sent[j], attempts[j], faults>> PROVE Goal
  BY <1>1, NoMorePosters DEF Goal
<1>2. ASSUME NEW i \in Jobs, Enqueue(i) \/ BackoffElapses(i) PROVE Goal
  <2>1. MayPost(j)' \subseteq MayPost(j)
    BY <1>0, <1>2 DEF Enqueue, BackoffElapses, workerVars, MayPost, Settled, TypeOK
  <2> QED
    BY <1>1, <1>2, <2>1 DEF Enqueue, BackoffElapses
<1>3. ASSUME NEW w \in Workers, FetchBatch(w) PROVE Goal
  <2>1. MayPost(j)' \subseteq MayPost(j)
    BY <1>0, <1>3 DEF FetchBatch, Ready, jobVars, MayPost, Settled, TypeOK
  <2> QED
    BY <1>1, <1>3, <2>1 DEF FetchBatch, jobVars
<1>4. ASSUME NEW w \in Workers, NEW i \in Jobs, NEW a \in Answers, Send(w, i, a) PROVE Goal
  <2>1. CASE i = j
    <3>1. w \in MayPost(j) /\ MayPost(j)' \subseteq MayPost(j) \ {w}
      BY <1>0, <1>4, <2>1 DEF Send, jobVars, MayPost, HoldsApart, TypeOK
    <3>2. sent'[j] \in {sent[j], sent[j] + 1} /\ UNCHANGED <<attempts[j], faults>>
      BY <1>0, <1>4, <2>1 DEF Send, jobVars, TypeOK
    <3> QED
      BY <3>1, <3>2, OnePosterLess DEF Goal
  <2>2. CASE i # j
    <3>1. MayPost(j)' \subseteq MayPost(j)
      BY <1>0, <1>4, <2>2 DEF Send, jobVars, MayPost, TypeOK
    <3>2. UNCHANGED <<sent[j], attempts[j], faults>>
      BY <1>0, <1>4, <2>2 DEF Send, jobVars, TypeOK
    <3> QED
      BY <1>1, <3>1, <3>2
  <2> QED
    BY <2>1, <2>2
<1>5. ASSUME NEW w \in Workers, NEW i \in Jobs, SendPanics(w, i) PROVE Goal
  <2>1. MayPost(j)' \subseteq MayPost(j) \ {w}
    BY <1>0, <1>5 DEF SendPanics, jobVars, MayPost, TypeOK
  <2>2. CASE i = j
    <3>1. w \in MayPost(j)
      BY <1>0, <1>5, <2>2 DEF SendPanics, MayPost, HoldsApart
    <3>2. sent'[j] = sent[j] + 1 /\ UNCHANGED <<attempts[j], faults>>
      BY <1>0, <1>5, <2>2 DEF SendPanics, jobVars, TypeOK
    <3> QED
      BY <2>1, <3>1, <3>2, OnePosterLess DEF Goal
  <2>3. CASE i # j
    BY <1>0, <1>1, <1>5, <2>1, <2>3 DEF SendPanics, jobVars, TypeOK
  <2> QED
    BY <2>2, <2>3
<1>6. ASSUME NEW w \in Workers, MarkCompleted(w) PROVE Goal
  <2>1. MayPost(j)' \subseteq MayPost(j)
    <3>1. cur[w] # None
      BY <1>0, <1>6 DEF MarkCompleted, TypeOK
    <3>2. CASE cur[w] = j
      BY <1>0, <1>6, <3>2 DEF MarkCompleted, Recorded, MayPost, Settled, HoldsApart, TypeOK
    <3>3. CASE cur[w] # j
      <4>1. status'[j] = status[j] /\ batch' = batch /\ alive' = alive
        BY <1>0, <1>6, <3>3 DEF MarkCompleted, Recorded, TypeOK
      <4>2. \A v \in Workers : cur'[v] # j => cur[v] # j
        BY <1>0, <1>6, <3>3 DEF MarkCompleted, Recorded, TypeOK
      <4> QED
        BY <4>1, <4>2 DEF MayPost
    <3> QED
      BY <3>2, <3>3
  <2> QED
    BY <1>1, <1>6, <2>1 DEF MarkCompleted, Recorded
<1>7. ASSUME NEW w \in Workers, MarkFailed(w) PROVE Goal
  <2>1. sent' = sent /\ faults' = faults
    BY <1>7 DEF MarkFailed, Recorded
  <2>2. CASE cur[w] = j
    <3>1. attempts'[j] = attempts[j] + 1
      BY <1>0, <1>7, <2>2 DEF MarkFailed, TypeOK
    <3> QED
      BY <2>1, <3>1, OneAttemptMore DEF Goal
  <2>3. CASE cur[w] # j
    <3>1. status'[j] = status[j] /\ attempts'[j] = attempts[j] /\ batch' = batch /\ alive' = alive
      BY <1>0, <1>7, <2>3 DEF MarkFailed, Recorded, TypeOK
    <3>2. \A v \in Workers : cur'[v] # j => cur[v] # j
      BY <1>0, <1>7, <2>3 DEF MarkFailed, Recorded, TypeOK
    <3>3. MayPost(j)' \subseteq MayPost(j)
      BY <3>1, <3>2 DEF MayPost
    <3> QED
      BY <1>1, <2>1, <3>1, <3>3
  <2> QED
    BY <2>2, <2>3
<1>8. ASSUME NEW w \in Workers, MarkLost(w) \/ Restart(w) PROVE Goal
  <2>1. UNCHANGED <<jobVars, sent>> /\ faults' = faults + 1
    BY <1>8 DEF MarkLost, Restart, Recorded, Fault
  <2>2. \A v \in Workers \ {w} : cur'[v] = cur[v] /\ batch'[v] = batch[v] /\ alive'[v] = alive[v]
    BY <1>0, <1>8 DEF MarkLost, Restart, Recorded, TypeOK
  <2>3. MayPost(j)' \subseteq MayPost(j) \cup {w}
    BY <2>1, <2>2 DEF MayPost, jobVars
  <2> QED
    BY <2>1, <2>3, OneFaultMore DEF jobVars, Goal
<1>9. CASE UNCHANGED vars
  BY <1>1, <1>9 DEF vars, jobVars, workerVars, MayPost
<1> QED
  BY <1>2, <1>3, <1>4, <1>5, <1>6, <1>7, <1>8, <1>9 DEF Next, Worker

\* Replicas that work with stale batches post a job no more often than once
\* each per recorded failure, one round more, and once per fault.
THEOREM SendsBoundedCorrect == Spec => []SendsBounded
<1>1. Spec => []TypeOK
  BY TypeCorrect
<1>2. PInv /\ TypeOK' /\ [Next]_vars => PInv'
  BY HoldsApartStep, RoomLeftStep DEF PInv, RoomLeft
<1>3. PInv => SendsBounded
  <2> SUFFICES ASSUME PInv, NEW j \in Jobs
               PROVE  sent[j] <= Cardinality(Workers) * (attempts[j] + 1) + faults
    BY DEF SendsBounded
  <2>1. sent[j] + Cardinality(MayPost(j)) <= Allowed(j)
    BY DEF PInv, RoomLeft
  <2>2. Allowed(j) \in Nat /\ sent[j] \in Nat
    BY MayPostType, AllowedGrows DEF Allowed, PInv, TypeOK
  <2>3. sent[j] <= Allowed(j)
    BY <2>1, <2>2, MayPostType
  <2> QED
    BY <2>3 DEF Allowed
<1> QED
  BY <1>1, <1>2, <1>3, PInvInit, PTL DEF Spec

-----------------------------------------------------------------------------
(* The circuit breaker: only a success recorded during a trip separates    *)
(* the two atomics.                                                        *)

\* No trip is recorded during a success, or that is in the history.
Apart == Overlap => raced

\* What a record_success that is under way has stored is still there.
StoresHold ==
  ~raced => \A r \in Requests : stores[r] # {} =>
    /\ "failures" \notin stores[r] => ~Tripped
    /\ "opened_at" \notin stores[r] => age = Zero

\* Outside record_success the atomics agree, up to a stamp under way.
Agreement ==
  ~raced /\ (\A r \in Requests : stores[r] = {}) =>
    /\ age # Zero => Tripped
    /\ (\E r \in Requests : pc[r] = "stamping") => Tripped
    /\ Tripped => age # Zero \/ \E r \in Requests : pc[r] = "stamping"

BreakerInv == BreakerTypeOK /\ Apart /\ StoresHold /\ Agreement

\* A breaker starts closed.
LEMMA BreakerInvInit == BreakerInit => BreakerInv
<1> SUFFICES ASSUME BreakerInit PROVE BreakerInv
  OBVIOUS
<1> USE BreakerAssumption DEF BreakerAssumption, BreakerInit, Zero
<1>1. BreakerTypeOK
  <2>1. 0 \in 0..Threshold /\ 0 \in 0..(MaxTries - 1)
    OBVIOUS
  <2>2. /\ failures \in 0..Threshold
        /\ age \in {Zero} \cup 0..OpenDuration
        /\ tries \in [Requests -> 0..(MaxTries - 1)]
    BY <2>1
  <2>3. /\ stores \in [Requests -> SUBSET {"failures", "opened_at"}]
        /\ \A r \in Requests : stores[r] # {} => pc[r] = "succeeded"
        /\ probe \subseteq Requests
    OBVIOUS
  <2>4. pc \in [Requests -> {"idle", "checking", "sending", "succeeded", "failed", "stamping"}]
    OBVIOUS
  <2> QED
    BY <2>2, <2>3, <2>4 DEF BreakerTypeOK
<1>2. Apart
  BY DEF Apart, Overlap
<1>3. StoresHold /\ Agreement
  BY DEF StoresHold, Agreement, Tripped
<1> QED
  BY <1>1, <1>2, <1>3 DEF BreakerInv

\* One action of a request or of the clock.
Act == Tick \/ \E r \in Requests : Request(r)

\* The types: a request keeps stores only inside record_success.
LEMMA BreakerTypeStep == ASSUME BreakerTypeOK, Act, raced' \in BOOLEAN PROVE BreakerTypeOK'
<1> USE BreakerAssumption DEF BreakerAssumption, BreakerTypeOK, Goto, Zero
<1>1. CASE Tick
  BY <1>1 DEF Tick
<1>2. ASSUME NEW r \in Requests, LoadFailures(r) \/ LoadOpenedAt(r) PROVE BreakerTypeOK'
  BY <1>2 DEF LoadFailures, LoadOpenedAt
<1>3. ASSUME NEW r \in Requests, Succeeds(r) \/ Fails(r) \/ EndsUnrecorded(r) PROVE BreakerTypeOK'
  BY <1>3 DEF Succeeds, Fails, EndsUnrecorded
<1>4. ASSUME NEW r \in Requests, StoreFailures(r) \/ StoreOpenedAt(r) PROVE BreakerTypeOK'
  BY <1>4 DEF StoreFailures, StoreOpenedAt
<1>5. ASSUME NEW r \in Requests, Returns(r) PROVE BreakerTypeOK'
  BY <1>5 DEF Returns
<1>6. ASSUME NEW r \in Requests, CountFailure(r) PROVE BreakerTypeOK'
  BY <1>6 DEF CountFailure, Retries
<1>7. ASSUME NEW r \in Requests, Stamp(r) PROVE BreakerTypeOK'
  BY <1>7 DEF Stamp, Retries
<1> QED
  BY <1>1, <1>2, <1>3, <1>4, <1>5, <1>6, <1>7 DEF Act, Request

\* The atomics: the steps that touch neither them nor a recording, and then
\* one step for each load, store and read-modify-write that does.
LEMMA AtomicsStep ==
  ASSUME BreakerInv, BreakerTypeOK', Act, ~raced, ~raced', ~Overlap, ~Overlap'
  PROVE  StoresHold' /\ Agreement'
<1> USE BreakerAssumption DEF BreakerAssumption, BreakerInv, BreakerTypeOK, StoresHold, Agreement,
      Tripped, Zero, Goto
<1> DEFINE Goal == StoresHold' /\ Agreement'
<1>1. CASE Tick
  BY <1>1 DEF Tick
<1>2. ASSUME NEW r \in Requests,
             LoadFailures(r) \/ LoadOpenedAt(r) \/ Fails(r) \/ EndsUnrecorded(r) \/ Returns(r)
      PROVE  Goal
  BY <1>2 DEF LoadFailures, LoadOpenedAt, Fails, EndsUnrecorded, Returns
<1>3. ASSUME NEW r \in Requests, Succeeds(r) PROVE Goal
  BY <1>3 DEF Succeeds
<1>4. ASSUME NEW r \in Requests, StoreFailures(r) PROVE Goal
  BY <1>4 DEF StoreFailures, Overlap
<1>5. ASSUME NEW r \in Requests, StoreOpenedAt(r) PROVE Goal
  BY <1>5 DEF StoreOpenedAt, Overlap
<1>6. ASSUME NEW r \in Requests, CountFailure(r) PROVE Goal
  BY <1>6 DEF CountFailure, Retries, Overlap
<1>7. ASSUME NEW r \in Requests, Stamp(r) PROVE Goal
  BY <1>7 DEF Stamp, Retries, Overlap
<1> QED
  BY <1>1, <1>2, <1>3, <1>4, <1>5, <1>6, <1>7 DEF Act, Request

LEMMA BreakerInvStep == BreakerInv /\ [BreakerNext]_breakerVars => BreakerInv'
<1>1. ASSUME BreakerInv, BreakerNext PROVE BreakerInv'
  <2>1. Act /\ raced' = (raced \/ Overlap')
    BY <1>1 DEF BreakerNext, Act
  <2>2. BreakerTypeOK'
    BY <1>1, <2>1, BreakerTypeStep DEF BreakerInv, BreakerTypeOK
  <2>3. Apart'
    BY <2>1 DEF Apart
  <2>4. StoresHold' /\ Agreement'
    <3>1. CASE raced'
      BY <3>1 DEF StoresHold, Agreement
    <3>2. CASE ~raced'
      BY <1>1, <2>1, <2>2, <3>2, AtomicsStep DEF BreakerInv, Apart
    <3> QED
      BY <3>1, <3>2
  <2> QED
    BY <2>2, <2>3, <2>4 DEF BreakerInv
<1>2. ASSUME BreakerInv, UNCHANGED breakerVars PROVE BreakerInv'
  BY <1>2 DEF BreakerInv, BreakerTypeOK, Apart, Overlap, StoresHold, Agreement, Tripped, breakerVars
<1> QED
  BY <1>1, <1>2

\* The breaker keeps its state well typed.
THEOREM BreakerTypeCorrect == BreakerSpec => []BreakerTypeOK
<1>1. BreakerInv => BreakerTypeOK
  BY DEF BreakerInv
<1> QED
  BY <1>1, BreakerInvInit, BreakerInvStep, PTL DEF BreakerSpec

\* Unless a success was recorded during a trip, the two atomics agree when no
\* request is recording.
THEOREM AtomicsAgreeCorrect == BreakerSpec => []AtomicsAgree
<1>1. BreakerInv => AtomicsAgree
  BY DEF BreakerInv, Agreement, AtomicsAgree, Quiet, Recording
<1> QED
  BY <1>1, BreakerInvInit, BreakerInvStep, PTL DEF BreakerSpec
=============================================================================
