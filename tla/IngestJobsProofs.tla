-------------------------- MODULE IngestJobsProofs --------------------------
(***************************************************************************)
(* Proofs about IngestJobs: whatever the files, the workers and the        *)
(* faults, no chunk is counted twice, a job that is final stays as it is,  *)
(* and what it says of its rows is what was done with them.                *)
(***************************************************************************)
EXTENDS IngestJobs, FiniteSetTheorems, FunctionTheorems, TLAPS

\* Where an upload is, and what it still has to enqueue.
UploadProgress ==
  \A j \in Jobs :
    /\ upload[j] = "none" => next[j] = 1
    /\ upload[j] = "enqueueing" => next[j] <= Total(j)

\* Chunks are enqueued in order: those seen so far come before next.
BehindNext ==
  /\ \A c \in queue : c[2] < next[Job(c)]
  /\ \A w \in Workers : at[w] # "polling" => chunk[w][2] < next[Job(chunk[w])]

\* What the SELECT of maybe_complete_job saw is still true at complete_job.
CompletingIsCounted ==
  \A w \in Workers : at[w] = "completing" =>
    done[Job(chunk[w])] = Total(Job(chunk[w]))

IInv ==
  /\ TypeOK
  /\ IsFiniteSet(queue)
  /\ UploadProgress
  /\ BehindNext
  /\ NoChunkCountedTwice
  /\ CompletingIsCounted
  /\ FinalMeansAllCounted

-----------------------------------------------------------------------------
\* A file has chunks, and a chunk is a pair of a file and a position in it.
LEMMA TotalType == ASSUME NEW j \in Jobs PROVE Total(j) \in Nat \ {0}
BY IngestAssumption DEF Total

LEMMA ChunkType ==
  ASSUME NEW c \in Chunks
  PROVE  /\ Job(c) \in Jobs /\ c[2] \in 1..Total(Job(c))
         /\ c = <<Job(c), c[2]>>
         /\ Rows(c) \in Seq({"good", "blocked", "rejected"})
<1>1. PICK j \in Jobs : \E i \in 1..Total(j) : c = <<j, i>>
  BY DEF Chunks
<1>2. PICK i \in 1..Total(j) : c = <<j, i>>
  BY <1>1
<1>3. Files[j] \in Seq(Seq({"good", "blocked", "rejected"})) /\ i \in 1..Len(Files[j])
  BY <1>2, IngestAssumption DEF Total
<1>4. Files[j][i] \in Seq({"good", "blocked", "rejected"})
  BY <1>3
<1> QED
  BY <1>2, <1>4 DEF Job, Rows

LEMMA ChunkOf ==
  ASSUME NEW j \in Jobs, NEW i \in 1..Total(j)
  PROVE  <<j, i>> \in Chunks /\ Job(<<j, i>>) = j
BY DEF Chunks, Job

\* No more records of a chunk are inserted than it has.
LEMMA CountsType ==
  ASSUME NEW c \in Chunks
  PROVE  /\ Size(c) \in Nat /\ Inserted(c) \in Nat /\ Stored(c) \in Nat
         /\ Answer(c) \in [processed : Nat, failed : Nat]
         /\ AllFailed(c) \in [processed : Nat, failed : Nat]
<1> DEFINE G == {i \in 1..Size(c) : Rows(c)[i] = "good" /\ ~Rejected(c, i)}
<1>1. Size(c) \in Nat
  BY ChunkType DEF Size
<1>2. IsFiniteSet(1..Size(c)) /\ Cardinality(1..Size(c)) = Size(c)
  BY <1>1, FS_Interval
<1>3. G \in SUBSET (1..Size(c))
  OBVIOUS
<1>4. IsFiniteSet(G) /\ Cardinality(G) <= Cardinality(1..Size(c))
  BY <1>2, <1>3, FS_Subset
<1>5. Cardinality(G) \in Nat
  BY <1>4, FS_CardinalityType
<1>6. Inserted(c) = Cardinality(G)
  BY DEF Inserted
<1> QED
  BY <1>1, <1>2, <1>4, <1>5, <1>6 DEF Stored, Answer, AllFailed

\* The chunks of a job that wait or are under way can be counted.
LEMMA Finiteness ==
  ASSUME IsFiniteSet(queue), NEW j \in Jobs
  PROVE  /\ IsFiniteSet(Of(queue, j)) /\ Cardinality(Of(queue, j)) \in Nat
         /\ IsFiniteSet(UnderWay(j)) /\ Cardinality(UnderWay(j)) \in Nat
<1>1. IsFiniteSet(Of(queue, j))
  <2>1. Of(queue, j) \in SUBSET queue
    BY DEF Of
  <2> QED
    BY <2>1, FS_Subset
<1>2. IsFiniteSet(UnderWay(j))
  <2>1. UnderWay(j) \in SUBSET Workers
    BY DEF UnderWay
  <2> QED
    BY <2>1, FS_Subset, IngestAssumption
<1> QED
  BY <1>1, <1>2, FS_CardinalityType

\* The numbers that NoChunkCountedTwice relates.
LEMMA Numbers ==
  ASSUME TypeOK, IsFiniteSet(queue), NoChunkCountedTwice, NEW j \in Jobs
  PROVE  /\ done[j] \in Nat /\ Total(j) \in Nat /\ next[j] \in 1..(Total(j) + 1)
         /\ Cardinality(Of(queue, j)) \in Nat /\ Cardinality(UnderWay(j)) \in Nat
         /\ done[j] + Cardinality(Of(queue, j)) + Cardinality(UnderWay(j)) <= next[j] - 1
<1>1. done[j] \in Nat /\ next[j] \in 1..(Total(j) + 1)
  BY DEF TypeOK
<1>2. Cardinality(Of(queue, j)) \in Nat /\ Cardinality(UnderWay(j)) \in Nat
  BY Finiteness
<1>3. done[j] + Cardinality(Of(queue, j)) + Cardinality(UnderWay(j)) <= next[j] - 1
  BY DEF NoChunkCountedTwice
<1> QED
  BY <1>1, <1>2, <1>3, TotalType

\* When all chunks of a job are counted, none is under way.
LEMMA AllCountedIsOver ==
  ASSUME TypeOK, IsFiniteSet(queue), NoChunkCountedTwice,
         NEW j \in Jobs, done[j] = Total(j)
  PROVE  UnderWay(j) = {}
<1>1. Cardinality(UnderWay(j)) = 0
  <2> DEFINE q == Cardinality(Of(queue, j))
             u == Cardinality(UnderWay(j))
  <2>1. /\ done[j] \in Nat /\ next[j] \in 1..(Total(j) + 1) /\ q \in Nat /\ u \in Nat
        /\ done[j] + q + u <= next[j] - 1 /\ Total(j) \in Nat
    BY Numbers
  <2> HIDE DEF q, u
  <2>2. u = 0
    BY <2>1
  <2> QED
    BY <2>2 DEF u
<1>2. IsFiniteSet(UnderWay(j))
  BY Finiteness
<1> QED
  BY <1>1, <1>2, FS_EmptySet

\* A chunk that is under way is not counted yet.
LEMMA UnderWayIsUncounted ==
  ASSUME TypeOK, IsFiniteSet(queue), NoChunkCountedTwice,
         NEW j \in Jobs, NEW w \in UnderWay(j)
  PROVE  done[j] + 1 <= Total(j)
<1>1. IsFiniteSet(UnderWay(j))
  BY Finiteness
<1>2. Cardinality(UnderWay(j)) # 0
  BY <1>1, FS_EmptySet
<1> DEFINE q == Cardinality(Of(queue, j))
           u == Cardinality(UnderWay(j))
<1>3. /\ done[j] \in Nat /\ next[j] \in 1..(Total(j) + 1) /\ q \in Nat /\ u \in Nat
      /\ done[j] + q + u <= next[j] - 1 /\ Total(j) \in Nat
  BY Numbers
<1>4. u # 0
  BY <1>2
<1> HIDE DEF q, u
<1> QED
  BY <1>3, <1>4

-----------------------------------------------------------------------------
LEMMA InitIInv == Init => IInv
<1> SUFFICES ASSUME Init PROVE IInv
  OBVIOUS
<1>1. TypeOK
  BY TotalType, IngestAssumption DEF Init, TypeOK, Nothing, Final
<1>2. IsFiniteSet(queue) /\ UploadProgress /\ BehindNext /\ CompletingIsCounted
  BY FS_EmptySet DEF Init, UploadProgress, BehindNext, CompletingIsCounted
<1>3. NoChunkCountedTwice
  <2> SUFFICES ASSUME NEW j \in Jobs
               PROVE  done[j] + Cardinality(Of(queue, j)) + Cardinality(UnderWay(j)) <= next[j] - 1
    BY DEF NoChunkCountedTwice
  <2>1. Of(queue, j) = {} /\ UnderWay(j) = {}
    BY DEF Init, Of, UnderWay
  <2> QED
    BY <2>1, FS_EmptySet DEF Init
<1>4. FinalMeansAllCounted
  BY DEF Init, FinalMeansAllCounted, Final
<1> QED
  BY <1>1, <1>2, <1>3, <1>4 DEF IInv

-----------------------------------------------------------------------------
(* One lemma per action.                                                   *)

\* An upload: it may add one chunk to the queue, which no one has seen.
LEMMA CreateJobIInv == ASSUME IInv, NEW j \in Jobs, CreateJob(j) PROVE IInv'
<1> USE DEF IInv, CreateJob, uploadVars, workerVars, coreVars
<1>1. TypeOK'
  BY DEF TypeOK
<1>2. IsFiniteSet(queue)' /\ UploadProgress' /\ BehindNext' /\ CompletingIsCounted'
  BY TotalType DEF UploadProgress, BehindNext, CompletingIsCounted, TypeOK
<1>3. NoChunkCountedTwice'
  BY DEF NoChunkCountedTwice, UnderWay, Of
<1>4. FinalMeansAllCounted'
  BY DEF FinalMeansAllCounted, Final, TypeOK
<1> QED
  BY <1>1, <1>2, <1>3, <1>4

\* The handler that goes on to the next chunk is still inside the file, or done.
LEMMA AdvanceProgress ==
  ASSUME TypeOK, UploadProgress, NEW j \in Jobs, upload[j] = "enqueueing", Advance(j)
  PROVE  UploadProgress'
<1> SUFFICES ASSUME NEW i \in Jobs
             PROVE  /\ upload'[i] = "none" => next'[i] = 1
                    /\ upload'[i] = "enqueueing" => next'[i] <= Total(i)
  BY DEF UploadProgress
<1>1. CASE i # j
  BY <1>1 DEF UploadProgress, TypeOK, Advance
<1>2. CASE i = j
  <2>1. next[j] \in 1..Total(j) /\ Total(j) \in Nat
    BY TotalType DEF UploadProgress, TypeOK
  <2>2. /\ next'[i] = next[j] + 1
        /\ upload'[i] = IF next[j] = Total(j) THEN "accepted" ELSE "enqueueing"
    BY <1>2 DEF TypeOK, Advance
  <2> QED
    BY <1>2, <2>1, <2>2
<1> QED
  BY <1>1, <1>2

LEMMA EnqueueChunkIInv == ASSUME IInv, NEW j \in Jobs, EnqueueChunk(j) PROVE IInv'
<1> USE DEF IInv, EnqueueChunk, Advance, jobVars, workerVars, coreVars
<1> DEFINE c == <<j, next[j]>>
<1>1. next[j] \in 1..Total(j)
  BY TotalType DEF UploadProgress, TypeOK
<1>2. c \in Chunks /\ Job(c) = j /\ c[2] = next[j]
  BY <1>1, ChunkOf
<1>3. c \notin queue /\ \A w \in Workers : at[w] # "polling" => chunk[w] # c
  BY <1>1, <1>2 DEF BehindNext
<1> HIDE DEF c
<1>4. queue' = queue \cup {c}
  BY DEF c
<1>5. /\ next' = [next EXCEPT ![j] = @ + 1]
      /\ next[j] + 1 \in 1..(Total(j) + 1)
  BY <1>1, TotalType
<1>6. TypeOK'
  <2>1. /\ next' \in [Jobs -> Nat]
        /\ \A i \in Jobs : next'[i] \in 1..(Total(i) + 1)
    BY <1>5 DEF TypeOK
  <2>2. upload' \in [Jobs -> {"none", "enqueueing", "accepted", "refused", "abandoned"}]
    BY DEF TypeOK
  <2>3. /\ queue' \subseteq Chunks
        /\ \A w \in Workers : at'[w] # "polling" => chunk'[w] \in Chunks \ queue'
    BY <1>2, <1>3, <1>4 DEF TypeOK
  <2> QED
    BY <2>1, <2>2, <2>3 DEF TypeOK
<1>7. IsFiniteSet(queue')
  BY <1>4, FS_AddElement
<1>8. UploadProgress'
  BY AdvanceProgress DEF IInv
<1>9. BehindNext'
  <2>1. \A i \in Jobs : next[i] \in Nat /\ next'[i] \in Nat /\ next[i] <= next'[i]
    BY <1>1, <1>5 DEF TypeOK
  <2>2. \A d \in Chunks : d[2] \in Nat /\ Job(d) \in Jobs
    BY ChunkType
  <2>3. c[2] < next'[Job(c)]
    BY <1>1, <1>2, <1>5 DEF TypeOK
  <2>4. \A d \in queue' : d[2] < next'[Job(d)]
    BY <1>4, <2>1, <2>2, <2>3 DEF BehindNext, TypeOK
  <2>5. \A w \in Workers : at'[w] # "polling" => chunk'[w][2] < next'[Job(chunk'[w])]
    BY <2>1, <2>2 DEF BehindNext, TypeOK
  <2> QED
    BY <2>4, <2>5 DEF BehindNext
<1>10. NoChunkCountedTwice'
  <2> SUFFICES ASSUME NEW i \in Jobs
               PROVE  done'[i] + Cardinality(Of(queue', i)) + Cardinality(UnderWay(i)')
                        <= next'[i] - 1
    BY DEF NoChunkCountedTwice
  <2>1. UnderWay(i)' = UnderWay(i)
    BY DEF UnderWay
  <2>2. CASE i # j
    <3>1. Of(queue', i) = Of(queue, i) /\ next'[i] = next[i]
      BY <1>2, <1>4, <1>5, <2>2 DEF Of, TypeOK
    <3> QED
      BY <2>1, <3>1 DEF NoChunkCountedTwice
  <2>3. CASE i = j
    <3>1. Of(queue', i) = Of(queue, i) \cup {c} /\ c \notin Of(queue, i)
      BY <1>2, <1>3, <1>4, <2>3 DEF Of
    <3>2. Cardinality(Of(queue', i)) = Cardinality(Of(queue, i)) + 1
      BY <3>1, Finiteness, FS_AddElement
    <3>3. next'[i] = next[i] + 1
      BY <1>5, <2>3 DEF TypeOK
    <3> DEFINE q == Cardinality(Of(queue, i))
               u == Cardinality(UnderWay(i))
    <3>4. /\ done[i] \in Nat /\ next[i] \in 1..(Total(i) + 1) /\ q \in Nat /\ u \in Nat
          /\ done[i] + q + u <= next[i] - 1 /\ Total(i) \in Nat
      BY Numbers
    <3>5. Cardinality(Of(queue', i)) = q + 1 /\ Cardinality(UnderWay(i)') = u /\ done' = done
      BY <2>1, <3>2
    <3> HIDE DEF q, u
    <3> QED
      BY <3>3, <3>4, <3>5
  <2> QED
    BY <2>2, <2>3
<1>11. CompletingIsCounted' /\ FinalMeansAllCounted'
  BY DEF CompletingIsCounted, FinalMeansAllCounted
<1> QED
  BY <1>6, <1>7, <1>8, <1>9, <1>10, <1>11

\* A step that only takes chunks out of the queue or out of a worker's hands.
LEMMA NothingAdded ==
  ASSUME IInv, done' = done, queue' \subseteq queue,
         next' \in [Jobs -> Nat], \A i \in Jobs : next'[i] >= next[i],
         \A i \in Jobs : UnderWay(i)' \subseteq UnderWay(i)
  PROVE  IsFiniteSet(queue') /\ NoChunkCountedTwice'
<1> USE DEF IInv
<1>1. IsFiniteSet(queue')
  BY FS_Subset
<1> SUFFICES ASSUME NEW i \in Jobs
             PROVE  done'[i] + Cardinality(Of(queue', i)) + Cardinality(UnderWay(i)')
                      <= next'[i] - 1
  BY <1>1 DEF NoChunkCountedTwice
<1> DEFINE q == Cardinality(Of(queue, i))
           u == Cardinality(UnderWay(i))
           qq == Cardinality(Of(queue', i))
           uu == Cardinality(UnderWay(i)')
<1>2. qq \in Nat /\ qq <= q
  <2>1. Of(queue', i) \in SUBSET Of(queue, i)
    BY DEF Of
  <2> QED
    BY <2>1, Finiteness, FS_Subset, FS_CardinalityType
<1>3. uu \in Nat /\ uu <= u
  BY Finiteness, FS_Subset, FS_CardinalityType
<1>4. /\ done[i] \in Nat /\ next[i] \in 1..(Total(i) + 1) /\ q \in Nat /\ u \in Nat
      /\ done[i] + q + u <= next[i] - 1 /\ Total(i) \in Nat
  BY Numbers
<1>5. next'[i] \in Nat /\ next'[i] >= next[i] /\ done'[i] = done[i]
  OBVIOUS
<1> HIDE DEF q, u, qq, uu
<1>6. done'[i] + qq + uu <= next'[i] - 1
  BY <1>2, <1>3, <1>4, <1>5
<1> QED
  BY <1>6 DEF qq, uu

LEMMA EnqueueFailsIInv == ASSUME IInv, NEW j \in Jobs, EnqueueFails(j) PROVE IInv'
<1> USE DEF IInv, EnqueueFails, Advance, Fault, jobVars, workerVars, coreVars
<1>1. next[j] \in 1..Total(j)
  BY TotalType DEF UploadProgress, TypeOK
<1>2. /\ next' = [next EXCEPT ![j] = @ + 1]
      /\ next[j] + 1 \in 1..(Total(j) + 1)
  BY <1>1, TotalType
<1>3. TypeOK'
  <2>1. /\ next' \in [Jobs -> Nat]
        /\ \A i \in Jobs : next'[i] \in 1..(Total(i) + 1)
    BY <1>2 DEF TypeOK
  <2>2. upload' \in [Jobs -> {"none", "enqueueing", "accepted", "refused", "abandoned"}]
    BY DEF TypeOK
  <2>3. faults' \subseteq Faults
    BY DEF TypeOK
  <2> QED
    BY <2>1, <2>2, <2>3 DEF TypeOK
<1>4. UploadProgress'
  BY AdvanceProgress
<1>5. next' \in [Jobs -> Nat] /\ \A i \in Jobs : next'[i] >= next[i]
  BY <1>1, <1>2 DEF TypeOK
<1>6. BehindNext'
  <2>1. \A d \in Chunks : d[2] \in Nat /\ Job(d) \in Jobs
    BY ChunkType
  <2> QED
    BY <1>5, <2>1 DEF BehindNext, TypeOK
<1>7. IsFiniteSet(queue') /\ NoChunkCountedTwice'
  BY <1>5, NothingAdded DEF UnderWay
<1>8. CompletingIsCounted' /\ FinalMeansAllCounted'
  BY DEF CompletingIsCounted, FinalMeansAllCounted
<1> QED
  BY <1>3, <1>4, <1>6, <1>7, <1>8

\* A pop: the chunk goes from the queue to a worker, or is lost.
LEMMA DequeueIInv == ASSUME IInv, NEW w \in Workers, Dequeue(w) PROVE IInv'
<1> USE DEF IInv, Dequeue, Goto, uploadVars, jobVars, coreVars
<1>1. PICK c \in queue : queue' = queue \ {c} /\ chunk' = [chunk EXCEPT ![w] = c]
  OBVIOUS
<1>2. c \in Chunks /\ Job(c) \in Jobs
  BY ChunkType DEF TypeOK
<1>3. at' = [at EXCEPT ![w] = "posting"] /\ at[w] = "polling"
  OBVIOUS
<1>4. TypeOK'
  BY <1>1, <1>2, <1>3 DEF TypeOK
<1>5. IsFiniteSet(queue') /\ UploadProgress' /\ BehindNext' /\ CompletingIsCounted'
  BY <1>1, <1>3, FS_RemoveElement
     DEF UploadProgress, BehindNext, CompletingIsCounted, TypeOK
<1>6. NoChunkCountedTwice'
  <2> SUFFICES ASSUME NEW i \in Jobs
               PROVE  done'[i] + Cardinality(Of(queue', i)) + Cardinality(UnderWay(i)')
                        <= next'[i] - 1
    BY DEF NoChunkCountedTwice
  <2>1. CASE i # Job(c)
    <3>1. Of(queue', i) = Of(queue, i)
      BY <1>1, <2>1 DEF Of
    <3>2. UnderWay(i)' = UnderWay(i)
      BY <1>1, <1>3, <2>1 DEF UnderWay, TypeOK
    <3> QED
      BY <3>1, <3>2 DEF NoChunkCountedTwice
  <2>2. CASE i = Job(c)
    <3>1. Of(queue', i) = Of(queue, i) \ {c} /\ c \in Of(queue, i)
      BY <1>1, <2>2 DEF Of
    <3>2. UnderWay(i)' = UnderWay(i) \cup {w} /\ w \notin UnderWay(i)
      BY <1>1, <1>3, <2>2 DEF UnderWay, TypeOK
    <3> DEFINE q == Cardinality(Of(queue, i))
               u == Cardinality(UnderWay(i))
    <3>3. Cardinality(Of(queue', i)) = q - 1
      BY <3>1, Finiteness, FS_RemoveElement
    <3>4. Cardinality(UnderWay(i)') = u + 1
      BY <3>2, Finiteness, FS_AddElement
    <3>5. /\ done[i] \in Nat /\ next[i] \in 1..(Total(i) + 1) /\ q \in Nat /\ u \in Nat
          /\ done[i] + q + u <= next[i] - 1 /\ Total(i) \in Nat
      BY Numbers
    <3> HIDE DEF q, u
    <3> QED
      BY <3>3, <3>4, <3>5
  <2> QED
    BY <2>1, <2>2
<1>7. FinalMeansAllCounted'
  BY DEF FinalMeansAllCounted
<1> QED
  BY <1>4, <1>5, <1>6, <1>7

LEMMA PopLostIInv == ASSUME IInv, NEW w \in Workers, PopLost(w) PROVE IInv'
<1> USE DEF IInv, PopLost, Fault, uploadVars, jobVars, workerVars, coreVars
<1>1. queue' \subseteq queue
  OBVIOUS
<1>2. TypeOK'
  BY <1>1, IngestAssumption DEF TypeOK
<1>3. IsFiniteSet(queue') /\ NoChunkCountedTwice'
  BY <1>1, NothingAdded DEF UnderWay, TypeOK
<1>4. UploadProgress' /\ BehindNext' /\ CompletingIsCounted' /\ FinalMeansAllCounted'
  BY <1>1 DEF UploadProgress, BehindNext, CompletingIsCounted, FinalMeansAllCounted
<1> QED
  BY <1>2, <1>3, <1>4

\* Posting a chunk, whatever comes of it, leaves the job and the queue alone.
LEMMA PostIInv ==
  ASSUME IInv, NEW w \in Workers,
         Post(w) \/ PostRefused(w) \/ AnswerLost(w) \/ BodyLost(w)
  PROVE  IInv'
<1> USE DEF IInv
<1>1. /\ at[w] = "posting" /\ at' = [at EXCEPT ![w] = "updating"]
      /\ UNCHANGED <<upload, next, status, processed, failed, done, completed_at, queue, chunk>>
  BY DEF Post, PostRefused, AnswerLost, BodyLost, Count, Goto, uploadVars, jobVars
<1>2. chunk[w] \in Chunks
  BY <1>1 DEF TypeOK
<1>3. result' \in [Workers -> [processed : Nat, failed : Nat]]
  <2>1. PICK r \in [processed : Nat, failed : Nat] : result' = [result EXCEPT ![w] = r]
    BY <1>2, CountsType
       DEF Post, PostRefused, AnswerLost, BodyLost, Count, Nothing
  <2> QED
    BY <2>1 DEF TypeOK
<1>4. stored' \in [Chunks -> Nat] /\ matchTasks' \in [Chunks -> Nat]
  <2>1. stored \in [Chunks -> Nat] /\ matchTasks \in [Chunks -> Nat]
    BY DEF TypeOK
  <2>2. BulkInsert(chunk[w]) \/ UNCHANGED <<stored, matchTasks>>
    BY DEF Post, PostRefused, AnswerLost, BodyLost, coreVars
  <2>3. Stored(chunk[w]) \in Nat /\ Inserted(chunk[w]) \in Nat
    BY <1>2, CountsType
  <2> QED
    BY <2>1, <2>2, <2>3 DEF BulkInsert
<1>5. faults' \subseteq Faults
  BY IngestAssumption
     DEF TypeOK, Post, PostRefused, AnswerLost, BodyLost, Fault
<1>6. TypeOK'
  BY <1>1, <1>3, <1>4, <1>5 DEF TypeOK
<1>7. UploadProgress' /\ BehindNext' /\ CompletingIsCounted' /\ FinalMeansAllCounted'
  BY <1>1 DEF UploadProgress, BehindNext, CompletingIsCounted, FinalMeansAllCounted, TypeOK
<1>8. IsFiniteSet(queue') /\ NoChunkCountedTwice'
  BY <1>1, NothingAdded DEF UnderWay, TypeOK
<1> QED
  BY <1>6, <1>7, <1>8

\* The chunk leaves its worker's hands and is counted.
LEMMA UpdateProgressIInv == ASSUME IInv, NEW w \in Workers, UpdateProgress(w) PROVE IInv'
<1> USE DEF IInv
<1> DEFINE j == Job(chunk[w])
<1>1. /\ at[w] = "updating" /\ at' = [at EXCEPT ![w] = "checking"]
      /\ done' = [done EXCEPT ![j] = @ + 1]
      /\ UNCHANGED <<upload, next, status, completed_at, queue, chunk, result, stored,
                     matchTasks, faults>>
  BY DEF UpdateProgress, Goto, uploadVars, coreVars
<1>2. /\ processed' = [processed EXCEPT ![j] = @ + result[w].processed]
      /\ failed' = [failed EXCEPT ![j] = @ + result[w].failed]
  BY DEF UpdateProgress
<1>3. j \in Jobs /\ w \in UnderWay(j)
  BY <1>1, ChunkType DEF TypeOK, UnderWay
<1>4. done[j] + 1 <= Total(j) /\ done[j] \in Nat
  BY <1>3, UnderWayIsUncounted, Numbers
<1>5. TypeOK'
  <2>1. processed' \in [Jobs -> Nat] /\ failed' \in [Jobs -> Nat]
    <3>1. result[w].processed \in Nat /\ result[w].failed \in Nat
      BY DEF TypeOK
    <3>2. /\ processed \in [Jobs -> Nat] /\ failed \in [Jobs -> Nat]
          /\ processed[j] \in Nat /\ failed[j] \in Nat
      BY <1>3 DEF TypeOK
    <3> DEFINE p == result[w].processed
               f == result[w].failed
    <3>3. /\ processed' = [processed EXCEPT ![j] = @ + p]
          /\ failed' = [failed EXCEPT ![j] = @ + f]
          /\ p \in Nat /\ f \in Nat
      BY <1>2, <3>1
    <3> HIDE DEF p, f, j
    <3>4. processed[j] + p \in Nat /\ failed[j] + f \in Nat
      BY <3>2, <3>3
    <3> QED
      BY <3>2, <3>3, <3>4
  <2>2. done' \in [Jobs -> Nat] /\ \A i \in Jobs : done'[i] <= Total(i)
    BY <1>1, <1>3, <1>4 DEF TypeOK
  <2>3. at' \in [Workers -> {"polling", "posting", "updating", "checking", "completing"}]
    BY <1>1 DEF TypeOK
  <2> QED
    BY <1>1, <2>1, <2>2, <2>3 DEF TypeOK
<1>6. UploadProgress' /\ BehindNext' /\ IsFiniteSet(queue')
  BY <1>1 DEF UploadProgress, BehindNext, TypeOK
<1>7. CompletingIsCounted'
  BY <1>1, <1>3, <1>4 DEF CompletingIsCounted, TypeOK
<1>8. NoChunkCountedTwice'
  <2> SUFFICES ASSUME NEW i \in Jobs
               PROVE  done'[i] + Cardinality(Of(queue', i)) + Cardinality(UnderWay(i)')
                        <= next'[i] - 1
    BY DEF NoChunkCountedTwice
  <2>1. CASE i # j
    <3>1. UnderWay(i)' = UnderWay(i) /\ done'[i] = done[i]
      BY <1>1, <2>1 DEF UnderWay, TypeOK
    <3> QED
      BY <1>1, <3>1 DEF NoChunkCountedTwice
  <2>2. CASE i = j
    <3>1. UnderWay(i)' = UnderWay(i) \ {w} /\ w \in UnderWay(i)
      BY <1>1, <1>3, <2>2 DEF UnderWay, TypeOK
    <3> DEFINE q == Cardinality(Of(queue, i))
               u == Cardinality(UnderWay(i))
    <3>2. Cardinality(UnderWay(i)') = u - 1
      BY <3>1, Finiteness, FS_RemoveElement
    <3>3. /\ done[i] \in Nat /\ next[i] \in 1..(Total(i) + 1) /\ q \in Nat /\ u \in Nat
          /\ done[i] + q + u <= next[i] - 1 /\ Total(i) \in Nat
      BY Numbers
    <3>4. done'[i] = done[i] + 1 /\ next'[i] = next[i] /\ Cardinality(Of(queue', i)) = q
      BY <1>1, <2>2 DEF TypeOK
    <3> HIDE DEF q, u
    <3> QED
      BY <3>2, <3>3, <3>4
  <2> QED
    BY <2>1, <2>2
<1>9. FinalMeansAllCounted'
  <2>1. status[j] \notin Final
    BY <1>3, <1>4, TotalType DEF FinalMeansAllCounted
  <2> QED
    BY <1>1, <1>2, <2>1 DEF FinalMeansAllCounted, TypeOK
<1> QED
  BY <1>5, <1>6, <1>7, <1>8, <1>9

\* The rest of process_chunk: nothing but the worker moves on.
LEMMA MoveOnIInv ==
  ASSUME IInv, NEW w \in Workers,
         UpdateFails(w) \/ CheckDone(w) \/ CompleteFails(w)
  PROVE  IInv'
<1> USE DEF IInv
<1>1. /\ at[w] \in {"updating", "checking", "completing"}
      /\ UNCHANGED <<upload, next, status, processed, failed, done, completed_at, queue, chunk,
                     result, stored, matchTasks>>
  BY DEF UpdateFails, CheckDone, CompleteFails, uploadVars, jobVars, coreVars
<1>2. faults' \subseteq Faults
  BY IngestAssumption DEF TypeOK, UpdateFails, CheckDone, CompleteFails, Fault
<1>3. PICK where \in {"polling", "checking", "completing"} :
        /\ at' = [at EXCEPT ![w] = where]
        /\ where = "completing" => done[Job(chunk[w])] >= Total(Job(chunk[w]))
  BY DEF UpdateFails, CheckDone, CompleteFails, Goto
<1>4. TypeOK'
  BY <1>1, <1>2, <1>3 DEF TypeOK
<1>5. UploadProgress' /\ BehindNext' /\ FinalMeansAllCounted'
  BY <1>1, <1>3 DEF UploadProgress, BehindNext, FinalMeansAllCounted, TypeOK
<1>6. CompletingIsCounted'
  <2>1. Job(chunk[w]) \in Jobs
    BY <1>1, ChunkType DEF TypeOK
  <2>2. where = "completing" => done[Job(chunk[w])] = Total(Job(chunk[w]))
    <3> DEFINE t == Total(Job(chunk[w]))
    <3>1. /\ done[Job(chunk[w])] \in Nat /\ t \in Nat /\ done[Job(chunk[w])] <= t
          /\ where = "completing" => done[Job(chunk[w])] >= t
      BY <1>3, <2>1, TotalType DEF TypeOK
    <3> HIDE DEF t
    <3>2. where = "completing" => done[Job(chunk[w])] = t
      BY <3>1
    <3> QED
      BY <3>2 DEF t
  <2> QED
    BY <1>1, <1>3, <2>2 DEF CompletingIsCounted, TypeOK
<1>7. IsFiniteSet(queue') /\ NoChunkCountedTwice'
  BY <1>1, <1>3, NothingAdded DEF UnderWay, TypeOK
<1> QED
  BY <1>4, <1>5, <1>6, <1>7

LEMMA CompleteJobIInv == ASSUME IInv, NEW w \in Workers, CompleteJob(w) PROVE IInv'
<1> USE DEF IInv
<1> DEFINE j == Job(chunk[w])
<1>1. /\ at[w] = "completing" /\ at' = [at EXCEPT ![w] = "polling"]
      /\ status' = [status EXCEPT ![j] = StatusOf(processed[j], failed[j])]
      /\ completed_at' = [completed_at EXCEPT ![j] = @ + 1]
      /\ UNCHANGED <<upload, next, processed, failed, done, queue, chunk,
                     result, stored, matchTasks, faults>>
  BY DEF CompleteJob, Goto, uploadVars, coreVars
<1>2. j \in Jobs /\ done[j] = Total(j)
  BY <1>1, ChunkType DEF TypeOK, CompletingIsCounted
<1>3. StatusOf(processed[j], failed[j]) \in Final
  BY DEF StatusOf, Final
<1>4. TypeOK'
  BY <1>1, <1>2, <1>3 DEF TypeOK
<1>5. UploadProgress' /\ BehindNext' /\ CompletingIsCounted'
  BY <1>1 DEF UploadProgress, BehindNext, CompletingIsCounted, TypeOK
<1>6. FinalMeansAllCounted'
  BY <1>1, <1>2 DEF FinalMeansAllCounted, TypeOK
<1>7. IsFiniteSet(queue') /\ NoChunkCountedTwice'
  BY <1>1, NothingAdded DEF UnderWay, TypeOK
<1> QED
  BY <1>4, <1>5, <1>6, <1>7

LEMMA CrashIInv == ASSUME IInv, Crash PROVE IInv'
<1> USE DEF IInv
<1>1. PICK ws \in SUBSET Workers, us \in SUBSET {j \in Jobs : upload[j] = "enqueueing"} :
        /\ at' = [w \in Workers |-> IF w \in ws THEN "polling" ELSE at[w]]
        /\ upload' = [j \in Jobs |-> IF j \in us THEN "abandoned" ELSE upload[j]]
  BY DEF Crash
<1>2. UNCHANGED <<next, status, processed, failed, done, completed_at, queue, chunk, result,
                  stored, matchTasks>> /\ faults' \subseteq Faults
  BY IngestAssumption DEF Crash, Fault, jobVars, coreVars, TypeOK
<1>3. TypeOK'
  BY <1>1, <1>2 DEF TypeOK
<1>4. UploadProgress' /\ BehindNext' /\ CompletingIsCounted' /\ FinalMeansAllCounted'
  BY <1>1, <1>2 DEF UploadProgress, BehindNext, CompletingIsCounted, FinalMeansAllCounted
<1>5. IsFiniteSet(queue') /\ NoChunkCountedTwice'
  BY <1>1, <1>2, NothingAdded DEF UnderWay, TypeOK
<1> QED
  BY <1>3, <1>4, <1>5

LEMMA NextIInv == IInv /\ [Next]_vars => IInv'
<1> SUFFICES ASSUME IInv, [Next]_vars PROVE IInv'
  OBVIOUS
<1>1. CASE UNCHANGED vars
  BY <1>1 DEF vars, uploadVars, jobVars, workerVars, coreVars, IInv, TypeOK,
     UploadProgress, BehindNext, NoChunkCountedTwice, UnderWay, Of,
     CompletingIsCounted, FinalMeansAllCounted
<1>2. ASSUME NEW j \in Jobs, Upload(j) PROVE IInv'
  BY <1>2, CreateJobIInv, EnqueueChunkIInv, EnqueueFailsIInv DEF Upload
<1>3. ASSUME NEW w \in Workers, Worker(w) PROVE IInv'
  BY <1>3, DequeueIInv, PopLostIInv, PostIInv, UpdateProgressIInv, MoveOnIInv,
     CompleteJobIInv DEF Worker
<1> QED
  BY <1>1, <1>2, <1>3, CrashIInv DEF Next

-----------------------------------------------------------------------------
\* The strengthening of the properties below that the steps preserve: chunks counted,
\* queued and under way are at most those enqueued (worker.rs:60-138).
THEOREM Invariance == Spec => []IInv
BY InitIInv, NextIInv, PTL DEF Spec

\* The types, for any files, workers and faults.
THEOREM TypeCorrect == Spec => []TypeOK
BY Invariance, PTL DEF IInv

\* However many workers count concurrently, a chunk is counted at most once.
THEOREM NoChunkCountedTwiceCorrect == Spec => []NoChunkCountedTwice
BY Invariance, PTL DEF IInv

\* A final status is given when all chunks are counted, and is theirs.
THEOREM FinalCorrect == Spec => []FinalMeansAllCounted
BY Invariance, PTL DEF IInv

\* What a client has read of the status and the counts of a final job stays true,
\* and only the workers that were completing it then stamp it again, once each
\* (jobs.rs:75-94, worker.rs:140-166).
THEOREM FinalIsFinalCorrect == Spec => FinalIsFinal
<1>1. IInv /\ [Next]_vars =>
        \A j \in Jobs : status[j] \in Final =>
          /\ status'[j] = status[j]
          /\ processed'[j] = processed[j] /\ failed'[j] = failed[j] /\ done'[j] = done[j]
          /\ Closing(j)' \subseteq Closing(j)
          /\ completed_at'[j] # completed_at[j] => Closing(j)' # Closing(j)
  <2> DEFINE Kept(j) == /\ status'[j] = status[j]
                        /\ processed'[j] = processed[j] /\ failed'[j] = failed[j]
                        /\ done'[j] = done[j]
             Closes(j) == /\ Closing(j)' \subseteq Closing(j)
                          /\ completed_at'[j] # completed_at[j] => Closing(j)' # Closing(j)
  <2> SUFFICES ASSUME IInv, [Next]_vars, NEW j \in Jobs, status[j] \in Final
               PROVE  Kept(j) /\ Closes(j)
    OBVIOUS
  <2>1. done[j] = Total(j) /\ status[j] = StatusOf(processed[j], failed[j])
    BY DEF IInv, FinalMeansAllCounted
  <2>2. ASSUME NEW i \in Jobs, CreateJob(i) PROVE i # j
    <3> SUFFICES ASSUME i = j PROVE FALSE
      OBVIOUS
    <3>1. next[j] = 1
      BY <2>2 DEF CreateJob, IInv, UploadProgress
    <3> DEFINE q == Cardinality(Of(queue, j))
               u == Cardinality(UnderWay(j))
    <3>2. done[j] \in Nat /\ q \in Nat /\ u \in Nat /\ done[j] + q + u <= next[j] - 1
      BY Numbers DEF IInv
    <3>3. done[j] # 0
      BY <2>1, TotalType
    <3> HIDE DEF q, u
    <3> QED
      BY <3>1, <3>2, <3>3
  <2>3. \A w \in Workers : at[w] = "updating" => Job(chunk[w]) # j
    <3> SUFFICES ASSUME NEW w \in Workers, at[w] = "updating", Job(chunk[w]) = j PROVE FALSE
      OBVIOUS
    <3>1. w \in UnderWay(j)
      BY DEF UnderWay
    <3>2. done[j] + 1 <= Total(j) /\ done[j] \in Nat
      BY <3>1, UnderWayIsUncounted, Numbers DEF IInv
    <3> QED
      BY <2>1, <3>2
  <2>4. ASSUME NEW i \in Jobs, Upload(i) PROVE Kept(j) /\ Closes(j)
    <3>1. status'[j] = status[j] /\ UNCHANGED <<processed, failed, done, completed_at, workerVars>>
      BY <2>2, <2>4 DEF Upload, CreateJob, EnqueueChunk, EnqueueFails, jobVars, IInv, TypeOK
    <3> QED
      BY <3>1 DEF Closing, workerVars
  <2>5. ASSUME NEW w \in Workers, Worker(w) PROVE Kept(j) /\ Closes(j)
    <3>1. CASE UpdateProgress(w)
      <4>1. Job(chunk[w]) # j /\ Kept(j) /\ completed_at' = completed_at
        BY <2>3, <3>1 DEF UpdateProgress, IInv, TypeOK
      <4>2. Closing(j)' \subseteq Closing(j)
        BY <3>1, <4>1 DEF UpdateProgress, Goto, Closing, IInv, TypeOK
      <4> QED
        BY <4>1, <4>2
    <3>2. CASE CompleteJob(w)
      <4>1. Kept(j)
        BY <2>1, <3>2 DEF CompleteJob, IInv, TypeOK
      <4>2. /\ at[w] = "completing" /\ at' = [at EXCEPT ![w] = "polling"] /\ chunk' = chunk
            /\ completed_at' = [completed_at EXCEPT ![Job(chunk[w])] = @ + 1]
        BY <3>2 DEF CompleteJob, Goto
      <4>3. Closing(j)' \subseteq Closing(j) /\ w \notin Closing(j)'
        BY <4>2 DEF Closing, IInv, TypeOK
      <4>4. completed_at'[j] # completed_at[j] => w \in Closing(j)
        BY <4>2 DEF Closing, IInv, TypeOK
      <4> QED
        BY <4>1, <4>3, <4>4
    <3>3. CASE \/ Dequeue(w) \/ PopLost(w) \/ Post(w) \/ PostRefused(w) \/ AnswerLost(w)
               \/ BodyLost(w) \/ UpdateFails(w) \/ CheckDone(w) \/ CompleteFails(w)
      <4>1. UNCHANGED jobVars
        BY <3>3 DEF Dequeue, PopLost, Post, PostRefused, AnswerLost, BodyLost, UpdateFails,
           CheckDone, CompleteFails
      <4>2. Closing(j)' \subseteq Closing(j)
        <5>1. CASE Dequeue(w)
          BY <5>1 DEF Dequeue, Goto, Closing, IInv, TypeOK
        <5>2. CASE PopLost(w)
          BY <5>2 DEF PopLost, workerVars, Closing
        <5>3. CASE Post(w) \/ PostRefused(w) \/ AnswerLost(w) \/ BodyLost(w)
          <6>1. chunk' = chunk /\ at' = [at EXCEPT ![w] = "updating"]
            BY <5>3 DEF Post, PostRefused, AnswerLost, BodyLost, Count, Goto
          <6> QED
            BY <6>1 DEF Closing, IInv, TypeOK
        <5>4. CASE UpdateFails(w)
          BY <2>3, <5>4 DEF UpdateFails, Goto, Closing, IInv, TypeOK
        <5>5. CASE CheckDone(w) \/ CompleteFails(w)
          <6>1. /\ chunk' = chunk /\ at[w] \in {"checking", "completing"}
                /\ \E where \in {"completing", "polling"} : at' = [at EXCEPT ![w] = where]
            BY <5>5 DEF CheckDone, CompleteFails, Goto
          <6> QED
            BY <6>1 DEF Closing, IInv, TypeOK
        <5> QED
          BY <3>3, <5>1, <5>2, <5>3, <5>4, <5>5
      <4> QED
        BY <4>1, <4>2 DEF jobVars
    <3> QED
      BY <2>5, <3>1, <3>2, <3>3 DEF Worker
  <2>6. CASE Crash
    <3>1. UNCHANGED <<jobVars, chunk>>
      BY <2>6 DEF Crash
    <3>2. PICK ws \in SUBSET Workers :
            at' = [w \in Workers |-> IF w \in ws THEN "polling" ELSE at[w]]
      BY <2>6 DEF Crash
    <3> QED
      BY <3>1, <3>2 DEF jobVars, Closing
  <2>7. CASE UNCHANGED vars
    BY <2>7 DEF vars, jobVars, workerVars, Closing
  <2> QED
    BY <2>4, <2>5, <2>6, <2>7 DEF Next
<1> QED
  BY <1>1, Invariance, PTL DEF Spec, FinalIsFinal

-----------------------------------------------------------------------------
(* What is counted: the counters of a job are those of a set of chunks,    *)
(* which nobody can count again.                                           *)

Sizes == [c \in Chunks |-> Size(c)]
Clean(j) == \A c \in Of(Chunks, j) : ~Rejected(c, Size(c))
InHand == {w \in Workers : at[w] \in {"posting", "updating"}}

\* Each of these chunks was enqueued, and has left the queue and the workers.
Past(cs, j) ==
  /\ cs \cap queue = {}
  /\ \A c \in cs : c[2] < next[j]
  /\ \A w \in InHand : chunk[w] \notin cs

\* The row of job j counts these chunks and no others.
Amounts(cs, j) ==
  /\ Cardinality(cs) = done[j]
  /\ "body" \notin faults => (processed[j] + failed[j] = Sum(Sizes, cs))
  /\ Clean(j) => (processed[j] <= Sum(stored, cs))

Counted ==
  \A j \in Jobs : \E cs \in SUBSET Of(Chunks, j) : Past(cs, j) /\ Amounts(cs, j)

\* No two workers have the same chunk.
OneHand == \A v, w \in InHand : v # w => chunk[v] # chunk[w]

\* A worker is about to count every row of its chunk, and only stored ones as processed.
ResultsFit ==
  \A w \in Workers : at[w] = "updating" =>
    /\ "body" \notin faults => (result[w].processed + result[w].failed = Size(chunk[w]))
    /\ Clean(Job(chunk[w])) => (result[w].processed <= stored[chunk[w]])

Accounted == Counted /\ OneHand /\ ResultsFit

-----------------------------------------------------------------------------
\* The elements that chunk c adds to a sum.
LEMMA ElementsOfOne ==
  ASSUME NEW c, NEW k \in Nat
  PROVE  IsFiniteSet({c} \X (1..k)) /\ Cardinality({c} \X (1..k)) = k
<1>1. PICK s : s = {c}
  OBVIOUS
<1>2. PICK t : t = 1..k
  OBVIOUS
<1>3. IsFiniteSet(s) /\ Cardinality(s) = 1
  BY <1>1, FS_Singleton
<1>4. IsFiniteSet(t) /\ Cardinality(t) = k
  BY <1>2, FS_Interval
<1>5. IsFiniteSet(s \X t) /\ Cardinality(s \X t) = 1 * k
  BY <1>3, <1>4, FS_Product
<1> QED
  BY <1>1, <1>2, <1>5

\* The elements that a sum counts.
Numbered(n, cs) == UNION {{c} \X (1..n[c]) : c \in cs}

LEMMA NumberedIsFinite ==
  ASSUME NEW cs, IsFiniteSet(cs), NEW n, \A c \in cs : n[c] \in Nat
  PROVE  IsFiniteSet(Numbered(n, cs)) /\ Sum(n, cs) = Cardinality(Numbered(n, cs))
         /\ Sum(n, cs) \in Nat
<1> DEFINE T == {{c} \X (1..n[c]) : c \in cs}
           F == [c \in cs |-> {c} \X (1..n[c])]
<1>1. F \in Surjection(cs, T)
  BY DEF Surjection
<1>2. IsFiniteSet(T)
  BY <1>1, FS_Surjection
<1>3. ASSUME NEW c \in cs PROVE IsFiniteSet({c} \X (1..n[c]))
  BY ElementsOfOne
<1>4. \A t \in T : IsFiniteSet(t)
  BY <1>3
<1>5. IsFiniteSet(UNION T)
  <2> HIDE DEF T
  <2> QED
    BY <1>2, <1>4, FS_UNION
<1> QED
  BY <1>5, FS_CardinalityType DEF Numbered, Sum

LEMMA SumOfNone == ASSUME NEW n PROVE Sum(n, {}) = 0
<1>1. UNION {{c} \X (1..n[c]) : c \in {}} = {}
  OBVIOUS
<1> QED
  BY <1>1, FS_EmptySet DEF Sum

LEMMA SumOfOneMore ==
  ASSUME NEW cs, IsFiniteSet(cs), NEW n, \A c \in cs : n[c] \in Nat,
         NEW d, d \notin cs, n[d] \in Nat
  PROVE  Sum(n, cs \cup {d}) = Sum(n, cs) + n[d]
<1> DEFINE A == Numbered(n, cs)
           B == {d} \X (1..n[d])
<1>1. Sum(n, cs \cup {d}) = Cardinality(A \cup B)
  <2>1. Numbered(n, cs \cup {d}) = A \cup B
    BY DEF Numbered
  <2> QED
    BY <2>1 DEF Sum, Numbered
<1>2. IsFiniteSet(A) /\ Sum(n, cs) = Cardinality(A) /\ Cardinality(A) \in Nat
  BY NumberedIsFinite
<1>3. IsFiniteSet(B) /\ Cardinality(B) = n[d]
  BY ElementsOfOne
<1>4. A \cap B = {}
  BY DEF Numbered
<1>5. Cardinality(A \cap B) = 0
  BY <1>4, FS_EmptySet
<1> HIDE DEF A, B
<1>6. Cardinality(A \cup B) = Cardinality(A) + Cardinality(B) - Cardinality(A \cap B)
  BY <1>2, <1>3, FS_Union
<1> QED
  BY <1>1, <1>2, <1>3, <1>5, <1>6

LEMMA SumOfFewer ==
  ASSUME NEW cs, IsFiniteSet(cs), NEW n, \A c \in cs : n[c] \in Nat,
         NEW ds \in SUBSET cs
  PROVE  Sum(n, ds) <= Sum(n, cs)
<1>1. IsFiniteSet(ds)
  BY FS_Subset
<1>2. Numbered(n, ds) \in SUBSET Numbered(n, cs)
  BY DEF Numbered
<1> QED
  BY <1>1, <1>2, NumberedIsFinite, FS_Subset

LEMMA SumOfSame ==
  ASSUME NEW cs, NEW n, NEW m, \A c \in cs : n[c] = m[c]
  PROVE  Sum(n, cs) = Sum(m, cs)
<1>1. {{c} \X (1..n[c]) : c \in cs} = {{c} \X (1..m[c]) : c \in cs}
  OBVIOUS
<1> QED
  BY <1>1 DEF Sum

\* A job has finitely many chunks, chunks_total of them.
LEMMA ChunksOfJob ==
  ASSUME NEW j \in Jobs
  PROVE  IsFiniteSet(Of(Chunks, j)) /\ Cardinality(Of(Chunks, j)) = Total(j)
<1> DEFINE F == [i \in 1..Total(j) |-> <<j, i>>]
<1>1. Total(j) \in Nat
  BY IngestAssumption DEF Total
<1>2. Of(Chunks, j) = {<<j, i>> : i \in 1..Total(j)}
  BY DEF Of, Chunks, Job
<1>3. F \in Bijection(1..Total(j), Of(Chunks, j))
  <2>1. F \in [1..Total(j) -> Of(Chunks, j)]
    BY <1>2
  <2>2. \A a, b \in 1..Total(j) : F[a] = F[b] => a = b
    OBVIOUS
  <2>3. \A t \in Of(Chunks, j) : \E s \in 1..Total(j) : F[s] = t
    BY <1>2
  <2> HIDE DEF F
  <2> QED
    BY <2>1, <2>2, <2>3 DEF Bijection, Injection, Surjection, IsInjective
<1>4. IsFiniteSet(1..Total(j)) /\ Cardinality(1..Total(j)) = Total(j)
  BY <1>1, FS_Interval
<1> QED
  BY <1>3, <1>4, FS_Bijection DEF ExistsBijection

\* A set of chunks can be counted, and so can their rows and their records.
LEMMA SumsType ==
  ASSUME TypeOK, NEW j \in Jobs, NEW cs \in SUBSET Of(Chunks, j)
  PROVE  /\ cs \subseteq Chunks /\ IsFiniteSet(cs) /\ Cardinality(cs) \in Nat
         /\ \A c \in Chunks : Sizes[c] \in Nat /\ stored[c] \in Nat
         /\ Sum(Sizes, cs) \in Nat /\ Sum(stored, cs) \in Nat
<1>1. cs \subseteq Chunks
  BY DEF Of
<1>2. IsFiniteSet(cs) /\ Cardinality(cs) \in Nat
  BY ChunksOfJob, FS_Subset, FS_CardinalityType
<1>3. \A c \in Chunks : Sizes[c] \in Nat /\ stored[c] \in Nat
  BY CountsType DEF Sizes, TypeOK
<1>4. \A c \in cs : Sizes[c] \in Nat /\ stored[c] \in Nat
  BY <1>1, <1>3
<1>5. PICK sizes : sizes = Sizes
  OBVIOUS
<1>6. Sum(sizes, cs) \in Nat
  BY <1>2, <1>4, <1>5, NumberedIsFinite
<1>7. Sum(stored, cs) \in Nat
  BY <1>2, <1>4, NumberedIsFinite
<1> QED
  BY <1>1, <1>2, <1>3, <1>5, <1>6, <1>7

LEMMA InitAccounted == Init => Accounted
<1> SUFFICES ASSUME Init PROVE Accounted
  OBVIOUS
<1>1. InHand = {}
  BY DEF Init, InHand
<1>2. OneHand /\ ResultsFit
  BY <1>1 DEF OneHand, ResultsFit, Init
<1>3. Counted
  <2> SUFFICES ASSUME NEW j \in Jobs
               PROVE  Past({}, j) /\ Amounts({}, j)
    BY DEF Counted
  <2>1. Past({}, j)
    BY <1>1 DEF Past
  <2>2. Amounts({}, j)
    BY SumOfNone, FS_EmptySet DEF Amounts, Init
  <2> QED
    BY <2>1, <2>2
<1> QED
  BY <1>2, <1>3 DEF Accounted

\* Nothing is handed out, and nothing that was counted is touched.
LEMMA NothingHandedOut ==
  ASSUME IInv, Counted, OneHand,
         next' \in [Jobs -> Nat], \A j \in Jobs : next[j] <= next'[j],
         \A c \in queue' : c \in queue \/ (c \in Chunks /\ c[2] = next[Job(c)]),
         InHand' \subseteq InHand, chunk' = chunk,
         UNCHANGED <<processed, failed, done>>, faults \subseteq faults',
         \A c \in Chunks :
           (\E w \in InHand : c = chunk[w]) \/ stored'[c] = stored[c]
  PROVE  Counted' /\ OneHand'
<1>1. OneHand'
  BY DEF OneHand
<1>2. Counted'
  <2> SUFFICES ASSUME NEW j \in Jobs
               PROVE  \E cs \in SUBSET Of(Chunks, j) : Past(cs, j)' /\ Amounts(cs, j)'
    BY DEF Counted
  <2>1. PICK cs \in SUBSET Of(Chunks, j) : Past(cs, j) /\ Amounts(cs, j)
    BY DEF Counted
  <2>2. \A c \in cs : c \in Chunks /\ Job(c) = j /\ c[2] \in Nat
    BY ChunkType DEF Of
  <2>3. next[j] \in Nat /\ next'[j] \in Nat /\ next[j] <= next'[j]
    BY DEF IInv, TypeOK
  <2>4. Past(cs, j)'
    <3>1. cs \cap queue' = {}
      BY <2>1, <2>2, <2>3 DEF Past
    <3>2. \A c \in cs : c[2] < next'[j]
      BY <2>1, <2>2, <2>3 DEF Past
    <3>3. \A w \in InHand' : chunk'[w] \notin cs
      BY <2>1 DEF Past
    <3> QED
      BY <3>1, <3>2, <3>3 DEF Past
  <2>5. \A c \in cs : stored'[c] = stored[c]
    BY <2>1, <2>2 DEF Past
  <2>6. Sum(stored', cs) = Sum(stored, cs)
    <3>1. PICK m : m = stored'
      OBVIOUS
    <3>2. \A c \in cs : stored[c] = m[c]
      BY <2>5, <3>1
    <3>3. Sum(stored, cs) = Sum(m, cs)
      BY <3>2, SumOfSame
    <3> QED
      BY <3>1, <3>3
  <2>7. Amounts(cs, j)'
    BY <2>1, <2>6 DEF Amounts
  <2> QED
    BY <2>4, <2>7
<1> QED
  BY <1>1, <1>2

\* The workers that are about to count still have what they got.
LEMMA ResultsKept ==
  ASSUME ResultsFit, faults \subseteq faults', chunk' = chunk, result' = result,
         stored' = stored,
         \A w \in Workers : at'[w] = "updating" => at[w] = "updating"
  PROVE  ResultsFit'
BY DEF ResultsFit

\* The handler only adds chunks that come after those counted.
LEMMA UploadAccounted == ASSUME IInv, IInv', Accounted, NEW j \in Jobs, Upload(j) PROVE Accounted'
<1> USE DEF Accounted
<1>1. UNCHANGED <<processed, failed, done, workerVars, coreVars>> /\ faults \subseteq faults'
  BY DEF Upload, CreateJob, EnqueueChunk, EnqueueFails, Fault, jobVars
<1>2. next' \in [Jobs -> Nat] /\ \A i \in Jobs : next[i] <= next'[i]
  <2>1. \A i \in Jobs : next[i] \in Nat
    BY DEF IInv, TypeOK
  <2>2. next' = next \/ next' = [next EXCEPT ![j] = @ + 1]
    BY DEF Upload, CreateJob, EnqueueChunk, EnqueueFails, Advance
  <2>3. DOMAIN next = Jobs /\ next' \in [Jobs -> Nat]
    BY DEF IInv, TypeOK
  <2>4. ASSUME NEW i \in Jobs PROVE next'[i] = next[i] \/ next'[i] = next[i] + 1
    BY ONLY <2>2, <2>3
  <2>5. ASSUME NEW i \in Jobs PROVE next[i] <= next'[i]
    BY ONLY <2>1, <2>4
  <2> QED
    BY <2>3, <2>5
<1>3. \A c \in queue' : c \in queue \/ (c \in Chunks /\ c[2] = next[Job(c)])
  <2>1. queue' = queue \/ queue' = queue \cup {<<j, next[j]>>}
    BY DEF Upload, CreateJob, EnqueueChunk, EnqueueFails
  <2>2. queue' \subseteq Chunks
    BY DEF IInv, TypeOK
  <2> QED
    BY <2>1, <2>2 DEF Job
<1>4. InHand' \subseteq InHand
  BY <1>1 DEF InHand, workerVars
<1>5. Counted' /\ OneHand'
  BY <1>1, <1>2, <1>3, <1>4, NothingHandedOut DEF workerVars, coreVars
<1>6. ResultsFit'
  BY <1>1, ResultsKept DEF workerVars, coreVars
<1> QED
  BY <1>5, <1>6

\* Steps of a worker that count nothing and hand out nothing.
LEMMA QuietAccounted ==
  ASSUME IInv, Accounted,
         queue' \subseteq queue, InHand' \subseteq InHand,
         UNCHANGED <<next, processed, failed, done, chunk, result, stored>>,
         faults \subseteq faults',
         \A w \in Workers : at'[w] = "updating" => at[w] = "updating"
  PROVE  Accounted'
<1>1. next' \in [Jobs -> Nat] /\ \A j \in Jobs : next[j] <= next'[j]
  BY DEF IInv, TypeOK
<1>2. Counted' /\ OneHand'
  BY <1>1, NothingHandedOut DEF Accounted
<1> QED
  BY <1>2, ResultsKept DEF Accounted

\* A chunk comes from the queue, where no counted chunk and no worker's chunk is.
LEMMA DequeueAccounted ==
  ASSUME IInv, Accounted, NEW w \in Workers, Dequeue(w) PROVE Accounted'
<1>1. PICK d \in queue : queue' = queue \ {d} /\ chunk' = [chunk EXCEPT ![w] = d]
  BY DEF Dequeue
<1>2. /\ at[w] = "polling" /\ at' = [at EXCEPT ![w] = "posting"]
      /\ UNCHANGED <<next, processed, failed, done, result, stored, faults>>
  BY DEF Dequeue, Goto, uploadVars, jobVars, coreVars
<1>3. InHand' = InHand \cup {w} /\ w \notin InHand
  BY <1>2 DEF InHand, IInv, TypeOK
<1>4. chunk'[w] = d /\ \A v \in InHand : chunk'[v] = chunk[v]
  BY <1>1, <1>3 DEF IInv, TypeOK, InHand
<1>5. \A v \in InHand : chunk[v] \notin queue
  BY DEF InHand, IInv, TypeOK
<1>6. OneHand'
  BY <1>3, <1>4, <1>5 DEF OneHand, Accounted
<1>7. ResultsFit'
  <2>1. \A v \in Workers : at'[v] = "updating" =>
          at[v] = "updating" /\ chunk'[v] = chunk[v] /\ v \in InHand
    BY <1>2, <1>4 DEF IInv, TypeOK, InHand
  <2> QED
    BY <1>2, <2>1 DEF ResultsFit, Accounted
<1>8. Counted'
  <2> SUFFICES ASSUME NEW j \in Jobs
               PROVE  \E cs \in SUBSET Of(Chunks, j) : Past(cs, j)' /\ Amounts(cs, j)'
    BY DEF Counted
  <2>1. PICK cs \in SUBSET Of(Chunks, j) : Past(cs, j) /\ Amounts(cs, j)
    BY DEF Counted, Accounted
  <2>2. Past(cs, j)'
    BY <1>1, <1>2, <1>3, <1>4, <2>1 DEF Past
  <2>3. Amounts(cs, j)'
    BY <1>2, <2>1 DEF Amounts
  <2> QED
    BY <2>2, <2>3
<1> QED
  BY <1>6, <1>7, <1>8 DEF Accounted

\* What mdm-core says of a chunk fits what it stored.
LEMMA AnswersFit ==
  ASSUME NEW c \in Chunks, NEW r \in {Answer(c), AllFailed(c)}
  PROVE  /\ r.processed + r.failed = Size(c)
         /\ ~Rejected(c, Size(c)) => r.processed <= Stored(c)
<1> DEFINE n == Size(c)
           k == Inserted(c)
<1>1. n \in Nat /\ k \in Nat /\ Stored(c) \in Nat
  BY CountsType
<1>2. ~Rejected(c, Size(c)) => Stored(c) = k
  BY DEF Stored
<1>3. r = [processed |-> k, failed |-> n - k] \/ r = [processed |-> 0, failed |-> n]
  BY DEF Answer, AllFailed
<1> HIDE DEF n, k
<1>4. r.processed + r.failed = n /\ (r.processed = k \/ r.processed = 0)
  BY <1>1, <1>3
<1>5. ~Rejected(c, Size(c)) => r.processed <= Stored(c)
  BY <1>1, <1>2, <1>4
<1> QED
  BY <1>4, <1>5 DEF n

LEMMA PostAccounted ==
  ASSUME IInv, Accounted, NEW w \in Workers,
         Post(w) \/ PostRefused(w) \/ AnswerLost(w) \/ BodyLost(w)
  PROVE  Accounted'
<1> DEFINE c == chunk[w]
<1>1. /\ at[w] = "posting" /\ at' = [at EXCEPT ![w] = "updating"]
      /\ UNCHANGED <<next, processed, failed, done, queue, chunk>>
      /\ faults \subseteq faults'
  BY DEF Post, PostRefused, AnswerLost, BodyLost, Count, Goto, Fault, uploadVars, jobVars
<1>2. c \in Chunks /\ Job(c) \in Jobs
  BY <1>1, ChunkType DEF IInv, TypeOK
<1>3. InHand' = InHand /\ w \in InHand
  BY <1>1 DEF InHand, IInv, TypeOK
<1>4. stored' = [stored EXCEPT ![c] = Stored(c)] \/ stored' = stored
  BY DEF Post, PostRefused, AnswerLost, BodyLost, BulkInsert, coreVars
<1>5. \A d \in Chunks : d = c \/ stored'[d] = stored[d]
  BY <1>4 DEF IInv, TypeOK
<1>6. Counted' /\ OneHand'
  <2>1. next' \in [Jobs -> Nat] /\ \A j \in Jobs : next[j] <= next'[j]
    BY <1>1 DEF IInv, TypeOK
  <2> QED
    BY <1>1, <1>3, <1>5, <2>1, NothingHandedOut DEF Accounted
<1>7. ResultsFit'
  <2> SUFFICES ASSUME NEW v \in Workers, at'[v] = "updating"
               PROVE  /\ "body" \notin faults' =>
                           (result'[v].processed + result'[v].failed = Size(chunk[v]))
                      /\ Clean(Job(chunk[v])) => (result'[v].processed <= stored'[chunk[v]])
    BY <1>1 DEF ResultsFit
  <2>1. PICK r \in {Answer(c), AllFailed(c), Nothing} :
          /\ result' = [result EXCEPT ![w] = r]
          /\ r \in {Answer(c), AllFailed(c)} \/ "body" \in faults'
          /\ stored'[c] = Stored(c) \/ (r = AllFailed(c) /\ stored' = stored)
    <3>1. CASE Post(w)
      BY <1>2, <3>1 DEF Post, Count, BulkInsert, IInv, TypeOK
    <3>2. CASE PostRefused(w)
      BY <3>2 DEF PostRefused, Count, coreVars
    <3>3. CASE AnswerLost(w)
      BY <1>2, <3>3 DEF AnswerLost, Count, BulkInsert, IInv, TypeOK
    <3>4. CASE BodyLost(w)
      BY <1>2, <3>4 DEF BodyLost, Count, BulkInsert, Fault, IInv, TypeOK
    <3> QED
      BY <3>1, <3>2, <3>3, <3>4
  <2>2. CASE v # w
    <3>1. at[v] = "updating" /\ result'[v] = result[v] /\ v \in InHand
      BY <1>1, <2>1, <2>2 DEF IInv, TypeOK, InHand
    <3>2. chunk[v] \in Chunks /\ chunk[v] # c
      BY <1>3, <2>2, <3>1 DEF Accounted, OneHand, IInv, TypeOK
    <3> QED
      BY <1>1, <1>5, <3>1, <3>2 DEF Accounted, ResultsFit
  <2>3. CASE v = w
    <3>1. result'[v] = r
      BY <2>1, <2>3 DEF IInv, TypeOK
    <3>2. Clean(Job(c)) => ~Rejected(c, Size(c))
      BY <1>2 DEF Clean, Of
    <3>3. stored'[c] \in Nat /\ Stored(c) \in Nat
      BY <1>2, <1>4, CountsType DEF IInv, TypeOK
    <3>4. CASE r = Nothing /\ "body" \in faults'
      BY <2>1, <2>3, <3>1, <3>3, <3>4 DEF Nothing
    <3>5. CASE r \in {Answer(c), AllFailed(c)}
      <4>1. /\ r.processed + r.failed = Size(c)
            /\ ~Rejected(c, Size(c)) => r.processed <= Stored(c)
        BY <1>2, <3>5, AnswersFit
      <4>2. r = AllFailed(c) => r.processed = 0
        BY DEF AllFailed
      <4>3. Clean(Job(c)) => r.processed <= stored'[c]
        BY <2>1, <3>2, <3>3, <4>1, <4>2
      <4> QED
        BY <2>3, <3>1, <4>1, <4>3
    <3> QED
      BY <2>1, <3>4, <3>5
  <2> QED
    BY <2>2, <2>3
<1> QED
  BY <1>6, <1>7 DEF Accounted

\* The worker's chunk joins the counted ones, with the records it was given.
LEMMA UpdateProgressAccounted ==
  ASSUME IInv, Accounted, NEW w \in Workers, UpdateProgress(w) PROVE Accounted'
<1>0. PICK c : c = chunk[w]
  OBVIOUS
<1> DEFINE j == Job(c)
<1>1. /\ at[w] = "updating" /\ at' = [at EXCEPT ![w] = "checking"]
      /\ UNCHANGED <<next, queue, chunk, result, stored, faults>>
      /\ done' = [done EXCEPT ![j] = @ + 1]
  BY <1>0 DEF UpdateProgress, Goto, uploadVars, coreVars
<1>2. /\ processed' = [processed EXCEPT ![j] = @ + result[w].processed]
      /\ failed' = [failed EXCEPT ![j] = @ + result[w].failed]
  BY <1>0 DEF UpdateProgress
<1>3. c \in Chunks /\ j \in Jobs /\ c \in Of(Chunks, j) /\ c \notin queue /\ c[2] < next[j]
  BY <1>0, <1>1, ChunkType DEF IInv, TypeOK, BehindNext, Of
<1>4. InHand' = InHand \ {w} /\ w \in InHand
  BY <1>1 DEF InHand, IInv, TypeOK
<1>5. OneHand'
  BY <1>1, <1>4 DEF OneHand, Accounted
<1>6. ResultsFit'
  <2>1. \A v \in Workers : at'[v] = "updating" => at[v] = "updating"
    BY <1>1 DEF IInv, TypeOK
  <2> QED
    BY <1>1, <2>1, ResultsKept DEF Accounted
<1>7. /\ "body" \notin faults => (result[w].processed + result[w].failed = Sizes[c])
      /\ Clean(j) => (result[w].processed <= stored[c])
      /\ result[w].processed \in Nat /\ result[w].failed \in Nat
  BY <1>0, <1>1, <1>3 DEF Accounted, ResultsFit, Sizes, IInv, TypeOK
<1>8. Counted'
  <2> SUFFICES ASSUME NEW i \in Jobs
               PROVE  \E cs \in SUBSET Of(Chunks, i) : Past(cs, i)' /\ Amounts(cs, i)'
    BY DEF Counted
  <2>1. PICK cs \in SUBSET Of(Chunks, i) : Past(cs, i) /\ Amounts(cs, i)
    BY DEF Counted, Accounted
  <2>2. CASE i # j
    <3>1. /\ done'[i] = done[i] /\ processed'[i] = processed[i] /\ failed'[i] = failed[i]
      BY <1>1, <1>2, <2>2 DEF IInv, TypeOK
    <3>2. Past(cs, i)'
      BY <1>1, <1>4, <2>1 DEF Past
    <3>3. Amounts(cs, i)'
      BY <1>1, <2>1, <3>1 DEF Amounts
    <3> QED
      BY <3>2, <3>3
  <2>3. CASE i = j
    <3>1. c \notin cs
      BY <1>0, <1>4, <2>1 DEF Past
    <3>2. cs \cup {c} \in SUBSET Of(Chunks, i)
      BY <1>3, <2>3
    <3>3. Past(cs \cup {c}, i)'
      <4>1. \A v \in InHand' : v \in InHand /\ chunk[v] # c
        BY <1>0, <1>4 DEF OneHand, Accounted
      <4> QED
        BY <1>1, <1>3, <2>1, <2>3, <4>1 DEF Past
    <3>4. /\ IsFiniteSet(cs) /\ Cardinality(cs) \in Nat /\ cs \subseteq Chunks
          /\ \A d \in Chunks : Sizes[d] \in Nat /\ stored[d] \in Nat
          /\ Sum(Sizes, cs) \in Nat /\ Sum(stored, cs) \in Nat
      BY SumsType DEF IInv
    <3>5. Cardinality(cs \cup {c}) = Cardinality(cs) + 1
      BY <3>1, <3>4, FS_AddElement
    <3>6. Sum(stored, cs \cup {c}) = Sum(stored, cs) + stored[c]
      <4>1. \A d \in cs : stored[d] \in Nat
        BY <3>4
      <4> QED
        BY <1>3, <3>1, <3>4, <4>1, SumOfOneMore
    <3>7. Sum(Sizes, cs \cup {c}) = Sum(Sizes, cs) + Sizes[c]
      <4>1. PICK sizes : sizes = Sizes
        OBVIOUS
      <4>2. \A d \in cs : sizes[d] \in Nat
        BY <3>4, <4>1
      <4>3. Sum(sizes, cs \cup {c}) = Sum(sizes, cs) + sizes[c]
        BY <1>3, <3>1, <3>4, <4>1, <4>2, SumOfOneMore
      <4> QED
        BY <4>1, <4>3
    <3>8. /\ done'[i] = done[i] + 1
          /\ processed'[i] = processed[i] + result[w].processed
          /\ failed'[i] = failed[i] + result[w].failed
          /\ done[i] \in Nat /\ processed[i] \in Nat /\ failed[i] \in Nat
      BY <1>1, <1>2, <2>3 DEF IInv, TypeOK
    <3>9. Amounts(cs \cup {c}, i)'
      <4> DEFINE p == result[w].processed
                 f == result[w].failed
                 size == Sizes[c]
                 kept == stored[c]
                 sizes == Sum(Sizes, cs)
                 keeps == Sum(stored, cs)
      <4>1. Cardinality(cs \cup {c}) = done'[i]
        BY <2>1, <3>5, <3>8 DEF Amounts
      <4>2. /\ p \in Nat /\ f \in Nat /\ size \in Nat /\ kept \in Nat
            /\ sizes \in Nat /\ keeps \in Nat
        BY <1>3, <1>7, <3>4
      <4>3. "body" \notin faults' => (processed'[i] + failed'[i] = Sum(Sizes, cs \cup {c}))
        <5> SUFFICES ASSUME "body" \notin faults
                     PROVE  processed'[i] + failed'[i] = sizes + size
          BY <1>1, <3>7
        <5>1. processed[i] + failed[i] = sizes
          BY <2>1 DEF Amounts
        <5>2. p + f = size
          BY <1>7
        <5>3. processed'[i] = processed[i] + p /\ failed'[i] = failed[i] + f
          BY <3>8
        <5> HIDE DEF p, f, size, sizes
        <5> QED
          BY <3>8, <4>2, <5>1, <5>2, <5>3
      <4>4. Clean(i) => (processed'[i] <= Sum(stored', cs \cup {c}))
        <5> SUFFICES ASSUME Clean(i)
                     PROVE  processed'[i] <= keeps + kept
          BY <1>1, <3>6
        <5>1. processed[i] <= keeps
          BY <2>1 DEF Amounts
        <5>2. p <= kept
          BY <1>7, <2>3
        <5>3. processed'[i] = processed[i] + p
          BY <3>8
        <5> HIDE DEF p, kept, keeps
        <5> QED
          BY <3>8, <4>2, <5>1, <5>2, <5>3
      <4> QED
        BY <4>1, <4>3, <4>4 DEF Amounts
    <3> QED
      BY <3>2, <3>3, <3>9
  <2> QED
    BY <2>2, <2>3
<1> QED
  BY <1>5, <1>6, <1>8 DEF Accounted

LEMMA NextAccounted == IInv /\ IInv' /\ Accounted /\ [Next]_vars => Accounted'
<1> SUFFICES ASSUME IInv, IInv', Accounted, [Next]_vars PROVE Accounted'
  OBVIOUS
<1>1. ASSUME NEW j \in Jobs, Upload(j) PROVE Accounted'
  BY <1>1, UploadAccounted
<1>2. ASSUME NEW w \in Workers, Worker(w) PROVE Accounted'
  <2>1. CASE PopLost(w)
    <3>1. /\ queue' \subseteq queue /\ faults \subseteq faults'
          /\ UNCHANGED <<next, processed, failed, done, chunk, result, stored, at>>
      BY <2>1 DEF PopLost, Fault, uploadVars, jobVars, workerVars, coreVars
    <3>2. InHand' = InHand
      BY <3>1 DEF InHand
    <3> QED
      BY <3>1, <3>2, QuietAccounted
  <2>2. CASE UpdateFails(w) \/ CheckDone(w) \/ CompleteFails(w) \/ CompleteJob(w)
    <3>1. /\ queue' = queue /\ faults \subseteq faults'
          /\ UNCHANGED <<next, processed, failed, done, chunk, result, stored>>
      BY <2>2 DEF UpdateFails, CheckDone, CompleteFails, CompleteJob, Fault,
         uploadVars, jobVars, coreVars
    <3>2. PICK where \in {"polling", "checking", "completing"} :
            at' = [at EXCEPT ![w] = where]
      BY <2>2 DEF UpdateFails, CheckDone, CompleteFails, CompleteJob, Goto
    <3>3. /\ InHand' \subseteq InHand
          /\ \A v \in Workers : at'[v] = "updating" => at[v] = "updating"
      BY <3>2 DEF InHand, IInv, TypeOK
    <3> QED
      BY <3>1, <3>3, QuietAccounted
  <2> QED
    BY <1>2, <2>1, <2>2, DequeueAccounted, PostAccounted, UpdateProgressAccounted DEF Worker
<1>3. CASE Crash
  <2>1. PICK ws \in SUBSET Workers :
          at' = [w \in Workers |-> IF w \in ws THEN "polling" ELSE at[w]]
    BY <1>3 DEF Crash
  <2>2. /\ queue' = queue /\ faults \subseteq faults'
        /\ UNCHANGED <<next, processed, failed, done, chunk, result, stored>>
    BY <1>3 DEF Crash, Fault, jobVars, coreVars
  <2>3. /\ InHand' \subseteq InHand
        /\ \A v \in Workers : at'[v] = "updating" => at[v] = "updating"
    BY <2>1 DEF InHand
  <2> QED
    BY <2>2, <2>3, QuietAccounted
<1>4. CASE UNCHANGED vars
  <2>1. /\ queue' = queue /\ faults' = faults /\ at' = at
        /\ UNCHANGED <<next, processed, failed, done, chunk, result, stored>>
    BY <1>4 DEF vars, uploadVars, jobVars, workerVars, coreVars
  <2>2. InHand' = InHand
    BY <2>1 DEF InHand
  <2> QED
    BY <2>1, <2>2, QuietAccounted
<1> QED
  BY <1>1, <1>2, <1>3, <1>4 DEF Next

\* A job's row adds up to the results of the chunks that were counted, which no worker
\* has any more, and no two workers have the same chunk (jobs.rs:50, worker.rs:78).
THEOREM AccountedAlways == Spec => []Accounted
<1>1. Init => Accounted
  BY InitAccounted
<1>2. IInv /\ IInv' /\ Accounted /\ [Next]_vars => Accounted'
  BY NextAccounted
<1> QED
  BY <1>1, <1>2, Invariance, PTL DEF Spec

\* A job is reported as completed only when each row of its file was processed.
THEOREM CompletedCorrect == Spec => []CompletedMeansProcessed
<1>1. IInv /\ Accounted => CompletedMeansProcessed
  <2> SUFFICES ASSUME IInv, Accounted, NEW j \in Jobs, status[j] = "completed",
                      "body" \notin faults
               PROVE  processed[j] = Records(j)
    BY DEF CompletedMeansProcessed
  <2>1. done[j] = Total(j) /\ failed[j] = 0
    BY DEF IInv, FinalMeansAllCounted, Final, StatusOf
  <2>2. PICK cs \in SUBSET Of(Chunks, j) : Past(cs, j) /\ Amounts(cs, j)
    BY DEF Accounted, Counted
  <2>3. Cardinality(Of(Chunks, j)) = Cardinality(cs)
    BY <2>1, <2>2, ChunksOfJob DEF Amounts
  <2>4. Of(Chunks, j) = cs
    BY <2>3, ChunksOfJob, FS_Subset
  <2>5. processed[j] + failed[j] = Sum(Sizes, Of(Chunks, j))
    BY <2>2, <2>4 DEF Amounts
  <2>6. processed[j] + failed[j] = Records(j)
    BY <2>5 DEF Records, Sizes
  <2> QED
    BY <2>1, <2>6 DEF IInv, TypeOK
<1> QED
  BY <1>1, Invariance, AccountedAlways, PTL

\* What a job counts as processed is in the database, if PostgreSQL rejects no row.
THEOREM ProcessedCorrect == Spec => []ProcessedWasStored
<1>1. IInv /\ Accounted => ProcessedWasStored
  <2> SUFFICES ASSUME IInv, Accounted, NEW j \in Jobs, Clean(j)
               PROVE  processed[j] <= Sum(stored, Of(Chunks, j))
    BY DEF ProcessedWasStored, Clean
  <2>1. PICK cs \in SUBSET Of(Chunks, j) : Past(cs, j) /\ Amounts(cs, j)
    BY DEF Accounted, Counted
  <2>2. processed[j] <= Sum(stored, cs)
    BY <2>1 DEF Amounts
  <2>3. Sum(stored, cs) <= Sum(stored, Of(Chunks, j))
    <3>1. \A c \in Of(Chunks, j) : stored[c] \in Nat
      BY DEF Of, IInv, TypeOK
    <3> QED
      BY <3>1, ChunksOfJob, SumOfFewer
  <2>4. Sum(stored, cs) \in Nat /\ Sum(stored, Of(Chunks, j)) \in Nat /\ processed[j] \in Nat
    BY SumsType DEF IInv, TypeOK
  <2> QED
    BY <2>2, <2>3, <2>4
<1> QED
  BY <1>1, Invariance, AccountedAlways, PTL

=============================================================================
