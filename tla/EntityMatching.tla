--------------------------- MODULE EntityMatching ---------------------------
(***************************************************************************)
(* Duplicate detection in mdm-core: entities are stored by bulk loads,     *)
(* which queue a match task for each, or by single requests, which do not; *)
(* the entity_match workers take the tasks, read the entity through the    *)
(* Redis cache, look for candidates in the database, score them, ask the   *)
(* AI service about the unclear ones and store the result, which stewards  *)
(* review.  The weights and thresholds of the scores are a policy that     *)
(* each replica has in memory and that administrators change.              *)
(*                                                                         *)
(* An entity is a function from its attributes to values.  Scores are in   *)
(* thousandths.                                                            *)
(***************************************************************************)
EXTENDS Integers, FiniteSets, FiniteSetsExt, Functions

CONSTANTS
  Entities,
  Workers,        \* match workers, one in each replica
  Bulk,           \* the entities that a bulk load stores
  Editable,       \* the entities that are viewed, patched and erased
  Reviewed,       \* the entities whose matches stewards decide about
  Patches,        \* the attributes a PATCH may leave
  Contents,       \* all attributes an entity may have
  First,          \* First[e]: those entity e may be stored with
  Key,            \* Key[v]: value v as the exact key of an attribute
  Text,           \* Text[v]: the text the database compares with a key
  Weightings,     \* the weights of the parts of a score
  Standard,       \* those a replica starts with
  Similarity,     \* Similarity[g][<<v, w>>]: the field score of two values
  VectorWeight,   \* VectorWeight[g]: how much of a score is vector similarity
  Updates,        \* the changes of the policy that are requested
  ExactFields,    \* the fields of the exact blocking rules
  MaxCandidates,  \* max_candidates of a request
  CandidateIds,  \* what a steward's client sends as candidate_id: "entity", "row"
  Faults,         \* what may go wrong
  Absent          \* no entity, no cache entry, no task, a field that is not given

ASSUME MatchingAssumption ==
  /\ IsFiniteSet(Entities) /\ Bulk \subseteq Entities /\ Editable \cup Reviewed \subseteq Entities
  /\ \A e \in Entities : First[e] \subseteq Contents
  /\ Patches \subseteq Contents
  /\ \A attrs \in Contents :
       IsFiniteSet(DOMAIN attrs) /\ \A f \in DOMAIN attrs : attrs[f] \in DOMAIN Key
  /\ Standard \in Weightings
  /\ \A g \in Weightings :
       /\ VectorWeight[g] \in 0..1000
       /\ \A v \in DOMAIN Key, w \in DOMAIN Key : Similarity[g][<<v, w>>] \in 0..1000
  /\ Updates \subseteq [weighting : Weightings \cup {Absent}, auto : Int \cup {Absent},
                        review : Int \cup {Absent}]
  /\ MaxCandidates \in Nat \ {0}
  /\ CandidateIds \subseteq {"entity", "row"}
  /\ Absent \notin Entities \cup Contents
  /\ Faults \subseteq {"insert", "enqueue", "task", "cache", "persist", "notify"}

VARIABLES
  stored,         \* stored[e]: the attributes in the database
  changed,        \* the entities whose attributes are no longer those they got first
  loading,        \* the bulk-loaded entities whose task is not queued yet
  cached,         \* cached[e]: the attributes in the Redis cache
  fills,          \* the copies that are about to be written to the cache
  queue,          \* the entities with a match task
  policy,         \* policy[p]: the matching policy of the replica of worker p
  at,             \* at[p]: what worker p does next
  subject,        \* subject[p]: the entity it matches
  source,         \* source[p]: the attributes it has of that entity
  under,          \* under[p]: the policy as it was when its execution began
  found,          \* found[p]: the candidates that blocking found
  scored,         \* scored[p]: the scored candidates, matches of its response
  unsaved,        \* unsaved[p]: those it has still to store
  clusters,       \* clusters[p]: the clusters of its response
  matches,        \* core_mdm.match_candidates
  notices,        \* the notices to the owners of entity types
  faults          \* the kinds of faults that lost something

storeVars == <<stored, changed, loading>>
cacheVars == <<cached, fills>>
workerVars == <<at, subject, source, under, found, scored, unsaved, clusters>>
reviewVars == <<matches, notices>>
vars == <<storeVars, cacheVars, queue, policy, workerVars, reviewVars, faults>>

\* MatchingPolicy::default
DefaultPolicy == [weighting |-> Standard, auto |-> 950, review |-> 750]

Init ==
  /\ stored = [e \in Entities |-> Absent]
  /\ changed = {} /\ loading = {}
  /\ cached = [e \in Entities |-> Absent]
  /\ fills = {} /\ queue = {}
  /\ policy = [p \in Workers |-> DefaultPolicy]
  /\ at = [p \in Workers |-> "idle"]
  /\ subject = [p \in Workers |-> Absent]
  /\ source = [p \in Workers |-> Absent]
  /\ under = [p \in Workers |-> DefaultPolicy]
  /\ found = [p \in Workers |-> {}]
  /\ scored = [p \in Workers |-> {}]
  /\ unsaved = [p \in Workers |-> {}]
  /\ clusters = [p \in Workers |-> {}]
  /\ matches = {} /\ notices = {}
  /\ faults = {}

\* One fault is the bound.
Fault(kind) == kind \in Faults /\ faults = {} /\ faults' = {kind}

-----------------------------------------------------------------------------
(* Storing entities.  Their ids are new: an entity is stored once.         *)

New(e) == stored[e] = Absent /\ e \notin changed \cup loading \cup queue

\* create_entity: a single request.  It writes the entity to the cache when it
\* has committed, and queues an embed task only.
CreateEntity(e, attrs) ==
  /\ New(e) /\ e \notin Bulk /\ attrs \in First[e]
  /\ stored' = [stored EXCEPT ![e] = attrs]
  /\ fills' = fills \cup {<<e, attrs>>}
  /\ UNCHANGED <<changed, loading, cached, queue, policy, workerVars, reviewVars, faults>>

\* create_entities_bulk commits its chunk, and queues the tasks one by one.
BulkInsert(e, attrs) ==
  /\ New(e) /\ e \in Bulk /\ attrs \in First[e]
  /\ stored' = [stored EXCEPT ![e] = attrs]
  /\ loading' = loading \cup {e}
  /\ UNCHANGED <<changed, cacheVars, queue, policy, workerVars, reviewVars, faults>>

\* Another row of the chunk was refused: the commit rolls back without an error
\* and the entity counts as inserted.
BulkRolledBack(e) ==
  /\ "insert" \in Faults
  /\ New(e) /\ e \in Bulk
  /\ loading' = loading \cup {e} /\ changed' = changed \cup {e}
  /\ UNCHANGED <<stored, cacheVars, queue, policy, workerVars, reviewVars, faults>>

EnqueueMatch(e) ==
  /\ e \in loading
  /\ loading' = loading \ {e}
  /\ queue' = queue \cup {e}
  /\ UNCHANGED <<stored, changed, cacheVars, policy, workerVars, reviewVars, faults>>

\* Redis fails, which is logged only, or the replica stops.
EnqueueFails(e) ==
  /\ e \in loading
  /\ loading' = loading \ {e}
  /\ Fault("enqueue")
  /\ UNCHANGED <<stored, changed, cacheVars, queue, policy, workerVars, reviewVars>>

\* patch_entity changes the database only (once per entity is the bound).
PatchEntity(e, attrs) ==
  /\ e \in Editable \ changed /\ attrs \in Patches \ {stored[e]} /\ stored[e] # Absent
  /\ stored' = [stored EXCEPT ![e] = attrs]
  /\ changed' = changed \cup {e}
  /\ UNCHANGED <<loading, cacheVars, queue, policy, workerVars, reviewVars, faults>>

\* hard_erase_entity removes the entity, from the database only.
HardErase(e) ==
  /\ e \in Editable /\ stored[e] # Absent
  /\ stored' = [stored EXCEPT ![e] = Absent]
  /\ changed' = changed \cup {e}
  /\ UNCHANGED <<loading, cacheVars, queue, policy, workerVars, reviewVars, faults>>

-----------------------------------------------------------------------------
(* get_entity, the read through the cache.                                 *)

\* The AI suggestion handlers read an entity (one at a time is the bound).
View(e) ==
  /\ e \in Editable /\ cached[e] = Absent /\ stored[e] # Absent
  /\ {attrs \in Contents : <<e, attrs>> \in fills} = {}
  /\ fills' = fills \cup {<<e, stored[e]>>}
  /\ UNCHANGED <<storeVars, cached, queue, policy, workerVars, reviewVars, faults>>

FillCache(e, attrs) ==
  /\ <<e, attrs>> \in fills
  /\ fills' = fills \ {<<e, attrs>>}
  /\ cached' = [cached EXCEPT ![e] = attrs]
  /\ UNCHANGED <<storeVars, queue, policy, workerVars, reviewVars, faults>>

\* Redis fails, or the replica stops.
FillFails(e, attrs) ==
  /\ "cache" \in Faults
  /\ <<e, attrs>> \in fills
  /\ fills' = fills \ {<<e, attrs>>}
  /\ UNCHANGED <<storeVars, cached, queue, policy, workerVars, reviewVars, faults>>

\* DEFECT: entries are set without an expiry.
ExpireNever(e) == FALSE /\ UNCHANGED vars

\* An entry lives 300 seconds.
CacheExpire(e) ==
  /\ cached[e] # Absent
  /\ cached' = [cached EXCEPT ![e] = Absent]
  /\ UNCHANGED <<storeVars, fills, queue, policy, workerVars, reviewVars, faults>>

-----------------------------------------------------------------------------
(* Blocking and scoring.                                                   *)

\* The entities the database has with an exact key of these attributes.
ExactMatches(attrs) ==
  {e \in Entities :
     /\ stored[e] # Absent
     /\ \E f \in ExactFields \cap DOMAIN attrs \cap DOMAIN stored[e] :
          Text[stored[e][f]] = Key[attrs[f]]}

\* DEFECT: the source is taken off the limit before it is known to be found.
LimitedToOthers(S) ==
  {T \in SUBSET S : Cardinality(T) = (IF Cardinality(S) < MaxCandidates THEN Cardinality(S) ELSE MaxCandidates - 1)}

\* What a LIMIT, or the first of a HashSet, may leave of a set.
Limited(S) ==
  {T \in SUBSET S : Cardinality(T) = (IF Cardinality(S) < MaxCandidates THEN Cardinality(S) ELSE MaxCandidates)}

\* DEFECT: the source is not removed.
CandidatesWithSource(e, attrs) ==
  UNION {Limited(exact \cup near) :
           exact \in Limited(ExactMatches(attrs)), near \in SUBSET {f \in Entities : stored[f] # Absent}}

\* Exact matches, and whatever neighbours the embeddings give: there is no limit
\* on their distance, and an entity need not be embedded yet.
Candidates(e, attrs) ==
  UNION {Limited((exact \cup near) \ {e}) :
           exact \in Limited(ExactMatches(attrs)), near \in SUBSET {f \in Entities : stored[f] # Absent}}

\* load_entities drops it, and the score takes an absent one as nothing.
VectorSimilarity == 0

Shared(attrs, others) == DOMAIN attrs \cap DOMAIN others
Least(a, b) == IF a < b THEN a ELSE b
Greatest(a, b) == IF a > b THEN a ELSE b

\* The mean of some numbers, rounded down.
Mean(numbers) ==
  MapThenSumSet(LAMBDA x : numbers[x], DOMAIN numbers) \div Cardinality(DOMAIN numbers)

FieldScore(g, attrs, others) ==
  IF Shared(attrs, others) = {} THEN 0
  ELSE Mean([f \in Shared(attrs, others) |-> Similarity[g][<<attrs[f], others[f]>>]])

Score(g, attrs, others) ==
  ((1000 - VectorWeight[g]) * FieldScore(g, attrs, others) + VectorWeight[g] * VectorSimilarity)
    \div 1000

Coverage(attrs, others) ==
  (1000 * Cardinality(Shared(attrs, others)))
    \div Greatest(1, Greatest(Cardinality(DOMAIN attrs), Cardinality(DOMAIN others)))

Confidence(g, attrs, others) ==
  Least((800 * Score(g, attrs, others) + 200 * Coverage(attrs, others)) \div 1000, 1000)

\* determine_status: with a review threshold above the other one nothing is unclear.
Status(pol, score) ==
  IF score >= pol.auto THEN "Matched"
  ELSE IF score >= pol.review THEN "RequiresReview" ELSE "Rejected"

\* score_candidate
Scored(pol, e, attrs, others) ==
  LET score == Score(pol.weighting, attrs, others)
      status == Status(pol, score)
  IN [candidate |-> e, score |-> score, confidence |-> Confidence(pol.weighting, attrs, others),
      status |-> status, ai |-> "none", review |-> status = "RequiresReview",
      recommended |-> score >= pol.auto]

\* DEFECT: a candidate the AI decided about stays in the review queue.
ResolvedStillReviewed(c, ai) ==
  CASE ai = "match" -> [c EXCEPT !.ai = ai, !.status = "Matched", !.recommended = TRUE]
    [] ai = "no_match" -> [c EXCEPT !.ai = ai, !.status = "Rejected", !.recommended = FALSE]
    [] OTHER -> c

\* The AI service decides about a candidate in the grey zone, or does not answer.
Resolved(c, ai) ==
  CASE ai = "match" -> [c EXCEPT !.ai = ai, !.status = "Matched", !.recommended = TRUE, !.review = FALSE]
    [] ai = "no_match" -> [c EXCEPT !.ai = ai, !.status = "Rejected", !.recommended = FALSE, !.review = FALSE]
    [] OTHER -> c

-----------------------------------------------------------------------------
(* The executions of the matcher, each by a worker for its task.           *)

Executing(p, e, attrs) ==
  /\ subject' = [subject EXCEPT ![p] = e]
  /\ source' = [source EXCEPT ![p] = attrs]
  /\ UNCHANGED <<under, found, scored, unsaved, clusters>>

\* An execution that ends leaves nothing behind.
Ended(p) ==
  /\ at' = [at EXCEPT ![p] = "idle"]
  /\ subject' = [subject EXCEPT ![p] = Absent]
  /\ source' = [source EXCEPT ![p] = Absent]
  /\ under' = [under EXCEPT ![p] = DefaultPolicy]
  /\ found' = [found EXCEPT ![p] = {}]
  /\ scored' = [scored EXCEPT ![p] = {}]
  /\ unsaved' = [unsaved EXCEPT ![p] = {}]
  /\ clusters' = [clusters EXCEPT ![p] = {}]

\* The task leaves the queue before it is processed.
Dequeue(p, e) ==
  /\ at[p] = "idle"
  /\ e \in queue
  /\ queue' = queue \ {e}
  /\ at' = [at EXCEPT ![p] = "read"]
  /\ Executing(p, e, Absent)
  /\ UNCHANGED <<storeVars, cacheVars, policy, reviewVars, faults>>

\* get_entity: the cached copy if there is one, else the database's.
ReadCached(p) ==
  /\ at[p] = "read" /\ cached[subject[p]] # Absent
  /\ Executing(p, subject[p], cached[subject[p]])
  /\ at' = [at EXCEPT ![p] = "find"]
  /\ UNCHANGED <<storeVars, cacheVars, queue, policy, reviewVars, faults>>

ReadStored(p) ==
  /\ at[p] = "read" /\ cached[subject[p]] = Absent /\ stored[subject[p]] # Absent
  /\ Executing(p, subject[p], stored[subject[p]])
  /\ at' = [at EXCEPT ![p] = "fill"]
  /\ UNCHANGED <<storeVars, cacheVars, queue, policy, reviewVars, faults>>

\* The copy is written to the cache, unless Redis fails.
FillSource(p) ==
  /\ at[p] = "fill"
  /\ cached' \in {[cached EXCEPT ![subject[p]] = source[p]]} \cup (IF "cache" \in Faults THEN {cached} ELSE {})
  /\ at' = [at EXCEPT ![p] = "find"]
  /\ UNCHANGED <<storeVars, fills, queue, policy, subject, source, under, found, scored, unsaved, clusters, reviewVars, faults>>

\* DEFECT: an entity that is not there yet is tried again.
RetryMissing(p) ==
  /\ at[p] = "read"
  /\ cached[subject[p]] = Absent /\ stored[subject[p]] = Absent
  /\ queue' = queue \cup {subject[p]}
  /\ Ended(p)
  /\ UNCHANGED <<storeVars, cacheVars, policy, reviewVars, faults>>

SkipMissing(p) ==
  /\ at[p] = "read"
  /\ cached[subject[p]] = Absent /\ stored[subject[p]] = Absent
  /\ Ended(p)
  /\ UNCHANGED <<storeVars, cacheVars, queue, policy, reviewVars, faults>>

\* Matcher::execute takes a copy of the policy, for all that follows.
GenerateCandidates(p) ==
  /\ at[p] = "find"
  /\ \E ids \in Candidates(subject[p], source[p]) : found' = [found EXCEPT ![p] = ids]
  /\ under' = [under EXCEPT ![p] = policy[p]]
  /\ at' = [at EXCEPT ![p] = "score"]
  /\ UNCHANGED <<storeVars, cacheVars, queue, policy, subject, source, scored, unsaved, clusters, reviewVars, faults>>

\* The candidates that are left are loaded and scored, and the AI service is
\* asked about those in the grey zone.
ScoreCandidates(p) ==
  /\ at[p] = "score"
  /\ LET loaded == {e \in found[p] : stored[e] # Absent}
         first == [e \in loaded |-> Scored(under[p], e, source[p], stored[e])]
     IN \E ai \in [{e \in loaded : first[e].status = "RequiresReview"} -> {"match", "no_match", "unavailable"}] :
          LET all == {IF e \in DOMAIN ai THEN Resolved(first[e], ai[e]) ELSE first[e] : e \in loaded}
          IN /\ scored' = [scored EXCEPT ![p] = all]
             /\ unsaved' = [unsaved EXCEPT ![p] = all]
  /\ at' = [at EXCEPT ![p] = "save"]
  /\ UNCHANGED <<storeVars, cacheVars, queue, policy, subject, source, under, found, clusters, reviewVars, faults>>

\* An entity has one task, and with it one request.  For the properties, a row has
\* the policy it was scored with and the decision that was last acknowledged on it.
Row(p, c) ==
  [source |-> subject[p], candidate |-> c.candidate, score |-> c.score, policy |-> under[p],
   status |-> c.status, ai |-> c.ai, review |-> c.review, recommended |-> c.recommended,
   decided |-> "none"]

\* The best first, each in its own transaction.
SaveCandidate(p, c) ==
  /\ at[p] = "save"
  /\ c \in unsaved[p] /\ \A d \in unsaved[p] : d.score <= c.score
  /\ unsaved' = [unsaved EXCEPT ![p] = @ \ {c}]
  /\ matches' = matches \cup {Row(p, c)}
  /\ UNCHANGED <<storeVars, cacheVars, queue, policy, at, subject, source, under, found, scored, clusters, notices, faults>>

\* A candidate that cannot be stored is logged.
SaveFails(p, c) ==
  /\ at[p] = "save"
  /\ c \in unsaved[p] /\ \A d \in unsaved[p] : d.score <= c.score
  /\ unsaved' = [unsaved EXCEPT ![p] = @ \ {c}]
  /\ Fault("persist")
  /\ UNCHANGED <<storeVars, cacheVars, queue, policy, at, subject, source, under, found, scored, clusters, reviewVars>>

\* The edges of the match graph all start at the source; the scores are those
\* before the AI was asked.
Edges(p) == {c \in scored[p] : c.score >= under[p].review}

MeanScore(edges) == Mean([c \in edges |-> c.score])
MeanConfidence(edges) == Mean([c \in edges |-> c.confidence])

\* DEFECT: the degree of a node does not count.
MasterScoreOfMean(edges, degree) ==
  500 * MeanScore(edges) + 300 * MeanConfidence(edges)

\* The mean score and confidence of a node's edges, and its degree.
MasterScore(edges, degree) ==
  500 * MeanScore(edges) + 300 * MeanConfidence(edges) + 200 * 1000 * degree

\* select_master takes the first of the best in the order of a HashSet.
Masters(e, edges) ==
  LET of(n) == IF n = e THEN MasterScore(edges, Cardinality(edges))
               ELSE MasterScore({c \in edges : c.candidate = n}, 1)
      members == {e} \cup {c.candidate : c \in edges}
  IN {n \in members : \A o \in members : of(o) <= of(n)}

\* ClusterBuilder: the one component of a star.
Clusters(e, edges) ==
  IF edges = {} THEN {{}}
  ELSE {{[entity_ids |-> {e} \cup {c.candidate : c \in edges}, source |-> e, suggested_master |-> n]} :
          n \in Masters(e, edges)}

ReviewCount(p) == Cardinality({c \in scored[p] : c.review})

BuildClusters(p) ==
  /\ at[p] = "save" /\ unsaved[p] = {}
  /\ at' = [at EXCEPT ![p] = "notify"]
  /\ \E answer \in Clusters(subject[p], Edges(p)) : clusters' = [clusters EXCEPT ![p] = answer]
  /\ UNCHANGED <<storeVars, cacheVars, queue, policy, subject, source, under, found, scored, unsaved, reviewVars, faults>>

\* The owner is notified of the candidates to review; nobody waits for the
\* notice to be stored, and there may be no owner.
NotifyOwner(p) ==
  /\ at[p] = "notify"
  /\ notices' \in IF ReviewCount(p) = 0 THEN {notices}
                  ELSE {notices \cup {[entity |-> subject[p], count |-> ReviewCount(p)]}}
                         \cup (IF "notify" \in Faults THEN {notices} ELSE {})
  /\ Ended(p)
  /\ UNCHANGED <<storeVars, cacheVars, queue, policy, matches, faults>>

Restarted(p) == policy' = [policy EXCEPT ![p] = DefaultPolicy]

\* A query of the execution fails, which is logged, or the replica stops: there
\* is no other attempt.
ExecutionFails(p) ==
  /\ at[p] # "idle"
  /\ Fault("task")
  /\ Ended(p)
  /\ UNCHANGED policy \/ Restarted(p)
  /\ UNCHANGED <<storeVars, cacheVars, queue, reviewVars>>

-----------------------------------------------------------------------------
(* The policy: PATCH /policy/weights changes that of the replica it        *)
(* reaches, until that replica stops.                                      *)

Clamp(x, low, high) == Least(Greatest(x, low), high)

\* Fields that are not given stay; the new weights are normalised.  The review
\* threshold is kept below the other one only when it is given itself.
UpdateWeights(p, u) ==
  LET old == policy[p]
      auto == IF u.auto = Absent THEN old.auto ELSE Clamp(u.auto, 500, 1000)
      review == IF u.review = Absent THEN old.review ELSE Clamp(u.review, 300, auto - 50)
  IN /\ policy' = [policy EXCEPT ![p] =
                     [weighting |-> IF u.weighting = Absent THEN old.weighting ELSE u.weighting,
                      auto |-> auto, review |-> review]]
     /\ UNCHANGED <<storeVars, cacheVars, queue, workerVars, reviewVars, faults>>

\* The replica of a worker without a task stops and starts again.
Restart(p) ==
  /\ at[p] = "idle" /\ policy[p] # DefaultPolicy
  /\ Restarted(p)
  /\ UNCHANGED <<storeVars, cacheVars, queue, workerVars, reviewVars, faults>>

-----------------------------------------------------------------------------
(* The review queue holds the rows that require review, for ever.          *)

\* DEFECT: the id is compared with the source of the row.
UpdatedBySource(m, id) == {n \in matches : n.source = m.candidate}

\* The rows that update_candidate_status finds: it compares the candidate_id it
\* is given with the entity, but the queue calls the id of the row so.
Updated(m, id) ==
  {n \in matches : id = "entity" /\ n.source = m.source /\ n.candidate = m.candidate}

\* approve and reject, whatever the status; the answer is OK.
Decide(m, status, id) ==
  /\ m \in matches /\ m.review /\ m.source \in Reviewed
  /\ LET others == matches \ {m}
         set(n) == IF n \in Updated(m, id) THEN [n EXCEPT !.status = status] ELSE n
     IN matches' = {set(n) : n \in others} \cup {[set(m) EXCEPT !.decided = status]}
  /\ UNCHANGED <<storeVars, cacheVars, queue, policy, workerVars, notices, faults>>

-----------------------------------------------------------------------------
Matcher(p) ==
  \/ \E e \in Entities : Dequeue(p, e)
  \/ ReadCached(p) \/ ReadStored(p) \/ FillSource(p) \/ SkipMissing(p) \/ GenerateCandidates(p) \/ ScoreCandidates(p)
  \/ \E c \in unsaved[p] : SaveCandidate(p, c) \/ SaveFails(p, c)
  \/ BuildClusters(p) \/ NotifyOwner(p)

Next ==
  \/ \E e \in Entities, attrs \in Contents :
       CreateEntity(e, attrs) \/ BulkInsert(e, attrs) \/ PatchEntity(e, attrs)
  \/ \E e \in Entities :
       BulkRolledBack(e) \/ EnqueueMatch(e) \/ EnqueueFails(e) \/ HardErase(e) \/ View(e) \/ CacheExpire(e)
  \/ \E e \in Entities, attrs \in Contents : FillCache(e, attrs) \/ FillFails(e, attrs)
  \/ \E p \in Workers :
       Matcher(p) \/ ExecutionFails(p) \/ Restart(p) \/ \E u \in Updates : UpdateWeights(p, u)
  \/ \E m \in matches, status \in {"Matched", "Rejected"}, id \in CandidateIds : Decide(m, status, id)

\* Handlers and workers go on, and entries expire.  Nobody has to send a request.
Fairness ==
  /\ \A e \in Bulk : WF_vars(EnqueueMatch(e))
  /\ \A e \in Entities : WF_vars(CacheExpire(e)) /\ WF_vars(\E attrs \in Contents : FillCache(e, attrs))
  /\ \A p \in Workers : WF_vars(Matcher(p))

Spec == Init /\ [][Next]_vars /\ Fairness

-----------------------------------------------------------------------------
Candidate == [candidate : Entities, score : 0..1000, confidence : 0..1000, review : BOOLEAN,
              status : {"Matched", "RequiresReview", "Rejected"}, recommended : BOOLEAN,
              ai : {"none", "match", "no_match"}]

Policy == [weighting : Weightings, auto : 500..1000, review : 300..950]

\* Rows name stored or once stored entities, never one as a candidate of itself,
\* and what an execution has still to store is in its response.
TypeOK ==
  /\ stored \in [Entities -> Contents \cup {Absent}]
  /\ cached \in [Entities -> Contents \cup {Absent}]
  /\ changed \subseteq Entities /\ loading \subseteq Bulk /\ queue \subseteq Bulk
  /\ fills \subseteq Entities \X Contents
  /\ policy \in [Workers -> Policy] /\ under \in [Workers -> Policy]
  /\ at \in [Workers -> {"idle", "read", "fill", "find", "score", "save", "notify"}]
  /\ \A p \in Workers :
       /\ found[p] \subseteq Entities \ {subject[p]} /\ Cardinality(found[p]) <= MaxCandidates
       /\ scored[p] \subseteq Candidate /\ unsaved[p] \subseteq scored[p]
  /\ \A m \in matches : m.candidate \in Entities \ {m.source} /\ (stored[m.candidate] # Absent \/ m.candidate \in changed)

\* Two bulk-loaded entities with the same exact key, as first stored.
Twins(a, b) ==
  /\ a # b /\ {a, b} \subseteq Bulk \ changed
  /\ stored[a] # Absent /\ stored[b] # Absent
  /\ a \in ExactMatches(stored[b]) /\ b \in ExactMatches(stored[a])

Linked(a, b) == \E m \in matches : {m.source, m.candidate} = {a, b}

\* More entities share the key, or may have before they changed, than max_candidates,
\* or than are looked at.
Crowded(a) ==
  \/ Cardinality(ExactMatches(stored[a]) \cup changed) > MaxCandidates
  \/ Cardinality(Entities) > MaxCandidates + 1

Busy == {subject[p] : p \in Workers} \ {Absent}

\* When all tasks are done, of two bulk-loaded entities with the same exact key
\* one is stored as a candidate of the other, in whatever order they were
\* committed, queued and matched, unless something failed or more entities share
\* the key of one of them than max_candidates (entities.rs:352, candidate_generation.rs:55).
DuplicatesFound ==
  \A a, b \in Bulk :
    loading \cup queue \cup Busy = {} /\ Twins(a, b) /\ faults = {} /\ ~Crowded(a) /\ ~Crowded(b) =>
      Linked(a, b)

\* Every task is done with in the end, found or not, failed or not (entity_match.rs:17).
TasksEnd == \A e \in Bulk : e \in loading \cup queue ~> e \notin loading \cup queue \cup Busy

\* The review queue holds exactly the pairs in the grey zone that the AI service
\* did not decide about, also when it was not available (matcher.rs:124-183).  The
\* grey zone is that of the policy when the execution began, also when the policy
\* is changed before the pairs are scored and stored.
QueueHoldsUnresolved ==
  \A m \in matches :
    m.review <=> m.score \in m.policy.review..(m.policy.auto - 1) /\ m.ai = "none"

\* Once an entity is no longer changed its cache entry is, in the end, absent or
\* what the database has, although nothing invalidates it (entity_service.rs:582).
CacheSettles == \A e \in Entities : <>[](cached[e] \in {Absent, stored[e]})

\* A row has the status of the last decision that was acknowledged on it, and a
\* row without one the status it was stored with (matching_repository.rs:581).
DecisionRecorded ==
  \A m \in matches :
    /\ m.decided # "none" => m.status = m.decided
    /\ m.decided = "none" /\ m.review => m.status = "RequiresReview"

\* In a cluster with at least three candidates the source is the suggested master,
\* whatever the policy is: the others' scores cannot outweigh its degree
\* (cluster_builder.rs:100).  With two candidates that takes a review threshold of
\* 0.55; below, a good candidate may outweigh a source with a second, poor one.
HubIsMaster ==
  \A p \in Workers : \A k \in clusters[p] :
    \/ Cardinality(k.entity_ids) > 3
    \/ Cardinality(k.entity_ids) = 3 /\ under[p].review >= 550
    => k.suggested_master = k.source
=============================================================================
