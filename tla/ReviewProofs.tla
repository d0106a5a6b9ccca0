---------------------------- MODULE ReviewProofs ----------------------------
(***************************************************************************)
(* Proofs about the two workflows of mdm-core in which a person decides on *)
(* a request: the approval of entities (EntityApproval) and the            *)
(* suggestions of the AI service (AiSuggestions).                          *)
(***************************************************************************)
EXTENDS EntityApproval, AiSuggestions, TLAPS

-----------------------------------------------------------------------------
(* The approval of entities, for any number of entities, requests,         *)
(* stewards and reviews.  PendingHasRequest and PublishedWasApproved are   *)
(* inductive together with TypeOK: a review closes a request and moves its *)
(* entity in one transaction, and every other step that breaks the link    *)
(* between the two marks the entity stray.                                 *)

\* The entity, request and submission fields are well typed, in every
\* reachable state (the columns' CHECK constraints are never met), whatever
\* the statuses entities are created with.
THEOREM TypeCorrect == Spec => []TypeOK
<1>1. Init => TypeOK
  <2> SUFFICES ASSUME Init PROVE TypeOK
    OBVIOUS
  <2>1. entity \in [Entities -> {"Draft", "PendingReview", "Active", "SoftDeleted", "gone"}]
    BY ApprovalAssumption DEF Init
  <2> QED
    BY <2>1 DEF Init, TypeOK, Verdicts
<1>2. TypeOK /\ [Next]_vars => TypeOK'
  <2> SUFFICES ASSUME TypeOK, [Next]_vars PROVE TypeOK'
    OBVIOUS
  <2> USE DEF TypeOK, Verdicts
  <2>1. ASSUME NEW s \in Stewards, NEW e \in Entities, StartSubmit(s, e) PROVE TypeOK'
    BY <2>1 DEF StartSubmit
  <2>2. ASSUME NEW s \in Stewards, SetPending(s) PROVE TypeOK'
    BY <2>2 DEF SetPending, SetStatus
  <2>3. ASSUME NEW s \in Stewards, NEW r \in Requests, InsertRequest(s, r) PROVE TypeOK'
    BY <2>3 DEF InsertRequest, Ends
  <2>4. ASSUME NEW s \in Stewards, InsertConflict(s) PROVE TypeOK'
    BY <2>4 DEF InsertConflict, Ends
  <2>5. ASSUME NEW s \in Stewards, Abandon(s) PROVE TypeOK'
    BY <2>5 DEF Abandon, Ends
  <2>6. ASSUME NEW w \in Reviewers, NEW E \in SUBSET Entities, NEW v \in Verdicts,
               Load(w, E, v)
        PROVE TypeOK'
    BY <2>6 DEF Load, Loaded
  <2>7. ASSUME NEW w \in Reviewers, NEW r \in Requests, Decide(w, r) PROVE TypeOK'
    BY <2>7 DEF Decide, Drop, StatusAfter, SetStatus
  <2>8. ASSUME NEW w \in Reviewers, NEW r \in Requests, DecideFails(w, r) PROVE TypeOK'
    BY <2>8 DEF DecideFails, Drop
  <2>9. ASSUME NEW w \in Reviewers, HangUp(w) PROVE TypeOK'
    BY <2>9 DEF HangUp, Drop
  <2>10. ASSUME NEW e \in Entities, NEW p \in Patches, Patch(e, p) PROVE TypeOK'
    BY <2>10, ApprovalAssumption DEF Patch, SetStatus
  <2>11. ASSUME NEW e \in Entities, Erase(e) \/ HardErase(e) PROVE TypeOK'
    BY <2>11 DEF Erase, HardErase, SetStatus
  <2>12. CASE UNCHANGED vars
    BY <2>12 DEF vars
  <2>13. QED
    BY <2>1, <2>2, <2>3, <2>4, <2>5, <2>6, <2>7, <2>8, <2>9, <2>10, <2>11, <2>12
    DEF Next, Submit, Review
<1>3. QED
  BY <1>1, <1>2, PTL DEF Spec

\* Submissions that race each other, stale reviews and erasures never leave an
\* entity that a submission has put in review without a request that can be
\* decided.
THEOREM PendingHasRequestCorrect == Spec => []PendingHasRequest
<1>1. Init => PendingHasRequest
  BY DEF Init, PendingHasRequest
<1>2. TypeOK /\ TypeOK' /\ PendingHasRequest /\ [Next]_vars => PendingHasRequest'
  <2> SUFFICES ASSUME TypeOK, TypeOK', PendingHasRequest, [Next]_vars,
                      NEW f \in Entities, entity'[f] = "PendingReview", f \notin stray'
               PROVE  Requested(f)'
    BY DEF PendingHasRequest
  <2> USE DEF TypeOK, Requested, HasPending
  <2>1. ASSUME NEW s \in Stewards, NEW e \in Entities, StartSubmit(s, e)
        PROVE  Requested(f)'
    BY <2>1 DEF StartSubmit, PendingHasRequest
  <2>2. ASSUME NEW s \in Stewards, SetPending(s) PROVE Requested(f)'
    <3>1. CASE f = target[s]
      BY <2>2, <3>1 DEF SetPending
    <3>2. CASE f # target[s]
      BY <2>2, <3>2 DEF SetPending, SetStatus, PendingHasRequest
    <3>3. QED
      BY <3>1, <3>2
  <2>3. ASSUME NEW s \in Stewards, NEW r \in Requests, InsertRequest(s, r)
        PROVE  Requested(f)'
    <3>1. CASE f = target[s]
      BY <2>3, <3>1 DEF InsertRequest
    <3>2. CASE f # target[s]
      BY <2>3, <3>2 DEF InsertRequest, Ends, PendingHasRequest
    <3>3. QED
      BY <3>1, <3>2
  <2>4. ASSUME NEW s \in Stewards, InsertConflict(s) PROVE Requested(f)'
    <3>1. CASE f = target[s]
      BY <2>4, <3>1 DEF InsertConflict
    <3>2. CASE f # target[s]
      BY <2>4, <3>2 DEF InsertConflict, Ends, PendingHasRequest
    <3>3. QED
      BY <3>1, <3>2
  <2>5. ASSUME NEW s \in Stewards, Abandon(s) PROVE Requested(f)'
    <3>1. Requested(f)
      BY <2>5 DEF Abandon, PendingHasRequest
    <3>2. ~(step[s] = "insert" /\ target[s] = f)
      BY <2>5 DEF Abandon
    <3>3. QED
      BY <2>5, <3>1, <3>2 DEF Abandon, Ends
  <2>6. ASSUME NEW w \in Reviewers, NEW E \in SUBSET Entities, NEW v \in Verdicts,
               Load(w, E, v)
        PROVE  Requested(f)'
    BY <2>6 DEF Load, PendingHasRequest
  <2>7. ASSUME NEW w \in Reviewers, NEW r \in Requests, Decide(w, r)
        PROVE  Requested(f)'
    <3>1. f # about[r]
      BY <2>7 DEF Decide, StatusAfter, SetStatus
    <3>2. Requested(f)
      BY <2>7, <3>1 DEF Decide, SetStatus, PendingHasRequest
    <3>3. QED
      BY <2>7, <3>1, <3>2 DEF Decide
  <2>8. ASSUME NEW w \in Reviewers, NEW r \in Requests, DecideFails(w, r)
        PROVE  Requested(f)'
    BY <2>8 DEF DecideFails, PendingHasRequest
  <2>9. ASSUME NEW w \in Reviewers, HangUp(w) PROVE Requested(f)'
    BY <2>9 DEF HangUp, PendingHasRequest
  <2>10. ASSUME NEW e \in Entities, NEW p \in Patches, Patch(e, p) PROVE Requested(f)'
    BY <2>10 DEF Patch, SetStatus, PendingHasRequest
  <2>11. ASSUME NEW e \in Entities, Erase(e) \/ HardErase(e) PROVE Requested(f)'
    BY <2>11 DEF Erase, HardErase, SetStatus, PendingHasRequest
  <2>12. CASE UNCHANGED vars
    BY <2>12 DEF vars, PendingHasRequest
  <2>13. QED
    BY <2>1, <2>2, <2>3, <2>4, <2>5, <2>6, <2>7, <2>8, <2>9, <2>10, <2>11, <2>12
    DEF Next, Submit, Review
<1>3. QED
  BY <1>1, <1>2, TypeCorrect, PTL DEF Spec

\* Whatever status an entity was created with and whatever reviews race, once the
\* workflow has changed its status it is published only with a request whose
\* standing verdict is an approval.
THEOREM PublishedWasApprovedCorrect == Spec => []PublishedWasApproved
<1>1. Init => PublishedWasApproved
  BY DEF Init, PublishedWasApproved
<1>2. TypeOK /\ PublishedWasApproved /\ [Next]_vars => PublishedWasApproved'
  <2> SUFFICES ASSUME TypeOK, PublishedWasApproved, [Next]_vars,
                      NEW f \in Entities, entity'[f] = "Active", f \notin stray'
               PROVE  \E q \in Requests : request'[q] = "approved" /\ about'[q] = f
    BY DEF PublishedWasApproved
  <2> DEFINE Approved == \E q \in Requests : request'[q] = "approved" /\ about'[q] = f
  <2> USE DEF TypeOK
  <2>1. ASSUME NEW s \in Stewards, Submit(s) PROVE Approved
    <3>1. entity[f] = "Active" /\ f \notin stray
      BY <2>1 DEF Submit, StartSubmit, SetPending, SetStatus, InsertRequest, InsertConflict, Abandon
    <3>2. PICK q \in Requests : request[q] = "approved" /\ about[q] = f
      BY <3>1 DEF PublishedWasApproved
    <3>3. request'[q] = request[q] /\ about'[q] = about[q]
      BY <2>1, <3>2 DEF Submit, StartSubmit, SetPending, InsertRequest, InsertConflict, Abandon
    <3>4. QED
      BY <3>2, <3>3
  <2>2. ASSUME NEW w \in Reviewers, NEW r \in Requests, Decide(w, r) PROVE Approved
    <3>1. CASE about[r] = f
      BY <2>2, <3>1 DEF Decide, StatusAfter, SetStatus
    <3>2. CASE about[r] # f
      BY <2>2, <3>2 DEF Decide, SetStatus, PublishedWasApproved
    <3>3. QED
      BY <3>1, <3>2
  <2>3. CASE UNCHANGED <<entity, request, about, stray>>
    BY <2>3 DEF PublishedWasApproved
  <2>4. ASSUME NEW e \in Entities, Erase(e) \/ HardErase(e) \/ \E p \in Patches : Patch(e, p)
        PROVE  Approved
    BY <2>4 DEF Erase, HardErase, SetStatus, Patch, PublishedWasApproved
  <2>5. QED
    BY <2>1, <2>2, <2>3, <2>4 DEF Next, Review, Load, DecideFails, HangUp, vars
<1>3. QED
  BY <1>1, <1>2, TypeCorrect, PTL DEF Spec

\* A decided request that no open review holds is decided for good.
THEOREM ClosedForGoodCorrect == Spec => ClosedForGood
<1>1. TypeOK /\ [Next]_vars =>
        [\A r \in Requests :
           Closed(r) => request'[r] = request[r] /\ about'[r] = about[r]
                        /\ \A w \in Reviewers : r \notin held'[w]]_vars
  <2> SUFFICES ASSUME TypeOK, Next, NEW q \in Requests, Closed(q)
               PROVE  /\ request'[q] = request[q]
                      /\ about'[q] = about[q]
                      /\ \A w \in Reviewers : q \notin held'[w]
    OBVIOUS
  <2> DEFINE Same == /\ request'[q] = request[q]
                     /\ about'[q] = about[q]
                     /\ \A w \in Reviewers : q \notin held'[w]
  <2> USE DEF TypeOK, Closed, Verdicts
  <2>1. ASSUME NEW s \in Stewards, Submit(s) PROVE Same
    BY <2>1 DEF Submit, StartSubmit, SetPending, InsertRequest, InsertConflict, Abandon
  <2>2. ASSUME NEW w \in Reviewers, NEW E \in SUBSET Entities, NEW v \in Verdicts,
               Load(w, E, v)
        PROVE  Same
    BY <2>2 DEF Load, Loaded
  <2>3. ASSUME NEW w \in Reviewers, NEW r \in Requests, Decide(w, r) \/ DecideFails(w, r)
        PROVE  Same
    BY <2>3 DEF Decide, DecideFails, Drop
  <2>4. ASSUME NEW w \in Reviewers, HangUp(w) PROVE Same
    BY <2>4 DEF HangUp, Drop
  <2>5. ASSUME NEW e \in Entities, Erase(e) \/ HardErase(e) \/ \E p \in Patches : Patch(e, p)
        PROVE  Same
    BY <2>5 DEF Erase, HardErase, Patch
  <2>6. QED
    BY <2>1, <2>2, <2>3, <2>4, <2>5 DEF Next, Review
<1>2. QED
  BY <1>1, TypeCorrect, PTL DEF Spec, ClosedForGood

-----------------------------------------------------------------------------
(* AI suggestions, for any number of suggestions, requests and approvals:  *)
(* the status of a suggestion tells what became of it.                     *)

LEMMA NewAttrsTyped ==
  ASSUME AITypeOK, NEW s \in Suggestions, status[s] # "none"
  PROVE  NewAttrs(s) \in Contents
<1>1. answer[s] \in Answers
  BY DEF AITypeOK
<1>2. PICK F \in SUBSET Fields : answer[s] \in [F -> Values \cup {Blank}]
  BY <1>1 DEF Answers
<1> DEFINE G == {g \in DOMAIN answer[s] : answer[s][g] # Blank}
<1>3. G \in SUBSET Fields
  BY <1>2
<1>4. NewAttrs(s) \in [G -> Values]
  BY <1>2 DEF NewAttrs
<1> QED
  BY <1>3, <1>4 DEF Contents

\* A suggestion that an approval holds was stored for an entity.
LEMMA Held ==
  ASSUME AITypeOK, NEW v \in Approvals, at[v] # "idle"
  PROVE  on[v] \in Suggestions /\ status[on[v]] # "none" /\ subject[on[v]] \in Subjects
BY AiSuggestionsAssumption DEF AITypeOK

LEMMA TypeNext == AITypeOK /\ [AINext]_aiVars => AITypeOK'
<1> SUFFICES ASSUME AITypeOK, [AINext]_aiVars PROVE AITypeOK'
  OBVIOUS
<1> USE AiSuggestionsAssumption DEF AITypeOK, suggestionVars, reviewVars
<1>1. ASSUME NEW a \in Askers, NEW e \in Subjects, Ask(a, e) PROVE AITypeOK'
  BY <1>1 DEF Ask
<1>2. ASSUME NEW a \in Askers, NEW s \in Suggestions, NEW proposed \in Answers, Store(a, s, proposed) PROVE AITypeOK'
  BY <1>2 DEF Store
<1>3. ASSUME NEW a \in Askers, StoreFails(a) PROVE AITypeOK'
  BY <1>3 DEF StoreFails
<1>4. ASSUME NEW s \in Suggestions, ApproveFails(s) PROVE AITypeOK'
  BY <1>4 DEF ApproveFails, Fault
<1>5. ASSUME NEW s \in Suggestions, Reject(s) PROVE AITypeOK'
  BY <1>5 DEF Reject
<1>6. ASSUME NEW v \in Approvals, NEW s \in Suggestions, Approve(v, s) PROVE AITypeOK'
  BY <1>6 DEF Approve
<1>7. ASSUME NEW v \in Approvals, at[v] = "write", Replace(on[v])
      PROVE  attrs' \in [Subjects -> Contents \cup {Absent}] /\ writes' \in [Suggestions -> Nat]
  BY <1>7, NewAttrsTyped, Held DEF Replace
<1>8. ASSUME NEW v \in Approvals, Write(v) PROVE AITypeOK'
  BY <1>7, <1>8 DEF Write
<1>9. ASSUME NEW v \in Approvals, WriteFails(v) PROVE AITypeOK'
  BY <1>7, <1>9 DEF WriteFails, Fault, Done
<1>10. ASSUME NEW v \in Approvals, Mark(v) PROVE AITypeOK'
  BY <1>10, Held DEF Mark, Done
<1>11. ASSUME NEW v \in Approvals, MarkFails(v) PROVE AITypeOK'
  BY <1>11 DEF MarkFails, Done, Fault
<1>12. ASSUME NEW e \in Subjects, HardEraseSubject(e) PROVE AITypeOK'
  BY <1>12 DEF HardEraseSubject
<1>13. ASSUME NEW e \in Subjects, NEW new \in Contents, PatchEntity(e, new) PROVE AITypeOK'
  BY <1>13 DEF PatchEntity
<1>14. CASE UNCHANGED aiVars
  BY <1>14 DEF aiVars
<1> QED
  BY <1>1, <1>2, <1>3, <1>4, <1>5, <1>6, <1>8, <1>9, <1>10, <1>11, <1>12, <1>13, <1>14 DEF AINext

LEMMA TypeInit == AIInit => AITypeOK
BY AiSuggestionsAssumption DEF AIInit, AITypeOK

\* The types are as they should be, whatever is asked, reviewed, edited and erased.
THEOREM SuggestionsTypeCorrect == AISpec => []AITypeOK
<1> QED
  BY TypeInit, TypeNext, PTL DEF AISpec

-----------------------------------------------------------------------------
(* The status.                                                             *)

\* One approval at a time holds a suggestion, and knows how far it is: before the
\* write it is approved and not written, after it approved and written, or gone
\* with its entity.
Exclusive ==
  \A v, w \in Approvals : at[v] # "idle" /\ at[w] # "idle" /\ on[v] = on[w] => v = w

Known(v) ==
  /\ at[v] # "idle" => status[on[v]] \in {"approved", "gone"}
  /\ at[v] = "write" => writes[on[v]] = 0
  /\ at[v] = "mark" => status[on[v]] = "gone" \/ writes[on[v]] = 1

\* An entity that a suggestion still refers to exists.
Kept == \A s \in Suggestions : status[s] \notin {"none", "gone"} => attrs[subject[s]] # Absent

\* Nothing has been written of a suggestion that nobody has approved.
Untouched == \A s \in Suggestions : status[s] \in {"none", "pending", "rejected"} => writes[s] = 0

IInv ==
  /\ AITypeOK /\ Exclusive /\ Kept /\ Untouched /\ StatusTellsOutcome
  /\ \A v \in Approvals : Known(v)

LEMMA InitIInv == AIInit => IInv
BY TypeInit DEF AIInit, IInv, Exclusive, Known, Kept, Untouched, StatusTellsOutcome,
   WrittenIfApproved, AppliedIsWritten, ApprovedIsCarried

\* A step that touches no suggestion, no approval and no erasure.
LEMMA Others ==
  ASSUME IInv, UNCHANGED <<answer, status, at, on, writes>>, faults' \in {faults, faults + 1},
         \A s \in Suggestions : status[s] \notin {"none", "gone"} => attrs'[subject'[s]] # Absent
  PROVE  /\ Exclusive' /\ Kept' /\ Untouched' /\ StatusTellsOutcome'
         /\ \A v \in Approvals : Known(v)'
<1>1. Exclusive' /\ Untouched' /\ \A v \in Approvals : Known(v)'
  BY DEF IInv, Exclusive, Untouched, Known
<1>2. Kept'
  BY DEF Kept
<1>3. faults' = 0 => faults = 0
  BY DEF IInv, AITypeOK
<1>4. StatusTellsOutcome'
  BY <1>3 DEF IInv, StatusTellsOutcome, WrittenIfApproved, AppliedIsWritten, ApprovedIsCarried, Proposes
<1> QED
  BY <1>1, <1>2, <1>4

LEMMA StoreKeeps ==
  ASSUME IInv, NEW a \in Askers, NEW s \in Suggestions, NEW proposed \in Answers, Store(a, s, proposed)
  PROVE  /\ Exclusive' /\ Kept' /\ Untouched' /\ StatusTellsOutcome'
         /\ \A v \in Approvals : Known(v)'
<1> USE DEF IInv, AITypeOK, Store, reviewVars
<1>1. Exclusive' /\ Untouched'
  BY DEF Exclusive, Untouched
<1>2. Kept'
  BY AiSuggestionsAssumption DEF Kept
<1>3. \A v \in Approvals : Known(v)'
  BY DEF Known
<1>4. ASSUME NEW t \in Suggestions PROVE (WrittenIfApproved(t) /\ AppliedIsWritten(t) /\ ApprovedIsCarried(t))'
  <2>1. CASE t = s
    BY <2>1 DEF Untouched, WrittenIfApproved, AppliedIsWritten, ApprovedIsCarried
  <2>2. CASE t # s
    <3>1. status'[t] = status[t] /\ answer'[t] = answer[t]
      BY <2>2
    <3> QED
      BY <3>1 DEF StatusTellsOutcome, WrittenIfApproved, AppliedIsWritten, ApprovedIsCarried, Proposes
  <2> QED
    BY <2>1, <2>2
<1> QED
  BY <1>1, <1>2, <1>3, <1>4 DEF StatusTellsOutcome

\* No approval holds a suggestion that is pending.
LEMMA PendingIsFree ==
  ASSUME IInv, NEW s \in Suggestions, status[s] = "pending", NEW v \in Approvals, at[v] # "idle"
  PROVE  on[v] # s
  BY DEF IInv, Known

LEMMA ApproveKeeps ==
  ASSUME IInv, NEW v \in Approvals, NEW s \in Suggestions, Approve(v, s)
  PROVE  /\ Exclusive' /\ Kept' /\ Untouched' /\ StatusTellsOutcome'
         /\ \A w \in Approvals : Known(w)'
<1> USE DEF IInv, AITypeOK, Approve, suggestionVars, reviewVars
<1>1. Exclusive'
  BY PendingIsFree DEF Exclusive
<1>2. Kept' /\ Untouched'
  BY DEF Kept, Untouched
<1>3. \A w \in Approvals : Known(w)'
  BY PendingIsFree DEF Known, Untouched
<1>4. ASSUME NEW t \in Suggestions PROVE (WrittenIfApproved(t) /\ AppliedIsWritten(t) /\ ApprovedIsCarried(t))'
  <2>1. CASE t = s
    <3>1. writes'[s] = 0 /\ status'[s] = "approved" /\ answer'[s] = answer[s]
      BY DEF Untouched
    <3>2. Proposes(s) => at'[v] = "write" /\ on'[v] = s
      OBVIOUS
    <3> QED
      BY <2>1, <3>1, <3>2 DEF WrittenIfApproved, AppliedIsWritten, ApprovedIsCarried, Proposes
  <2>2. CASE t # s
    <3>1. status'[t] = status[t] /\ answer'[t] = answer[t] /\ writes'[t] = writes[t]
      BY <2>2
    <3>2. ASSUME NEW w \in Approvals, on[w] = t, at[w] \in {"write", "mark"} PROVE on'[w] = t /\ at'[w] = at[w]
      BY <3>2
    <3>3. ApprovedIsCarried(t)'
      <4> SUFFICES ASSUME faults' = 0, status'[t] = "approved", Proposes(t)'
                   PROVE  \E w \in Approvals : on'[w] = t /\ at'[w] = IF writes'[t] = 0 THEN "write" ELSE "mark"
        BY DEF ApprovedIsCarried
      <4>1. faults = 0 /\ Proposes(t)
        BY <3>1 DEF Proposes
      <4> QED
        BY <3>1, <3>2, <4>1 DEF StatusTellsOutcome, ApprovedIsCarried
    <3> QED
      BY <3>1, <3>3 DEF StatusTellsOutcome, WrittenIfApproved, AppliedIsWritten
  <2> QED
    BY <2>1, <2>2
<1> QED
  BY <1>1, <1>2, <1>3, <1>4 DEF StatusTellsOutcome

\* ApproveFails and Reject: the status of a pending suggestion changes, and nothing else.
LEMMA DecidedKeeps ==
  ASSUME IInv, NEW s \in Suggestions, ApproveFails(s) \/ Reject(s)
  PROVE  /\ Exclusive' /\ Kept' /\ Untouched' /\ StatusTellsOutcome'
         /\ \A v \in Approvals : Known(v)'
<1> USE DEF IInv, AITypeOK, ApproveFails, Reject, Fault, suggestionVars, reviewVars
<1>1. Exclusive' /\ Kept' /\ Untouched'
  BY DEF Exclusive, Kept, Untouched
<1>2. \A v \in Approvals : Known(v)'
  BY PendingIsFree DEF Known
<1>3. status'[s] = "approved" => faults' # 0
  OBVIOUS
<1>4. faults' = 0 => faults = 0
  OBVIOUS
<1>5. ASSUME NEW t \in Suggestions PROVE (WrittenIfApproved(t) /\ AppliedIsWritten(t) /\ ApprovedIsCarried(t))'
  BY <1>3, <1>4 DEF Untouched, StatusTellsOutcome, WrittenIfApproved, AppliedIsWritten, ApprovedIsCarried, Proposes
<1> QED
  BY <1>1, <1>2, <1>5 DEF StatusTellsOutcome

\* What the steps of an approval that holds suggestion s leave of the others.
LEMMA OthersCarried ==
  ASSUME IInv, NEW v \in Approvals, at[v] # "idle",
         at' \in [Approvals -> {"idle", "write", "mark"}],
         \A w \in Approvals \ {v} : at'[w] = at[w] /\ on'[w] = on[w],
         faults' \in {faults, faults + 1}, answer' = answer,
         NEW t \in Suggestions, t # on[v], status'[t] = status[t], writes'[t] = writes[t]
  PROVE  (WrittenIfApproved(t) /\ AppliedIsWritten(t) /\ ApprovedIsCarried(t))'
<1>1. faults' = 0 => faults = 0
  BY DEF IInv, AITypeOK
<1>2. ASSUME NEW w \in Approvals, on[w] = t PROVE on'[w] = t /\ at'[w] = at[w]
  BY <1>2
<1>3. ApprovedIsCarried(t)'
  <2> SUFFICES ASSUME faults' = 0, status'[t] = "approved", Proposes(t)'
               PROVE  \E w \in Approvals : on'[w] = t /\ at'[w] = IF writes'[t] = 0 THEN "write" ELSE "mark"
    BY DEF ApprovedIsCarried
  <2>1. Proposes(t)
    BY DEF Proposes
  <2>2. PICK w \in Approvals : on[w] = t /\ at[w] = IF writes[t] = 0 THEN "write" ELSE "mark"
    BY <1>1, <2>1 DEF IInv, StatusTellsOutcome, ApprovedIsCarried
  <2> QED
    BY <1>2, <2>2
<1> QED
  BY <1>3 DEF IInv, StatusTellsOutcome, WrittenIfApproved, AppliedIsWritten

LEMMA WriteKeeps ==
  ASSUME IInv, NEW v \in Approvals, Write(v)
  PROVE  /\ Exclusive' /\ Kept' /\ Untouched' /\ StatusTellsOutcome'
         /\ \A w \in Approvals : Known(w)'
<1> USE DEF IInv, Write, Replace, suggestionVars
<1>0. PICK s \in Suggestions :
      /\ s = on[v] /\ subject[s] \in Subjects /\ at[v] = "write"
      /\ writes[s] = 0 /\ status[s] \in {"approved", "gone"}
  BY Held DEF Known
<1>1. writes'[s] = 1 \/ (status[s] = "gone" /\ writes'[s] = 0)
  <2>1. CASE Replace(s)
    BY <1>0, <2>1 DEF AITypeOK
  <2>2. CASE attrs[subject[s]] = Absent /\ UNCHANGED writes
    BY <1>0, <2>2 DEF Kept
  <2> QED
    BY <1>0, <2>1, <2>2
<1>2. \A t \in Suggestions \ {s} : writes'[t] = writes[t]
  BY <1>0 DEF AITypeOK
<1>3. Exclusive'
  BY DEF Exclusive, AITypeOK
<1>4. Kept'
  BY <1>0, AiSuggestionsAssumption, NewAttrsTyped DEF Kept, AITypeOK
<1>5. Untouched'
  BY <1>0, <1>2 DEF Untouched
<1>6. \A w \in Approvals : Known(w)'
  BY <1>0, <1>1, <1>2 DEF Known, Exclusive, AITypeOK
<1>7. (WrittenIfApproved(s) /\ AppliedIsWritten(s) /\ ApprovedIsCarried(s))'
  BY <1>0, <1>1 DEF WrittenIfApproved, AppliedIsWritten, ApprovedIsCarried, AITypeOK
<1>8. ASSUME NEW t \in Suggestions, t # s PROVE (WrittenIfApproved(t) /\ AppliedIsWritten(t) /\ ApprovedIsCarried(t))'
  BY <1>0, <1>2, <1>8, OthersCarried DEF AITypeOK
<1> QED
  BY <1>3, <1>4, <1>5, <1>6, <1>7, <1>8 DEF StatusTellsOutcome

LEMMA WriteFailsKeeps ==
  ASSUME IInv, NEW v \in Approvals, WriteFails(v)
  PROVE  /\ Exclusive' /\ Kept' /\ Untouched' /\ StatusTellsOutcome'
         /\ \A w \in Approvals : Known(w)'
<1> USE DEF IInv, WriteFails, Replace, Done, Fault, suggestionVars
<1>0. PICK s \in Suggestions :
      /\ s = on[v] /\ subject[s] \in Subjects /\ at[v] = "write"
      /\ writes[s] = 0 /\ status[s] \in {"approved", "gone"}
  BY Held DEF Known
<1>1. writes'[s] \in {0, 1}
  BY <1>0 DEF AITypeOK
<1>2. \A t \in Suggestions \ {s} : writes'[t] = writes[t]
  BY <1>0 DEF AITypeOK
<1>3. Exclusive'
  BY DEF Exclusive, AITypeOK
<1>4. Kept'
  BY <1>0, AiSuggestionsAssumption, NewAttrsTyped DEF Kept, AITypeOK
<1>5. Untouched'
  BY <1>0, <1>2 DEF Untouched
<1>6. \A w \in Approvals : Known(w)'
  BY <1>0, <1>2 DEF Known, Exclusive, AITypeOK
<1>7. (WrittenIfApproved(s) /\ AppliedIsWritten(s) /\ ApprovedIsCarried(s))'
  BY <1>0, <1>1 DEF WrittenIfApproved, AppliedIsWritten, ApprovedIsCarried, AITypeOK
<1>8. ASSUME NEW t \in Suggestions, t # s PROVE (WrittenIfApproved(t) /\ AppliedIsWritten(t) /\ ApprovedIsCarried(t))'
  BY <1>0, <1>2, <1>8, OthersCarried DEF AITypeOK
<1> QED
  BY <1>3, <1>4, <1>5, <1>6, <1>7, <1>8 DEF StatusTellsOutcome

LEMMA MarkKeeps ==
  ASSUME IInv, NEW v \in Approvals, Mark(v) \/ MarkFails(v)
  PROVE  /\ Exclusive' /\ Kept' /\ Untouched' /\ StatusTellsOutcome'
         /\ \A w \in Approvals : Known(w)'
<1> USE DEF IInv, Mark, MarkFails, Done, Fault, suggestionVars
<1>0. PICK s \in Suggestions :
      /\ s = on[v] /\ at[v] = "mark"
      /\ status[s] = "gone" \/ (status[s] = "approved" /\ writes[s] = 1)
  BY Held DEF Known
<1>1. /\ status[s] = "gone" => status'[s] = "gone"
      /\ status[s] = "approved" => status'[s] = "applied" \/ (status'[s] = "approved" /\ faults' # 0)
      /\ writes' = writes /\ attrs' = attrs
  BY <1>0 DEF AITypeOK
<1>2. \A t \in Suggestions \ {s} : status'[t] = status[t]
  BY <1>0 DEF AITypeOK
<1>3. Exclusive'
  BY DEF Exclusive, AITypeOK
<1>4. Kept' /\ Untouched'
  BY <1>0, <1>1, <1>2 DEF Kept, Untouched, AITypeOK
<1>5. \A w \in Approvals \ {v} : at[w] # "idle" => on[w] # s
  BY <1>0 DEF Exclusive
<1>6. \A w \in Approvals : Known(w)'
  BY <1>0, <1>1, <1>2, <1>5 DEF Known, AITypeOK
<1>7. (WrittenIfApproved(s) /\ AppliedIsWritten(s) /\ ApprovedIsCarried(s))'
  BY <1>0, <1>1 DEF StatusTellsOutcome, WrittenIfApproved, AppliedIsWritten, ApprovedIsCarried
<1>8. ASSUME NEW t \in Suggestions, t # s PROVE (WrittenIfApproved(t) /\ AppliedIsWritten(t) /\ ApprovedIsCarried(t))'
  BY <1>0, <1>1, <1>2, <1>8, OthersCarried DEF AITypeOK
<1> QED
  BY <1>3, <1>4, <1>6, <1>7, <1>8 DEF StatusTellsOutcome

LEMMA HardEraseKeeps ==
  ASSUME IInv, NEW e \in Subjects, HardEraseSubject(e)
  PROVE  /\ Exclusive' /\ Kept' /\ Untouched' /\ StatusTellsOutcome'
         /\ \A v \in Approvals : Known(v)'
<1> USE DEF IInv, AITypeOK, HardEraseSubject, suggestionVars, reviewVars
<1>1. \A s \in Suggestions : status'[s] = "gone" \/ (status'[s] = status[s] /\ subject[s] # e)
  OBVIOUS
<1>2. Exclusive' /\ Kept' /\ Untouched'
  BY <1>1 DEF Exclusive, Kept, Untouched
<1>3. \A v \in Approvals : Known(v)'
  BY <1>1 DEF Known
<1>4. StatusTellsOutcome'
  BY <1>1 DEF StatusTellsOutcome, WrittenIfApproved, AppliedIsWritten, ApprovedIsCarried, Proposes
<1> QED
  BY <1>2, <1>3, <1>4

LEMMA IInvNext == IInv /\ [AINext]_aiVars => IInv'
<1> SUFFICES ASSUME IInv, [AINext]_aiVars PROVE IInv'
  OBVIOUS
<1>0. AITypeOK'
  BY TypeNext DEF IInv
<1>1. ASSUME NEW a \in Askers, NEW e \in Subjects, Ask(a, e) PROVE IInv'
  BY <1>0, <1>1, Others DEF Ask, suggestionVars, reviewVars, IInv, Kept
<1>2. ASSUME NEW a \in Askers, NEW s \in Suggestions, NEW proposed \in Answers, Store(a, s, proposed) PROVE IInv'
  BY <1>0, <1>2, StoreKeeps DEF IInv
<1>3. ASSUME NEW s \in Suggestions, ApproveFails(s) \/ Reject(s) PROVE IInv'
  BY <1>0, <1>3, DecidedKeeps DEF IInv
<1>4. ASSUME NEW v \in Approvals, NEW s \in Suggestions, Approve(v, s) PROVE IInv'
  BY <1>0, <1>4, ApproveKeeps DEF IInv
<1>5. ASSUME NEW v \in Approvals, Write(v) PROVE IInv'
  BY <1>0, <1>5, WriteKeeps DEF IInv
<1>6. ASSUME NEW v \in Approvals, WriteFails(v) PROVE IInv'
  BY <1>0, <1>6, WriteFailsKeeps DEF IInv
<1>7. ASSUME NEW v \in Approvals, Mark(v) \/ MarkFails(v) PROVE IInv'
  BY <1>0, <1>7, MarkKeeps DEF IInv
<1>8. ASSUME NEW e \in Subjects, HardEraseSubject(e) PROVE IInv'
  BY <1>0, <1>8, HardEraseKeeps DEF IInv
<1>9. ASSUME NEW e \in Subjects, NEW new \in Contents, PatchEntity(e, new) PROVE IInv'
  <2>1. \A s \in Suggestions : status[s] \notin {"none", "gone"} => attrs'[subject'[s]] # Absent
    BY <1>9, AiSuggestionsAssumption DEF PatchEntity, suggestionVars, IInv, AITypeOK, Kept
  <2> QED
    BY <1>0, <1>9, <2>1, Others DEF PatchEntity, suggestionVars, reviewVars, IInv
<1>10. CASE UNCHANGED aiVars
  BY <1>0, <1>10, Others DEF aiVars, suggestionVars, reviewVars, IInv, Kept
<1>11. ASSUME NEW a \in Askers, StoreFails(a) PROVE IInv'
  BY <1>0, <1>11, Others DEF StoreFails, suggestionVars, reviewVars, IInv, Kept
<1> QED
  BY <1>1, <1>2, <1>3, <1>4, <1>5, <1>6, <1>7, <1>8, <1>9, <1>10, <1>11 DEF AINext

\* Whatever the number of approvals, rejections and erasures at the same time, a
\* suggestion is written once at most, only if it was approved, and its status tells.
THEOREM StatusTellsOutcomeHolds == AISpec => []StatusTellsOutcome
<1>1. IInv => StatusTellsOutcome
  BY DEF IInv
<1> QED
  BY <1>1, InitIInv, IInvNext, PTL DEF AISpec
=============================================================================
