--------------------------- MODULE EntityApproval ---------------------------
(***************************************************************************)
(* The steward-to-owner approval workflow of mdm-core, with the other      *)
(* writers of an entity's status: its creation, PATCH /entities/:id, the   *)
(* erasure of policy-service, and the hard delete of mdm-core.             *)
(*                                                                         *)
(* A submission is three statements outside any transaction: it reads the  *)
(* status, sets PendingReview, inserts the approval request.  A review     *)
(* loads the pending requests of one entity (approve, reject) or of many   *)
(* (bulk-approve, bulk-reject), then decides each in a transaction of its  *)
(* own that names the request and does not look at its status again.       *)
(* Handlers run concurrently, statements may fail, and a handler whose     *)
(* client hangs up is dropped where it waits.                              *)
(***************************************************************************)
EXTENDS Integers

CONSTANTS
  Entities,   \* core_mdm.entities of a tenant
  Requests,   \* rows core_mdm.entity_approval_requests may get
  Stewards,   \* callers of submit-for-review
  Admins,     \* stewards whose role can_admin
  Reviewers,  \* calls of the review endpoints that are open at one time
  Created,    \* statuses an entity may be created with
  Patches,    \* statuses a PATCH may ask for
  None        \* no entity, no verdict

\* "Draft" stands for every status the workflow does not look at.
ASSUME ApprovalAssumption ==
  /\ Admins \subseteq Stewards
  /\ Created \subseteq {"Draft", "PendingReview", "Active"}
  /\ Patches \subseteq {"Draft", "PendingReview", "Active"}
  /\ None \notin Entities

VARIABLES
  entity,     \* entity[e]: entities.status, "gone" once the row is deleted
  request,    \* request[r]: status of the approval request, "none" before its INSERT
  about,      \* about[r]: entity_id of r, None before its INSERT
  step,       \* step[s]: the statement steward s executes next
  target,     \* target[s]: the entity s submits
  held,       \* held[w]: requests review w has loaded and not decided
  verdict,    \* verdict[w]: what w decides
  stray       \* history: entities that were created or patched to their status, or
              \*   left in review by half a submission

vars == <<entity, request, about, step, target, held, verdict, stray>>

Verdicts == {"approved", "rejected"}

TypeOK ==
  /\ entity \in [Entities -> {"Draft", "PendingReview", "Active", "SoftDeleted", "gone"}]
  /\ request \in [Requests -> {"none", "pending"} \cup Verdicts]
  /\ about \in [Requests -> Entities \cup {None}]
  /\ \A r \in Requests : request[r] # "none" => about[r] \in Entities
  /\ step \in [Stewards -> {"idle", "update", "insert"}]
  /\ target \in [Stewards -> Entities \cup {None}]
  /\ \A s \in Stewards : step[s] # "idle" => target[s] \in Entities
  /\ held \in [Reviewers -> SUBSET Requests]
  /\ verdict \in [Reviewers -> Verdicts \cup {None}]
  /\ \A w \in Reviewers : held[w] # {} => verdict[w] \in Verdicts
  /\ stray \subseteq Entities
  /\ \A w \in Reviewers : \A r \in held[w] : request[r] # "none"

\* An entity is created with the status its caller asks for: stewards create
\* drafts, but administrators and the ingestion publish at once.
Init ==
  /\ entity \in [Entities -> Created]
  /\ request = [r \in Requests |-> "none"]
  /\ about = [r \in Requests |-> None]
  /\ step = [s \in Stewards |-> "idle"]
  /\ target = [s \in Stewards |-> None]
  /\ held = [w \in Reviewers |-> {}]
  /\ verdict = [w \in Reviewers |-> None]
  /\ stray = {e \in Entities : entity[e] # "Draft"}

\* UPDATE entities SET status = p: of a deleted entity it changes no row, and
\* the handlers do not look at the count.
SetStatus(e, p) ==
  entity' = [entity EXCEPT ![e] = IF @ = "gone" THEN @ ELSE p]

----------------------------------------------------------------------------
(* submit_for_review. *)

HasPending(e) == \E r \in Requests : request[r] = "pending" /\ about[r] = e

Ends(s) ==
  /\ step' = [step EXCEPT ![s] = "idle"]
  /\ target' = [target EXCEPT ![s] = None]

\* The status read: 404 for a deleted entity, 409 for one in review, and for
\* a published one unless the caller is an administrator.
StartSubmit(s, e) ==
  /\ step[s] = "idle"
  /\ entity[e] \notin {"gone", "PendingReview"}
  /\ entity[e] = "Active" => s \in Admins
  /\ step' = [step EXCEPT ![s] = "update"]
  /\ target' = [target EXCEPT ![s] = e]
  /\ UNCHANGED <<entity, request, about, held, verdict, stray>>

\* UPDATE entities SET status = 'PendingReview', committed at once.
SetPending(s) ==
  /\ step[s] = "update"
  /\ SetStatus(target[s], "PendingReview")
  /\ stray' = stray \ {target[s]}
  /\ step' = [step EXCEPT ![s] = "insert"]
  /\ UNCHANGED <<request, about, target, held, verdict>>

InsertRequest(s, r) ==
  /\ step[s] = "insert"
  /\ ~HasPending(target[s])
  /\ request[r] = "none"
  /\ request' = [request EXCEPT ![r] = "pending"]
  /\ about' = [about EXCEPT ![r] = target[s]]
  /\ Ends(s)
  /\ UNCHANGED <<entity, held, verdict, stray>>

\* The unique index on the pending requests of an entity refuses the row.
InsertConflict(s) ==
  /\ step[s] = "insert"
  /\ HasPending(target[s])
  /\ Ends(s)
  /\ UNCHANGED <<entity, request, about, held, verdict, stray>>

\* A statement fails or the handler is dropped.  Nothing is undone.
Abandon(s) ==
  /\ step[s] # "idle"
  /\ stray' = IF step[s] = "insert" /\ entity[target[s]] = "PendingReview"
                THEN stray \cup {target[s]} ELSE stray
  /\ Ends(s)
  /\ UNCHANGED <<entity, request, about, held, verdict>>

----------------------------------------------------------------------------
(* approve_entity, reject_entity and their bulk forms. *)

\* DEFECT: the query for the pending requests forgets the status.
LoadedOfAnyStatus(E) == {r \in Requests : request[r] # "none" /\ about[r] \in E}

\* The pending requests of the named entities, in one query.
Loaded(E) == {r \in Requests : request[r] = "pending" /\ about[r] \in E}

Load(w, E, v) ==
  /\ held[w] = {}
  /\ Loaded(E) # {}
  /\ held' = [held EXCEPT ![w] = Loaded(E)]
  /\ verdict' = [verdict EXCEPT ![w] = v]
  /\ UNCHANGED <<entity, request, about, step, target, stray>>

\* Review w is done with the requests in R, and ends with the last.
Drop(w, R) ==
  /\ held' = [held EXCEPT ![w] = @ \ R]
  /\ verdict' = IF held[w] \subseteq R THEN [verdict EXCEPT ![w] = None] ELSE verdict

\* DEFECT: the bulk form of reject is copied from approve with its status.
StatusAfterCopied(v) == "Active"

\* What a verdict makes of the entity.
StatusAfter(v) == IF v = "approved" THEN "Active" ELSE "Draft"

\* The transaction: UPDATE the request by its id, UPDATE the entity, commit.
Decide(w, r) ==
  /\ r \in held[w]
  /\ request' = [request EXCEPT ![r] = verdict[w]]
  /\ SetStatus(about[r], StatusAfter(verdict[w]))
  /\ stray' = stray \ {about[r]}
  /\ Drop(w, {r})
  /\ UNCHANGED <<about, step, target>>

\* DEFECT: the two updates are not in one transaction, and the second fails.
DecideFailsHalfway(w, r) ==
  /\ r \in held[w]
  /\ request' = [request EXCEPT ![r] = verdict[w]]
  /\ Drop(w, {r})
  /\ UNCHANGED <<entity, about, step, target, stray>>

\* The caller may not decide r, or the transaction rolls back: a bulk call
\* goes on with its other requests, a single one has no other.
DecideFails(w, r) ==
  /\ r \in held[w]
  /\ Drop(w, {r})
  /\ UNCHANGED <<entity, request, about, step, target, stray>>

\* The handler is dropped between two decisions.
HangUp(w) ==
  /\ held[w] # {}
  /\ Drop(w, held[w])
  /\ UNCHANGED <<entity, request, about, step, target, stray>>

----------------------------------------------------------------------------
(* The other writers of the status.  Neither looks at the workflow. *)

Patch(e, p) ==
  /\ p \in Patches
  /\ entity[e] # "gone"
  /\ SetStatus(e, p)
  /\ stray' = stray \cup {e}
  /\ UNCHANGED <<request, about, step, target, held, verdict>>

\* policy-service keeps the row and marks it.
Erase(e) ==
  /\ entity[e] # "gone"
  /\ SetStatus(e, "SoftDeleted")
  /\ stray' = stray \ {e}
  /\ UNCHANGED <<request, about, step, target, held, verdict>>

\* DELETE /entities/:id/gdpr-erase removes the row, not its approval requests.
HardErase(e) ==
  /\ entity[e] # "gone"
  /\ entity' = [entity EXCEPT ![e] = "gone"]
  /\ stray' = stray \ {e}
  /\ UNCHANGED <<request, about, step, target, held, verdict>>

----------------------------------------------------------------------------

Submit(s) ==
  \/ \E e \in Entities : StartSubmit(s, e)
  \/ SetPending(s)
  \/ \E r \in Requests : InsertRequest(s, r)
  \/ InsertConflict(s)
  \/ Abandon(s)

Review(w) ==
  \/ \E E \in SUBSET Entities, v \in Verdicts : Load(w, E, v)
  \/ \E r \in Requests : Decide(w, r)
  \/ \E r \in Requests : DecideFails(w, r)
  \/ HangUp(w)

Next ==
  \/ \E s \in Stewards : Submit(s)
  \/ \E w \in Reviewers : Review(w)
  \/ \E e \in Entities : Erase(e) \/ HardErase(e) \/ \E p \in Patches : Patch(e, p)

Spec == Init /\ [][Next]_vars

----------------------------------------------------------------------------

Requested(e) ==
  \/ HasPending(e)
  \/ \E s \in Stewards : step[s] = "insert" /\ target[s] = e

\* An entity that a submission has put in review has a pending request somebody
\* can decide, or the submission is about to insert one, whatever other
\* submissions and stale reviews do.  One that was created or patched so, or by a
\* submission that was abandoned, need not.
PendingHasRequest ==
  \A e \in Entities :
    entity[e] = "PendingReview" /\ e \notin stray => Requested(e)

\* An entity that the workflow has published has an approved request, also
\* after a late verdict has overturned an earlier one, and after a submission
\* and its rejection of one that was created published.  Without the workflow,
\* by its creation or a PATCH, an entity is published without one.
PublishedWasApproved ==
  \A e \in Entities :
    entity[e] = "Active" /\ e \notin stray =>
      \E r \in Requests : request[r] = "approved" /\ about[r] = e

Closed(r) == request[r] \in Verdicts /\ \A w \in Reviewers : r \notin held[w]

\* A verdict can be overturned only by a review that loaded the request while
\* it was pending; once no such review is open, it is never touched again.
ClosedForGood ==
  [][\A r \in Requests :
       Closed(r) => request'[r] = request[r] /\ about'[r] = about[r]
                    /\ \A w \in Reviewers : r \notin held'[w]]_vars
=============================================================================
