---------------------------- MODULE AiSuggestions ----------------------------
(***************************************************************************)
(* The suggestions of the AI service in mdm-core: they are asked for,      *)
(* stored, and approved or rejected by reviewers; an approval writes the   *)
(* entity in a transaction of its own and then marks the suggestion, while *)
(* entities are edited and erased.  One tenant.  Names are chosen so that  *)
(* one module can extend this one and EntityApproval.                      *)
(***************************************************************************)
EXTENDS Naturals

CONSTANTS
  Subjects,       \* the entities
  Fields, Values,
  Blank,          \* the empty string that the model gives for a field it cannot tell
  Suggestions,    \* bound: the suggestions that can be stored
  Askers,         \* requests for a suggestion that run at the same time
  Approvals,      \* approvals that run at the same time
  MaxFaults,      \* bound
  Absent, Unset

\* The attributes of an entity, and what the model proposes for some fields, which
\* need not be those it was asked about.
Contents == UNION {[F -> Values] : F \in SUBSET Fields}
Answers == UNION {[F -> Values \cup {Blank}] : F \in SUBSET Fields}

ASSUME AiSuggestionsAssumption ==
  /\ Blank \notin Values /\ Absent \notin Contents
  /\ Unset \notin Subjects \cup Suggestions \cup Answers
  /\ MaxFaults \in Nat

VARIABLES
  attrs,          \* attrs[e]: the attributes of entity e
  asking,         \* asking[a]: the entity that request a asks the AI service about
  subject, answer, status,  \* core_mdm.ai_suggestions
  at, on,         \* at[v]: the next step of approval v, of suggestion on[v]
  writes,         \* writes[s]: how often suggestion s was written to its entity
  faults          \* how many faults there were

suggestionVars == <<subject, answer>>
reviewVars == <<at, on>>
aiVars == <<attrs, asking, suggestionVars, status, reviewVars, writes, faults>>

AIInit ==
  /\ attrs \in [Subjects -> Contents]
  /\ asking = [a \in Askers |-> Unset]
  /\ subject = [s \in Suggestions |-> Unset]
  /\ answer = [s \in Suggestions |-> Unset]
  /\ status = [s \in Suggestions |-> "none"]
  /\ at = [v \in Approvals |-> "idle"]
  /\ on = [v \in Approvals |-> Unset]
  /\ writes = [s \in Suggestions |-> 0]
  /\ faults = 0

Fault == faults < MaxFaults /\ faults' = faults + 1

-----------------------------------------------------------------------------
(* Asking.                                                                 *)

\* trigger_enrichment, the only request that gets as far as the AI service: the other
\* two look for fields in an array.  The entity may come from the cache and be erased.
Ask(a, e) ==
  /\ asking[a] = Unset
  /\ asking' = [asking EXCEPT ![a] = e]
  /\ UNCHANGED <<attrs, suggestionVars, status, reviewVars, writes, faults>>

\* The INSERT of call_and_store needs the entity to exist.
Store(a, s, proposed) ==
  /\ asking[a] # Unset /\ attrs[asking[a]] # Absent
  /\ status[s] = "none"
  /\ status' = [status EXCEPT ![s] = "pending"]
  /\ subject' = [subject EXCEPT ![s] = asking[a]]
  /\ answer' = [answer EXCEPT ![s] = proposed]
  /\ asking' = [asking EXCEPT ![a] = Unset]
  /\ UNCHANGED <<attrs, reviewVars, writes, faults>>

\* The AI service does not answer, its confidence is out of range, or the entity is gone.
StoreFails(a) ==
  /\ asking[a] # Unset
  /\ asking' = [asking EXCEPT ![a] = Unset]
  /\ UNCHANGED <<attrs, suggestionVars, status, reviewVars, writes, faults>>

-----------------------------------------------------------------------------
(* Reviewing.                                                              *)

\* Blank proposals are left out.
NewAttrs(s) == [f \in {g \in DOMAIN answer[s] : answer[s][g] # Blank} |-> answer[s][f]]

Proposes(s) == \E f \in DOMAIN answer[s] : answer[s][f] # Blank

\* DEFECT: whatever was decided before.
ApproveAgain(v, s) ==
  /\ at[v] = "idle" /\ status[s] # "none"
  /\ status' = [status EXCEPT ![s] = "approved"]
  /\ IF Proposes(s)
     THEN at' = [at EXCEPT ![v] = "write"] /\ on' = [on EXCEPT ![v] = s]
     ELSE UNCHANGED reviewVars
  /\ UNCHANGED <<attrs, asking, suggestionVars, writes, faults>>

\* Only a pending suggestion is approved; one that proposes nothing is left at that.
Approve(v, s) ==
  /\ at[v] = "idle" /\ status[s] = "pending"
  /\ status' = [status EXCEPT ![s] = "approved"]
  /\ IF Proposes(s)
     THEN at' = [at EXCEPT ![v] = "write"] /\ on' = [on EXCEPT ![v] = s]
     ELSE UNCHANGED reviewVars
  /\ UNCHANGED <<attrs, asking, suggestionVars, writes, faults>>

Done(v) ==
  /\ at' = [at EXCEPT ![v] = "idle"]
  /\ on' = [on EXCEPT ![v] = Unset]

\* The answer of the UPDATE is lost, or the request ends right after it.
ApproveFails(s) ==
  /\ status[s] = "pending"
  /\ status' = [status EXCEPT ![s] = "approved"]
  /\ Fault
  /\ UNCHANGED <<attrs, asking, suggestionVars, reviewVars, writes>>

\* update_entity deletes all attributes before it inserts the new ones.
Replace(s) ==
  /\ attrs[subject[s]] # Absent
  /\ attrs' = [attrs EXCEPT ![subject[s]] = NewAttrs(s)]
  /\ writes' = [writes EXCEPT ![s] = @ + 1]

\* That the entity was not there is not looked at.
Write(v) ==
  /\ at[v] = "write"
  /\ \/ Replace(on[v])
     \/ attrs[subject[on[v]]] = Absent /\ UNCHANGED <<attrs, writes>>
  /\ at' = [at EXCEPT ![v] = "mark"]
  /\ UNCHANGED <<asking, suggestionVars, status, on, faults>>

\* A statement or the COMMIT fails, whether it was executed or not, or the request
\* ends before.
WriteFails(v) ==
  /\ at[v] = "write"
  /\ Replace(on[v]) \/ UNCHANGED <<attrs, writes>>
  /\ Done(v)
  /\ Fault
  /\ UNCHANGED <<asking, suggestionVars, status>>

\* mark_applied: no row if the suggestion went with its entity.
Mark(v) ==
  /\ at[v] = "mark"
  /\ status' = [status EXCEPT ![on[v]] = IF @ = "gone" THEN @ ELSE "applied"]
  /\ Done(v)
  /\ UNCHANGED <<attrs, asking, suggestionVars, writes, faults>>

\* An error of mark_applied is dropped; or the request ends before.
MarkFails(v) ==
  /\ at[v] = "mark"
  /\ Done(v)
  /\ Fault
  /\ UNCHANGED <<attrs, asking, suggestionVars, status, writes>>

\* The answer is an error, for RETURNING 1 is not the integer that is read, but the
\* statement was executed.
Reject(s) ==
  /\ status[s] = "pending"
  /\ status' = [status EXCEPT ![s] = "rejected"]
  /\ UNCHANGED <<attrs, asking, suggestionVars, reviewVars, writes, faults>>

-----------------------------------------------------------------------------
(* Entities.                                                               *)

PatchEntity(e, new) ==
  /\ attrs[e] \notin {Absent, new}
  /\ attrs' = [attrs EXCEPT ![e] = new]
  /\ UNCHANGED <<asking, suggestionVars, status, reviewVars, writes, faults>>

\* The suggestions of the entity go with it.
HardEraseSubject(e) ==
  /\ attrs[e] # Absent
  /\ attrs' = [attrs EXCEPT ![e] = Absent]
  /\ status' = [s \in Suggestions |-> IF subject[s] = e THEN "gone" ELSE status[s]]
  /\ UNCHANGED <<asking, suggestionVars, reviewVars, writes, faults>>

-----------------------------------------------------------------------------
AINext ==
  \/ \E a \in Askers :
       \/ \E e \in Subjects : Ask(a, e)
       \/ \E s \in Suggestions, proposed \in Answers : Store(a, s, proposed)
       \/ StoreFails(a)
  \/ \E s \in Suggestions : ApproveFails(s) \/ Reject(s)
  \/ \E v \in Approvals :
       \/ \E s \in Suggestions : Approve(v, s)
       \/ Write(v) \/ WriteFails(v) \/ Mark(v) \/ MarkFails(v)
  \/ \E e \in Subjects : HardEraseSubject(e) \/ \E new \in Contents : PatchEntity(e, new)

AISpec == AIInit /\ [][AINext]_aiVars

-----------------------------------------------------------------------------
\* An approval under way has a suggestion, which was stored for an entity.
AITypeOK ==
  /\ attrs \in [Subjects -> Contents \cup {Absent}]
  /\ asking \in [Askers -> Subjects \cup {Unset}]
  /\ subject \in [Suggestions -> Subjects \cup {Unset}]
  /\ answer \in [Suggestions -> Answers \cup {Unset}]
  /\ status \in [Suggestions -> {"none", "pending", "approved", "rejected", "applied", "gone"}]
  /\ \A s \in Suggestions : status[s] # "none" <=> subject[s] # Unset
  /\ \A s \in Suggestions : status[s] # "none" => answer[s] # Unset
  /\ at \in [Approvals -> {"idle", "write", "mark"}]
  /\ on \in [Approvals -> Suggestions \cup {Unset}]
  /\ \A v \in Approvals : at[v] # "idle" => on[v] # Unset /\ status[on[v]] # "none"
  /\ writes \in [Suggestions -> Nat]
  /\ faults \in Nat

WrittenIfApproved(s) ==
  /\ writes[s] <= 1
  /\ writes[s] = 1 => status[s] \in {"approved", "applied", "gone"}

AppliedIsWritten(s) == status[s] = "applied" => writes[s] = 1

ApprovedIsCarried(s) ==
  faults = 0 /\ status[s] = "approved" /\ Proposes(s) =>
    \E v \in Approvals : on[v] = s /\ at[v] = IF writes[s] = 0 THEN "write" ELSE "mark"

\* The status tells what became of a suggestion, however approvals, rejections and
\* erasures overlap: it is written to its entity once at most and only if it was
\* approved, "applied" means that it was, and "approved" that it will be, unless
\* something failed (handlers/ai_suggestions.rs:171).
StatusTellsOutcome ==
  \A s \in Suggestions : WrittenIfApproved(s) /\ AppliedIsWritten(s) /\ ApprovedIsCarried(s)
=============================================================================
