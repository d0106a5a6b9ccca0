---------------------------- MODULE Notifications ----------------------------
(***************************************************************************)
(* Warnings of quotas and licences in notifications.inbox (the             *)
(* NotificationService of mdm-core), their delivery to the webhooks of the *)
(* tenant by the webhook_delivery worker of every mdm-core replica, and    *)
(* the log of the deliveries, which is purged.  One tenant.                *)
(***************************************************************************)
EXTENDS Integers, Sequences, FiniteSets

CONSTANTS
  Types,          \* event types
  Checkers,       \* quota and licence checks that run at the same time
  Replicas,       \* replicas of mdm-core
  Subscriptions,
  Url,            \* Url[s]: where subscription s is sent
  EventTypes,     \* EventTypes[s]: the types it asks for, {} for all
  BatchLimit,     \* rows per poll
  Debounce,       \* hours between warnings of a type, in units of time
  Window,         \* the days a warning may be sent
  Retention,      \* the days the log is kept
  MaxWarnings, MaxTime, MaxFaults,  \* bounds
  None

ASSUME NotificationsAssumption ==
  /\ IsFiniteSet(Checkers) /\ None \notin Types
  /\ DOMAIN Url = Subscriptions
  /\ EventTypes \in [Subscriptions -> SUBSET Types]
  /\ BatchLimit \in Nat \ {0}
  /\ Debounce \in Nat \ {0} /\ Window \in Nat \ {0}
  /\ Retention \in Nat /\ Retention >= Window
  /\ MaxWarnings \in Nat /\ MaxTime \in Nat /\ MaxFaults \in Nat

VARIABLES
  now,
  inbox,          \* inbox[n]: the type and time of warning n
  enabled,        \* the subscriptions
  log,            \* notifications.delivery_log
  checking,       \* checking[c]: the type check c is about to warn of
  at,             \* at[r]: what the worker of replica r does next
  batch,          \* batch[r]: the warnings and subscriptions it selected
  row,            \* row[r]: the row in the log of what it is sending
  answer,         \* answer[r]: what the webhook answered
  sends,          \* sends[<<r, x>>]: how often r posted warning and subscription x
  faults          \* how many faults there were

inboxVars == <<inbox, checking>>
workerVars == <<at, batch, row, answer>>
vars == <<now, inboxVars, enabled, log, workerVars, sends, faults>>

Warnings == 1..MaxWarnings
Deliveries == Replicas \X (Warnings \X Subscriptions)

\* The rows of the log.
Rows ==
  [id : Deliveries, notification : Warnings, url : {Url[s] : s \in Subscriptions},
   status : {"pending", "delivered", "failed"}, created : Nat]

ASSUME NoneIsNoRow == None \notin Rows

Init ==
  /\ now = 0
  /\ inbox = <<>> /\ enabled = {} /\ log = {}
  /\ checking = [c \in Checkers |-> None]
  /\ at = [r \in Replicas |-> "next"]
  /\ batch = [r \in Replicas |-> {}]
  /\ row = [r \in Replicas |-> None]
  /\ answer = [r \in Replicas |-> None]
  /\ sends = [x \in Deliveries |-> 0]
  /\ faults = 0

Fault == faults < MaxFaults /\ faults' = faults + 1

Tick ==
  /\ now < MaxTime
  /\ now' = now + 1
  /\ UNCHANGED <<inboxVars, enabled, log, workerVars, sends, faults>>

-----------------------------------------------------------------------------
(* Warnings.                                                               *)

\* DEFECT: only the warnings of this very moment count.
HasNow(type) == \E n \in DOMAIN inbox : inbox[n].type = type /\ inbox[n].created >= now

HasRecent(type) == \E n \in DOMAIN inbox : inbox[n].type = type /\ inbox[n].created > now - Debounce

\* check_and_notify_*, notify_license_expiry: a limit is near.  The inbox is read
\* and written in two statements, and an error of the first counts as "no warning".
Check(c, type) ==
  /\ checking[c] = None
  /\ Len(inbox) < MaxWarnings
  /\ \/ ~HasRecent(type) /\ UNCHANGED faults
     \/ Fault
  /\ checking' = [checking EXCEPT ![c] = type]
  /\ UNCHANGED <<now, inbox, enabled, log, workerVars, sends>>

Notify(c) ==
  /\ checking[c] # None
  /\ Len(inbox) < MaxWarnings
  /\ inbox' = Append(inbox, [type |-> checking[c], created |-> now])
  /\ checking' = [checking EXCEPT ![c] = None]
  /\ UNCHANGED <<now, enabled, log, workerVars, sends, faults>>

\* The INSERT fails, or the replica stops.
NotifyFails(c) ==
  /\ checking[c] # None
  /\ checking' = [checking EXCEPT ![c] = None]
  /\ Fault
  /\ UNCHANGED <<now, inbox, enabled, log, workerVars, sends>>

CreateWebhook(s) ==
  /\ s \notin enabled
  /\ enabled' = enabled \cup {s}
  /\ UNCHANGED <<now, inboxVars, log, workerVars, sends, faults>>

DeleteWebhook(s) ==
  /\ s \in enabled
  /\ enabled' = enabled \ {s}
  /\ UNCHANGED <<now, inboxVars, log, workerVars, sends, faults>>

Asks(s, type) == EventTypes[s] = {} \/ type \in EventTypes[s]

-----------------------------------------------------------------------------
(* The webhook_delivery worker.                                            *)

\* DEFECT: only a webhook that was delivered counts as attempted.
AttemptedDelivered(n, url) == \E d \in log : d.notification = n /\ d.url = url /\ d.status = "delivered"

\* Whatever the status of the row.
Attempted(n, url) == \E d \in log : d.notification = n /\ d.url = url

TooOld(n) == n \in DOMAIN inbox /\ inbox[n].created <= now - Window

Pending ==
  {x \in (DOMAIN inbox) \X enabled :
     /\ Asks(x[2], inbox[x[1]].type)
     /\ ~Attempted(x[1], Url[x[2]])
     /\ ~TooOld(x[1])}

\* DEFECT: less than a full batch waits for more.
PollFull(r) ==
  /\ at[r] = "next" /\ batch[r] = {} /\ Cardinality(Pending) >= BatchLimit
  /\ \E B \in SUBSET Pending : Cardinality(B) = BatchLimit /\ batch' = [batch EXCEPT ![r] = B]
  /\ UNCHANGED <<now, inboxVars, enabled, log, at, row, answer, sends, faults>>

\* The rows are not locked, nor ordered.
Poll(r) ==
  /\ at[r] = "next" /\ batch[r] = {} /\ Pending # {}
  /\ \E B \in SUBSET Pending :
       /\ Cardinality(B) = BatchLimit \/ (B = Pending /\ Cardinality(B) < BatchLimit)
       /\ batch' = [batch EXCEPT ![r] = B]
  /\ UNCHANGED <<now, inboxVars, enabled, log, at, row, answer, sends, faults>>

Row(r, x) == [id |-> <<r, x>>, notification |-> x[1], url |-> Url[x[2]], status |-> "pending", created |-> now]

\* The attempt is logged first.  No key makes ON CONFLICT DO NOTHING apply; the id
\* is new.
LogAttempt(r) ==
  /\ at[r] = "next"
  /\ \E x \in batch[r] :
       LET d == Row(r, x)
       IN /\ log' = log \cup {d}
          /\ row' = [row EXCEPT ![r] = d]
          /\ batch' = [batch EXCEPT ![r] = @ \ {x}]
  /\ at' = [at EXCEPT ![r] = "post"]
  /\ UNCHANGED <<now, inboxVars, enabled, answer, sends, faults>>

\* An error of the INSERT, whether it was executed or not: the worker goes on with
\* the next.
LogFails(r) ==
  /\ at[r] = "next"
  /\ \E x \in batch[r] :
       /\ log' \in {log, log \cup {Row(r, x)}}
       /\ batch' = [batch EXCEPT ![r] = @ \ {x}]
  /\ Fault
  /\ UNCHANGED <<now, inboxVars, enabled, at, row, answer, sends>>

\* A success is a delivery; an error, a timeout and an answer that is lost, although
\* the webhook may have accepted the request, are failures.  Neither is tried again.
Post(r) ==
  /\ at[r] = "post"
  /\ sends' = [sends EXCEPT ![row[r].id] = @ + 1]
  /\ \E status \in {"delivered", "failed"} : answer' = [answer EXCEPT ![r] = status]
  /\ at' = [at EXCEPT ![r] = "update"]
  /\ UNCHANGED <<now, inboxVars, enabled, log, batch, row, faults>>

Sent(r) ==
  /\ at' = [at EXCEPT ![r] = "next"]
  /\ row' = [row EXCEPT ![r] = None]
  /\ answer' = [answer EXCEPT ![r] = None]

UpdateLog(r) ==
  /\ at[r] = "update"
  /\ log' = IF row[r] \in log
            THEN (log \ {row[r]}) \cup {[row[r] EXCEPT !.status = answer[r]]}
            ELSE log
  /\ Sent(r)
  /\ UNCHANGED <<now, inboxVars, enabled, batch, sends, faults>>

\* An error of the UPDATE is dropped.
UpdateFails(r) ==
  /\ at[r] = "update"
  /\ Sent(r)
  /\ Fault
  /\ UNCHANGED <<now, inboxVars, enabled, log, batch, sends>>

Crash(r) ==
  /\ at[r] # "next" \/ batch[r] # {}
  /\ Fault
  /\ at' = [at EXCEPT ![r] = "next"]
  /\ batch' = [batch EXCEPT ![r] = {}]
  /\ row' = [row EXCEPT ![r] = None]
  /\ answer' = [answer EXCEPT ![r] = None]
  /\ UNCHANGED <<now, inboxVars, enabled, log, sends>>

\* DEFECT: the rows of attempts that have not ended are purged too.
PurgePending ==
  LET old == {d \in log : d.created < now - Retention}
  IN /\ old # {}
     /\ log' = log \ old
     /\ UNCHANGED <<now, inboxVars, enabled, workerVars, sends, faults>>

\* purge_old_delivery_log, every night.
Purge ==
  LET old == {d \in log : d.status # "pending" /\ d.created < now - Retention}
  IN /\ old # {}
     /\ log' = log \ old
     /\ UNCHANGED <<now, inboxVars, enabled, workerVars, sends, faults>>

-----------------------------------------------------------------------------
Worker(r) == Poll(r) \/ LogAttempt(r) \/ Post(r) \/ UpdateLog(r)

Next ==
  \/ Tick \/ Purge
  \/ \E c \in Checkers : (\E type \in Types : Check(c, type)) \/ Notify(c) \/ NotifyFails(c)
  \/ \E s \in Subscriptions : CreateWebhook(s) \/ DeleteWebhook(s)
  \/ \E r \in Replicas : Worker(r) \/ LogFails(r) \/ UpdateFails(r) \/ Crash(r)

\* The workers poll for ever and requests have a timeout.
Spec == Init /\ [][Next]_vars /\ \A r \in Replicas : WF_vars(Worker(r))

-----------------------------------------------------------------------------
\* A worker that sends has a row for what it sends, in the log unless it is purged.
TypeOK ==
  /\ now \in 0..MaxTime /\ faults \in 0..MaxFaults
  /\ inbox \in Seq([type : Types, created : 0..MaxTime]) /\ Len(inbox) <= MaxWarnings
  /\ enabled \subseteq Subscriptions
  /\ \A d \in log : d.status \in {"pending", "delivered", "failed"} /\ d.created \in 0..now
  /\ \A r \in Replicas :
       /\ at[r] \in {"next", "post", "update"}
       /\ batch[r] \subseteq (DOMAIN inbox) \X Subscriptions
       /\ row[r] # None <=> at[r] \in {"post", "update"}
       /\ at[r] \in {"post", "update"} =>
            /\ row[r].notification = row[r].id[2][1] /\ row[r].status = "pending"
            /\ row[r] \in log

\* Within the debounce time there is at most one warning of a type for each check
\* that runs at the same time, and one for each fault (notification_service.rs:258).
WarningsBounded ==
  \A type \in Types, t \in 0..MaxTime :
    Cardinality({n \in DOMAIN inbox : inbox[n].type = type /\ inbox[n].created \in t..(t + Debounce - 1)})
      <= Cardinality(Checkers) + faults

\* Each replica posts a warning at most once to a subscription, whatever fails and
\* stops, and although the log of it is purged (webhook_delivery.rs:30).
SentOnce == \A d \in Deliveries : sends[d] <= 1

\* A warning is logged for each subscription that asks for it, unless it becomes
\* too old or the subscription is deleted before (webhook_delivery.rs:33).
WarningsAttempted ==
  \A n \in Warnings, s \in Subscriptions :
    <<n, s>> \in Pending ~> (Attempted(n, Url[s]) \/ s \notin enabled \/ TooOld(n))
=============================================================================
