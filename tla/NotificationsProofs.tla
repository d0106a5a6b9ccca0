------------------------- MODULE NotificationsProofs -------------------------
(***************************************************************************)
(* Proofs about Notifications for any number of checks, replicas,          *)
(* subscriptions and types: warnings are bounded although the inbox is     *)
(* read and written in two statements, no replica sends a warning twice to *)
(* a subscription although the log is purged, and what is being sent keeps *)
(* its row.                                                                *)
(***************************************************************************)
EXTENDS Notifications, FiniteSetTheorems, SequenceTheorems, TLAPS

Targets == Warnings \X Subscriptions

\* The types of the variables the two properties are about.
InboxTyped ==
  /\ now \in Nat /\ faults \in Nat
  /\ inbox \in Seq([type : Types, created : Nat])
  /\ \A n \in DOMAIN inbox : inbox[n].created <= now
  /\ Len(inbox) <= MaxWarnings
  /\ checking \in [Checkers -> Types \cup {None}]
  /\ enabled \subseteq Subscriptions

WorkerTyped ==
  /\ log \subseteq Rows
  /\ at \in [Replicas -> {"next", "post", "update"}]
  /\ \A r \in Replicas : at[r] # "next" => row[r] \in Rows
  /\ \A r \in Replicas : at[r] = "update" => answer[r] \in {"delivered", "failed"}
  /\ batch \in [Replicas -> SUBSET Targets]
  /\ \A r \in Replicas : \A x \in batch[r] : x[1] \in DOMAIN inbox
  /\ DOMAIN row = Replicas /\ DOMAIN answer = Replicas
  /\ sends \in [Deliveries -> Nat]

Typed == InboxTyped /\ WorkerTyped

-----------------------------------------------------------------------------
(* Sending.                                                                *)

\* A warning that the worker of no replica will select for the subscription again.
Covered(x) == Attempted(x[1], Url[x[2]]) \/ TooOld(x[1])

\* A row is of a warning, and not older than it.
LoggedLater ==
  \A d \in log : d.notification \in DOMAIN inbox /\ inbox[d.notification].created <= d.created

\* What a replica is about to send it has not sent, and what it has sent or is about
\* to send will not be selected again.
SendInv ==
  /\ \A r \in Replicas, x \in Targets : sends[<<r, x>>] <= 1
  /\ \A r \in Replicas, x \in Targets : sends[<<r, x>>] # 0 => x[1] \in DOMAIN inbox /\ Covered(x)
  /\ \A r \in Replicas : \A x \in batch[r] : sends[<<r, x>>] = 0
  /\ \A r \in Replicas : at[r] = "post" =>
       \E x \in Targets :
         /\ row[r].id = <<r, x>> /\ sends[<<r, x>>] = 0
         /\ x \notin batch[r]
         /\ x[1] \in DOMAIN inbox /\ Covered(x)

IInv == Typed /\ LoggedLater /\ SendInv

LEMMA InitIInv == Init => IInv
<1> SUFFICES ASSUME Init PROVE IInv
  OBVIOUS
<1>1. InboxTyped
  BY NotificationsAssumption DEF Init, InboxTyped
<1>2. WorkerTyped
  BY DEF Init, WorkerTyped
<1>3. LoggedLater
  BY DEF Init, LoggedLater
<1>4. SendInv
  BY DEF Init, SendInv, Targets, Deliveries
<1> QED
  BY <1>1, <1>2, <1>3, <1>4 DEF IInv, Typed

LEMMA WarningTyped ==
  ASSUME InboxTyped, NEW n \in DOMAIN inbox
  PROVE  /\ n \in 1..Len(inbox)
         /\ inbox[n].type \in Types /\ inbox[n].created \in Nat
<1>1. inbox \in Seq([type : Types, created : Nat])
  BY DEF InboxTyped
<1>2. n \in 1..Len(inbox)
  BY <1>1
<1>3. inbox[n] \in [type : Types, created : Nat]
  BY <1>1, <1>2, ElementOfSeq
<1> QED
  BY <1>2, <1>3

\* Every step leaves the inbox alone or is a Notify, and time never goes back.
LEMMA InboxStep ==
  ASSUME InboxTyped, [Next]_vars
  PROVE  /\ inbox' = inbox \/ \E c \in Checkers : Notify(c)
         /\ now' = now \/ (now' = now + 1 /\ inbox' = inbox)
<1> USE DEF inboxVars, workerVars
<1>1. CASE Tick \/ Purge
  BY <1>1 DEF Tick, Purge
<1>2. ASSUME NEW c \in Checkers, (\E type \in Types : Check(c, type)) \/ Notify(c) \/ NotifyFails(c)
      PROVE  /\ inbox' = inbox \/ Notify(c)
             /\ now' = now
  BY <1>2 DEF Check, Notify, NotifyFails
<1>3. ASSUME NEW s \in Subscriptions, CreateWebhook(s) \/ DeleteWebhook(s)
      PROVE  inbox' = inbox /\ now' = now
  BY <1>3 DEF CreateWebhook, DeleteWebhook
<1>4. ASSUME NEW r \in Replicas, Worker(r) \/ LogFails(r) \/ UpdateFails(r) \/ Crash(r)
      PROVE  inbox' = inbox /\ now' = now
  BY <1>4 DEF Worker, Poll, LogAttempt, Post, UpdateLog, LogFails, UpdateFails, Crash
<1>5. CASE UNCHANGED vars
  BY <1>5 DEF vars
<1> QED
  BY <1>1, <1>2, <1>3, <1>4, <1>5 DEF Next

\* The inbox only grows.
LEMMA InboxGrows ==
  ASSUME InboxTyped, [Next]_vars
  PROVE  /\ DOMAIN inbox \subseteq DOMAIN inbox'
         /\ \A n \in DOMAIN inbox : inbox'[n] = inbox[n]
         /\ now' \in Nat /\ now' >= now
<1>1. now' \in Nat /\ now' >= now
  BY InboxStep DEF InboxTyped
<1>2. CASE inbox' = inbox
  BY <1>1, <1>2
<1>3. ASSUME NEW c \in Checkers, Notify(c)
      PROVE  /\ DOMAIN inbox \subseteq DOMAIN inbox'
             /\ \A n \in DOMAIN inbox : inbox'[n] = inbox[n]
  BY <1>3 DEF Notify, InboxTyped
<1> QED
  BY <1>1, <1>2, <1>3, InboxStep

LEMMA InboxTypedNext == InboxTyped /\ [Next]_vars => InboxTyped'
<1> SUFFICES ASSUME InboxTyped, [Next]_vars PROVE InboxTyped'
  OBVIOUS
<1> USE DEF InboxTyped, inboxVars, workerVars
<1>1. CASE Tick
  <2>1. now' = now + 1 /\ UNCHANGED <<inbox, checking, enabled, faults>>
    BY <1>1 DEF Tick
  <2>2. ASSUME NEW n \in DOMAIN inbox PROVE inbox[n].created \in Nat
    BY WarningTyped
  <2>3. \A n \in DOMAIN inbox' : inbox'[n].created <= now'
    BY <2>1, <2>2
  <2> QED
    BY <2>1, <2>3
<1>2. CASE Purge
  BY <1>2 DEF Purge
<1>3. ASSUME NEW c \in Checkers, NEW type \in Types, Check(c, type) PROVE InboxTyped'
  BY <1>3, NotificationsAssumption DEF Check, Fault
<1>4. ASSUME NEW c \in Checkers, Notify(c) PROVE InboxTyped'
  <2> DEFINE w == [type |-> checking[c], created |-> now]
  <2>1. w \in [type : Types, created : Nat]
    BY <1>4 DEF Notify
  <2>2. inbox' = Append(inbox, w) /\ now' = now
    BY <1>4 DEF Notify
  <2> HIDE DEF w
  <2>3. /\ inbox' \in Seq([type : Types, created : Nat])
        /\ Len(inbox') = Len(inbox) + 1
        /\ inbox'[Len(inbox) + 1] = w
        /\ \A n \in 1..Len(inbox) : inbox'[n] = inbox[n]
    BY <2>1, <2>2
  <2>4. \A n \in DOMAIN inbox' : inbox'[n].created <= now'
    BY <2>2, <2>3 DEF w
  <2>5. checking' \in [Checkers -> Types \cup {None}]
    BY <1>4 DEF Notify
  <2>6. faults' \in Nat /\ enabled' \subseteq Subscriptions
    BY <1>4 DEF Notify
  <2>7. Len(inbox') <= MaxWarnings
    BY <1>4, <2>3, NotificationsAssumption DEF Notify
  <2> QED
    BY <2>2, <2>3, <2>4, <2>5, <2>6, <2>7
<1>5. ASSUME NEW c \in Checkers, NotifyFails(c) PROVE InboxTyped'
  BY <1>5 DEF NotifyFails, Fault
<1>6. ASSUME NEW s \in Subscriptions, CreateWebhook(s) \/ DeleteWebhook(s) PROVE InboxTyped'
  BY <1>6 DEF CreateWebhook, DeleteWebhook
<1>7. ASSUME NEW r \in Replicas, Worker(r) \/ LogFails(r) \/ UpdateFails(r) \/ Crash(r) PROVE InboxTyped'
  <2>1. UNCHANGED <<now, inbox, checking, enabled>>
    BY <1>7 DEF Worker, Poll, LogAttempt, Post, UpdateLog, LogFails, UpdateFails, Crash
  <2>2. faults' \in Nat
    BY <1>7 DEF Worker, Poll, LogAttempt, Post, UpdateLog, LogFails, UpdateFails, Crash, Fault
  <2> QED
    BY <2>1, <2>2
<1>8. CASE UNCHANGED vars
  BY <1>8 DEF vars
<1> QED
  BY <1>1, <1>2, <1>3, <1>4, <1>5, <1>6, <1>7, <1>8 DEF Next

LEMMA WorkerTypedNext == Typed /\ [Next]_vars => WorkerTyped'
<1> SUFFICES ASSUME Typed, [Next]_vars PROVE WorkerTyped'
  OBVIOUS
<1>0. DOMAIN inbox \subseteq DOMAIN inbox'
  BY InboxGrows DEF Typed
<1> USE DEF WorkerTyped, inboxVars, workerVars
<1> WorkerTyped
  BY DEF Typed
<1>1. ASSUME UNCHANGED <<log, workerVars, sends>> PROVE WorkerTyped'
  BY <1>0, <1>1
<1>2. CASE Purge
  BY <1>0, <1>2 DEF Purge
<1>3. ASSUME NEW r \in Replicas, Poll(r) PROVE WorkerTyped'
  <2>1. batch'[r] \subseteq Pending
    BY <1>3 DEF Poll
  <2>2. Pending \subseteq Targets /\ \A x \in Pending : x[1] \in DOMAIN inbox
    <3>1. DOMAIN inbox \subseteq Warnings
      BY NotificationsAssumption DEF Typed, InboxTyped, Warnings
    <3> QED
      BY <3>1 DEF Pending, Targets, Typed, InboxTyped
  <2> QED
    BY <1>0, <1>3, <2>1, <2>2 DEF Poll
<1>4. ASSUME NEW r \in Replicas, NEW x \in batch[r] PROVE Row(r, x) \in Rows
  BY <1>4, NotificationsAssumption DEF Row, Rows, Deliveries, Targets, Typed, InboxTyped
<1>5. ASSUME NEW r \in Replicas, LogAttempt(r) PROVE WorkerTyped'
  BY <1>0, <1>4, <1>5 DEF LogAttempt
<1>6. ASSUME NEW r \in Replicas, LogFails(r) PROVE WorkerTyped'
  BY <1>0, <1>4, <1>6 DEF LogFails
<1>7. ASSUME NEW r \in Replicas, Post(r) PROVE WorkerTyped'
  <2>1. row[r] \in Rows /\ row[r].id \in Deliveries
    BY <1>7 DEF Post, Rows
  <2>2. sends' \in [Deliveries -> Nat]
    BY <1>7, <2>1 DEF Post
  <2>3. answer'[r] \in {"delivered", "failed"} /\ DOMAIN answer' = Replicas
    BY <1>7 DEF Post
  <2>4. \A q \in Replicas : q # r => answer'[q] = answer[q]
    BY <1>7 DEF Post
  <2>5. UNCHANGED <<log, batch, row>> /\ at' = [at EXCEPT ![r] = "update"]
    BY <1>7 DEF Post
  <2> QED
    BY <1>0, <2>1, <2>2, <2>3, <2>4, <2>5
<1>8. ASSUME NEW r \in Replicas, UpdateLog(r) PROVE WorkerTyped'
  <2>1. row[r] \in Rows /\ answer[r] \in {"delivered", "failed"}
    BY <1>8 DEF UpdateLog
  <2>2. [row[r] EXCEPT !.status = answer[r]] \in Rows
    BY <2>1 DEF Rows
  <2>3. log' \subseteq Rows
    BY <1>8, <2>2 DEF UpdateLog
  <2> QED
    BY <1>0, <1>8, <2>3 DEF UpdateLog, Sent
<1>9. ASSUME NEW r \in Replicas, UpdateFails(r) PROVE WorkerTyped'
  BY <1>0, <1>9 DEF UpdateFails, Sent
<1>10. ASSUME NEW r \in Replicas, Crash(r) PROVE WorkerTyped'
  BY <1>0, <1>10 DEF Crash
<1>11. CASE Tick
  BY <1>1, <1>11 DEF Tick
<1>12. ASSUME NEW c \in Checkers, (\E type \in Types : Check(c, type)) \/ Notify(c) \/ NotifyFails(c)
       PROVE  WorkerTyped'
  BY <1>1, <1>12 DEF Check, Notify, NotifyFails
<1>13. ASSUME NEW s \in Subscriptions, CreateWebhook(s) \/ DeleteWebhook(s) PROVE WorkerTyped'
  BY <1>1, <1>13 DEF CreateWebhook, DeleteWebhook
<1>14. CASE UNCHANGED vars
  BY <1>1, <1>14 DEF vars
<1> QED
  BY <1>2, <1>3, <1>5, <1>6, <1>7, <1>8, <1>9, <1>10, <1>11, <1>12, <1>13, <1>14 DEF Next, Worker

LEMMA TypedNext == Typed /\ [Next]_vars => Typed'
  BY InboxTypedNext, WorkerTypedNext DEF Typed

\* What the log of a step has, but for the rows of a purge: the row of a new attempt
\* or the row of an attempt that ended.
LEMMA LogStep ==
  ASSUME Typed, [Next]_vars
  PROVE  \/ log' = log
         \/ Purge
         \/ \E r \in Replicas, x \in Targets : x \in batch[r] /\ log' = log \cup {Row(r, x)} /\ UNCHANGED now
         \/ \E d \in log, status \in {"delivered", "failed"} :
              log' = (log \ {d}) \cup {[d EXCEPT !.status = status]}
<1> USE DEF inboxVars, workerVars
<1>1. CASE Tick
  BY <1>1 DEF Tick
<1>2. ASSUME NEW c \in Checkers, (\E type \in Types : Check(c, type)) \/ Notify(c) \/ NotifyFails(c)
      PROVE  log' = log
  BY <1>2 DEF Check, Notify, NotifyFails
<1>3. ASSUME NEW s \in Subscriptions, CreateWebhook(s) \/ DeleteWebhook(s) PROVE log' = log
  BY <1>3 DEF CreateWebhook, DeleteWebhook
<1>4. ASSUME NEW r \in Replicas, Poll(r) \/ Post(r) \/ UpdateFails(r) \/ Crash(r) PROVE log' = log
  BY <1>4 DEF Poll, Post, UpdateFails, Crash
<1>5. ASSUME NEW r \in Replicas, LogAttempt(r) \/ LogFails(r)
      PROVE  log' = log \/ \E x \in Targets : x \in batch[r] /\ log' = log \cup {Row(r, x)} /\ UNCHANGED now
  <2>1. batch[r] \subseteq Targets
    BY DEF Typed, WorkerTyped
  <2> QED
    BY <1>5, <2>1 DEF LogAttempt, LogFails
<1>6. ASSUME NEW r \in Replicas, UpdateLog(r)
      PROVE  log' = log \/ \E d \in log, status \in {"delivered", "failed"} :
                              log' = (log \ {d}) \cup {[d EXCEPT !.status = status]}
  <2>1. answer[r] \in {"delivered", "failed"}
    BY <1>6 DEF UpdateLog, Typed, WorkerTyped
  <2> QED
    BY <1>6, <2>1 DEF UpdateLog
<1>7. CASE UNCHANGED vars
  BY <1>7 DEF vars
<1> QED
  BY <1>1, <1>2, <1>3, <1>4, <1>5, <1>6, <1>7 DEF Next, Worker

LEMMA LoggedLaterNext == Typed /\ LoggedLater /\ [Next]_vars => LoggedLater'
<1> SUFFICES ASSUME Typed, LoggedLater, [Next]_vars,
                    NEW d \in log'
             PROVE  d.notification \in DOMAIN inbox' /\ inbox'[d.notification].created <= d.created
  BY DEF LoggedLater
<1>1. ASSUME NEW e \in log, d.notification = e.notification, d.created = e.created
      PROVE  d.notification \in DOMAIN inbox' /\ inbox'[d.notification].created <= d.created
  BY <1>1, InboxGrows DEF LoggedLater, Typed
<1>2. CASE d \in log
  BY <1>1, <1>2
<1>3. CASE Purge
  BY <1>2, <1>3 DEF Purge
<1>4. ASSUME NEW r \in Replicas, NEW x \in Targets, x \in batch[r], d = Row(r, x), UNCHANGED now
      PROVE  d.notification \in DOMAIN inbox' /\ inbox'[d.notification].created <= d.created
  <2>1. d.notification = x[1] /\ d.created = now
    BY <1>4 DEF Row
  <2>2. x[1] \in DOMAIN inbox /\ inbox[x[1]].created <= now
    BY <1>4 DEF Typed, WorkerTyped, InboxTyped
  <2> QED
    BY <2>1, <2>2, InboxGrows DEF Typed
<1>5. ASSUME NEW e \in log, NEW status \in {"delivered", "failed"}, d = [e EXCEPT !.status = status]
      PROVE  d.notification \in DOMAIN inbox' /\ inbox'[d.notification].created <= d.created
  <2>1. e \in Rows
    BY DEF Typed, WorkerTyped
  <2>2. d.notification = e.notification /\ d.created = e.created
    BY <1>5, <2>1 DEF Rows
  <2> QED
    BY <1>1, <2>2
<1> QED
  BY <1>2, <1>3, <1>4, <1>5, LogStep

\* Once it is logged or too old a warning stays so: when its log is purged it has
\* become too old.
LEMMA CoveredStays ==
  ASSUME Typed, LoggedLater, [Next]_vars, NEW x \in Targets, Covered(x)
  PROVE  Covered(x)'
<1>1. ASSUME NEW n \in DOMAIN inbox, inbox[n].created <= now - Window PROVE TooOld(n)'
  <2>1. n \in DOMAIN inbox' /\ inbox'[n] = inbox[n] /\ now' \in Nat /\ now' >= now
    BY InboxGrows DEF Typed
  <2>2. now \in Nat /\ Window \in Nat /\ inbox[n].created \in Nat
    BY WarningTyped, NotificationsAssumption DEF Typed, InboxTyped
  <2> QED
    BY <1>1, <2>1, <2>2 DEF TooOld
<1>2. CASE TooOld(x[1])
  BY <1>1, <1>2 DEF TooOld, Covered
<1>3. ASSUME NEW d \in log, d.notification = x[1], d.url = Url[x[2]] PROVE Covered(x)'
  <2>1. CASE d \in log'
    BY <1>3, <2>1 DEF Covered, Attempted
  <2>2. CASE Purge /\ d \notin log'
    <3>1. d.created < now - Retention
      BY <2>2 DEF Purge
    <3>2. x[1] \in DOMAIN inbox /\ inbox[x[1]].created <= d.created
      BY <1>3 DEF LoggedLater
    <3>3. d.created \in Nat /\ now \in Nat /\ inbox[x[1]].created \in Nat
      BY <3>2, WarningTyped DEF Typed, WorkerTyped, Rows, InboxTyped
    <3>4. inbox[x[1]].created <= now - Window
      BY <3>1, <3>2, <3>3, NotificationsAssumption
    <3> QED
      BY <1>1, <3>2, <3>4 DEF Covered
  <2>3. ASSUME NEW e \in log, NEW status \in {"delivered", "failed"},
               log' = (log \ {e}) \cup {[e EXCEPT !.status = status]}, d \notin log'
        PROVE  Covered(x)'
    <3>1. d = e /\ e \in Rows
      BY <2>3 DEF Typed, WorkerTyped
    <3>2. [e EXCEPT !.status = status].notification = x[1] /\ [e EXCEPT !.status = status].url = Url[x[2]]
      BY <1>3, <3>1 DEF Rows
    <3> QED
      BY <2>3, <3>2 DEF Covered, Attempted
  <2> QED
    BY <2>1, <2>2, <2>3, LogStep
<1> QED
  BY <1>2, <1>3 DEF Covered, Attempted

\* A step that posts nothing and brings no replica closer to posting.
LEMMA QuietStep ==
  ASSUME Typed, LoggedLater, SendInv, [Next]_vars,
         UNCHANGED sends,
         \A r \in Replicas : /\ batch'[r] \subseteq batch[r]
                             /\ at'[r] = "post" => at[r] = "post" /\ row'[r] = row[r]
  PROVE  SendInv'
<1>1. ASSUME NEW r \in Replicas, NEW x \in Targets, sends'[<<r, x>>] # 0
      PROVE  x[1] \in DOMAIN inbox' /\ Covered(x)'
  BY <1>1, CoveredStays, InboxGrows DEF SendInv, Typed
<1>2. ASSUME NEW r \in Replicas, at'[r] = "post"
      PROVE  \E x \in Targets :
               /\ row'[r].id = <<r, x>> /\ sends'[<<r, x>>] = 0
               /\ x \notin batch'[r]
               /\ x[1] \in DOMAIN inbox' /\ Covered(x)'
  <2>1. PICK x \in Targets : /\ row[r].id = <<r, x>> /\ sends[<<r, x>>] = 0
                             /\ x \notin batch[r]
                             /\ x[1] \in DOMAIN inbox /\ Covered(x)
    BY <1>2 DEF SendInv
  <2>2. x[1] \in DOMAIN inbox' /\ Covered(x)'
    BY <2>1, CoveredStays, InboxGrows DEF Typed
  <2> QED
    BY <1>2, <2>1, <2>2
<1>3. /\ \A r \in Replicas, x \in Targets : sends'[<<r, x>>] <= 1
      /\ \A r \in Replicas : \A x \in batch'[r] : sends'[<<r, x>>] = 0
  BY DEF SendInv
<1> QED
  BY <1>1, <1>2, <1>3 DEF SendInv

LEMMA SendInvNext == IInv /\ [Next]_vars => SendInv'
<1> SUFFICES ASSUME Typed, LoggedLater, SendInv, [Next]_vars PROVE SendInv'
  BY DEF IInv
<1> USE DEF inboxVars, workerVars
<1>0. ASSUME NEW r \in Replicas, NEW x \in Targets, sends[<<r, x>>] # 0
      PROVE  x[1] \in DOMAIN inbox' /\ Covered(x)'
  BY <1>0, CoveredStays, InboxGrows DEF SendInv, Typed
<1>1. ASSUME NEW r \in Replicas, Poll(r) PROVE SendInv'
  <2>1. ASSUME NEW x \in batch'[r] PROVE x \in Targets /\ sends[<<r, x>>] = 0
    <3>1. x \in Pending
      BY <1>1, <2>1 DEF Poll, Typed, WorkerTyped
    <3>2. x \in Targets
      BY <3>1, NotificationsAssumption DEF Pending, Targets, Warnings, Typed, InboxTyped
    <3>3. ~Covered(x)
      BY <3>1 DEF Pending, Covered
    <3> QED
      BY <3>2, <3>3 DEF SendInv
  <2>2. /\ UNCHANGED <<sends, at, row, inbox, log, now>>
        /\ \A q \in Replicas : q # r => batch'[q] = batch[q]
    BY <1>1 DEF Poll, Typed, WorkerTyped
  <2>3. at[r] # "post"
    BY <1>1 DEF Poll
  <2>4. \A x \in Targets : Covered(x)' <=> Covered(x)
    BY <2>2 DEF Covered, Attempted, TooOld
  <2>5. ASSUME NEW q \in Replicas, at'[q] = "post"
        PROVE  \E x \in Targets :
                 /\ row'[q].id = <<q, x>> /\ sends'[<<q, x>>] = 0
                 /\ x \notin batch'[q]
                 /\ x[1] \in DOMAIN inbox' /\ Covered(x)'
    <3>1. q # r /\ at[q] = "post"
      BY <2>2, <2>3, <2>5
    <3>2. PICK x \in Targets : /\ row[q].id = <<q, x>> /\ sends[<<q, x>>] = 0
                               /\ x \notin batch[q]
                               /\ x[1] \in DOMAIN inbox /\ Covered(x)
      BY <3>1 DEF SendInv
    <3> QED
      BY <2>2, <2>4, <3>1, <3>2
  <2>6. ASSUME NEW q \in Replicas, NEW x \in batch'[q] PROVE sends'[<<q, x>>] = 0
    BY <2>1, <2>2, <2>6 DEF SendInv
  <2>7. /\ \A q \in Replicas, x \in Targets : sends'[<<q, x>>] <= 1
        /\ \A q \in Replicas, x \in Targets : sends'[<<q, x>>] # 0 => x[1] \in DOMAIN inbox' /\ Covered(x)'
    BY <1>0, <2>2 DEF SendInv
  <2> QED
    BY <2>5, <2>6, <2>7 DEF SendInv
<1>2. ASSUME NEW r \in Replicas, LogAttempt(r) PROVE SendInv'
  <2>1. PICK x \in batch[r] : /\ log' = log \cup {Row(r, x)}
                              /\ row' = [row EXCEPT ![r] = Row(r, x)]
                              /\ batch' = [batch EXCEPT ![r] = @ \ {x}]
    BY <1>2 DEF LogAttempt
  <2>2. x \in Targets /\ x[1] \in DOMAIN inbox /\ sends[<<r, x>>] = 0
    BY DEF SendInv, Typed, WorkerTyped
  <2>3. UNCHANGED <<sends, inbox>> /\ at' = [at EXCEPT ![r] = "post"]
    BY <1>2 DEF LogAttempt
  <2>4. Covered(x)'
    <3>1. Row(r, x).notification = x[1] /\ Row(r, x).url = Url[x[2]]
      BY DEF Row
    <3>2. \E d \in log' : d.notification = x[1] /\ d.url = Url[x[2]]
      BY <2>1, <3>1
    <3> QED
      BY <3>2 DEF Covered, Attempted
  <2>5. row'[r].id = <<r, x>> /\ x \notin batch'[r]
    BY <2>1 DEF Row, Typed, WorkerTyped
  <2>6. ASSUME NEW q \in Replicas, at'[q] = "post"
        PROVE  \E y \in Targets :
                 /\ row'[q].id = <<q, y>> /\ sends'[<<q, y>>] = 0
                 /\ y \notin batch'[q]
                 /\ y[1] \in DOMAIN inbox' /\ Covered(y)'
    <3>1. CASE q = r
      BY <2>2, <2>3, <2>4, <2>5, <3>1
    <3>2. CASE q # r
      <4>1. at[q] = "post" /\ row'[q] = row[q] /\ batch'[q] = batch[q]
        BY <2>1, <2>3, <2>6, <3>2 DEF Typed, WorkerTyped
      <4>2. PICK y \in Targets : /\ row[q].id = <<q, y>> /\ sends[<<q, y>>] = 0
                                 /\ y \notin batch[q]
                                 /\ y[1] \in DOMAIN inbox /\ Covered(y)
        BY <4>1 DEF SendInv
      <4>3. Covered(y)'
        BY <4>2, CoveredStays
      <4> QED
        BY <2>3, <4>1, <4>2, <4>3
    <3> QED
      BY <3>1, <3>2
  <2>7. /\ \A q \in Replicas, y \in Targets : sends'[<<q, y>>] <= 1
        /\ \A q \in Replicas, y \in Targets : sends'[<<q, y>>] # 0 => y[1] \in DOMAIN inbox' /\ Covered(y)'
    BY <1>0, <2>3 DEF SendInv
  <2>8. \A q \in Replicas : \A y \in batch'[q] : sends'[<<q, y>>] = 0
    BY <2>1, <2>3 DEF SendInv, Typed, WorkerTyped
  <2> QED
    BY <2>6, <2>7, <2>8 DEF SendInv
<1>3. ASSUME NEW r \in Replicas, Post(r) PROVE SendInv'
  <2>1. PICK x \in Targets : /\ row[r].id = <<r, x>> /\ sends[<<r, x>>] = 0
                             /\ x \notin batch[r]
                             /\ x[1] \in DOMAIN inbox /\ Covered(x)
    BY <1>3 DEF Post, SendInv
  <2>2. /\ UNCHANGED <<inbox, batch, row>>
        /\ at' = [at EXCEPT ![r] = "update"]
        /\ sends' = [sends EXCEPT ![<<r, x>>] = @ + 1]
    BY <1>3, <2>1 DEF Post
  <2>3. x[1] \in DOMAIN inbox' /\ Covered(x)'
    BY <2>1, <2>2, CoveredStays
  <2>4. /\ sends'[<<r, x>>] = 1
        /\ \A q \in Replicas, y \in Targets : <<q, y>> # <<r, x>> => sends'[<<q, y>>] = sends[<<q, y>>]
    <3>1. sends \in [Deliveries -> Nat] /\ <<r, x>> \in Deliveries
      BY DEF Typed, WorkerTyped, Deliveries, Targets
    <3>2. \A d \in Deliveries : d # <<r, x>> => sends'[d] = sends[d]
      BY <2>2, <3>1
    <3>3. \A q \in Replicas, y \in Targets : <<q, y>> \in Deliveries
      BY DEF Deliveries, Targets
    <3>4. sends'[<<r, x>>] = 1
      BY <2>1, <2>2, <3>1
    <3> QED
      BY <3>2, <3>3, <3>4
  <2>5. ASSUME NEW q \in Replicas, NEW y \in Targets PROVE sends'[<<q, y>>] <= 1
    <3>1. CASE <<q, y>> = <<r, x>>
      BY <2>4, <3>1
    <3>2. CASE <<q, y>> # <<r, x>>
      BY <2>4, <3>2 DEF SendInv
    <3> QED
      BY <3>1, <3>2
  <2>6. ASSUME NEW q \in Replicas, NEW y \in Targets, sends'[<<q, y>>] # 0
        PROVE  y[1] \in DOMAIN inbox' /\ Covered(y)'
    BY <1>0, <2>3, <2>4, <2>6
  <2>7. ASSUME NEW q \in Replicas, NEW y \in batch'[q] PROVE sends'[<<q, y>>] = 0
    <3>1. y \in Targets /\ y \in batch[q] /\ <<q, y>> # <<r, x>>
      BY <2>1, <2>2 DEF Typed, WorkerTyped
    <3> QED
      BY <2>4, <3>1 DEF SendInv
  <2>8. ASSUME NEW q \in Replicas, at'[q] = "post"
        PROVE  \E y \in Targets :
                 /\ row'[q].id = <<q, y>> /\ sends'[<<q, y>>] = 0
                 /\ y \notin batch'[q]
                 /\ y[1] \in DOMAIN inbox' /\ Covered(y)'
    <3>1. q # r /\ at[q] = "post"
      BY <2>2, <2>8 DEF Typed, WorkerTyped
    <3>2. PICK y \in Targets : /\ row[q].id = <<q, y>> /\ sends[<<q, y>>] = 0
                               /\ y \notin batch[q]
                               /\ y[1] \in DOMAIN inbox /\ Covered(y)
      BY <3>1 DEF SendInv
    <3>3. Covered(y)' /\ sends'[<<q, y>>] = 0
      BY <2>4, <3>1, <3>2, CoveredStays
    <3> QED
      BY <2>2, <3>2, <3>3
  <2> QED
    BY <2>5, <2>6, <2>7, <2>8 DEF SendInv
<1>4. CASE Tick \/ Purge
  BY <1>4, QuietStep DEF Tick, Purge
<1>5. ASSUME NEW c \in Checkers, (\E type \in Types : Check(c, type)) \/ Notify(c) \/ NotifyFails(c)
      PROVE  SendInv'
  BY <1>5, QuietStep DEF Check, Notify, NotifyFails
<1>6. ASSUME NEW s \in Subscriptions, CreateWebhook(s) \/ DeleteWebhook(s) PROVE SendInv'
  BY <1>6, QuietStep DEF CreateWebhook, DeleteWebhook
<1>7. ASSUME NEW r \in Replicas, LogFails(r) \/ UpdateLog(r) \/ UpdateFails(r) \/ Crash(r) PROVE SendInv'
  <2>1. UNCHANGED sends
    BY <1>7 DEF LogFails, UpdateLog, UpdateFails, Crash
  <2>2. \A q \in Replicas : batch'[q] \subseteq batch[q]
    BY <1>7 DEF LogFails, UpdateLog, UpdateFails, Crash, Typed, WorkerTyped
  <2>3. \A q \in Replicas : at'[q] = "post" => at[q] = "post" /\ row'[q] = row[q]
    BY <1>7 DEF LogFails, UpdateLog, UpdateFails, Crash, Sent, Typed, WorkerTyped
  <2> QED
    BY <2>1, <2>2, <2>3, QuietStep
<1>8. CASE UNCHANGED vars
  BY <1>8, QuietStep DEF vars
<1> QED
  BY <1>1, <1>2, <1>3, <1>4, <1>5, <1>6, <1>7, <1>8 DEF Next, Worker

LEMMA Invariance == Spec => []IInv
<1>1. IInv /\ [Next]_vars => IInv'
  BY TypedNext, LoggedLaterNext, SendInvNext DEF IInv
<1> QED
  BY <1>1, InitIInv, PTL DEF Spec

\* No replica posts a warning twice to a subscription, however many replicas,
\* warnings and faults there are (deliver_pending of webhook_delivery.rs).
THEOREM SentOnceHolds == Spec => []SentOnce
<1>1. IInv => SentOnce
  BY DEF IInv, SendInv, SentOnce, Deliveries, Targets
<1> QED
  BY <1>1, Invariance, PTL
-----------------------------------------------------------------------------
(* Rows of what is being sent.                                             *)

InBounds == now <= MaxTime /\ faults <= MaxFaults /\ \A d \in log : d.created <= now

\* A worker that sends has a pending row of its own in the log, which neither the purge
\* nor the answer to another worker touches.
RowHeld ==
  \A r \in Replicas :
    /\ at[r] = "next" => row[r] = None
    /\ at[r] # "next" =>
         /\ row[r] \in log /\ row[r].status = "pending"
         /\ row[r].id[1] = r /\ row[r].notification = row[r].id[2][1]

LEMMA InBoundsNext == Typed /\ InBounds /\ [Next]_vars => InBounds'
<1> SUFFICES ASSUME Typed, InBounds, [Next]_vars PROVE InBounds'
  OBVIOUS
<1> USE DEF inboxVars, workerVars
<1>1. now \in Nat /\ faults \in Nat /\ now' \in Nat /\ now' >= now /\ \A d \in log : d \in Rows /\ d.created \in Nat
  BY InboxGrows DEF Typed, InboxTyped, WorkerTyped, Rows
<1>2. ASSUME Fault \/ faults' = faults PROVE faults' <= MaxFaults
  BY <1>1, <1>2, NotificationsAssumption DEF InBounds, Fault
<1>3. now' <= MaxTime
  <2>1. CASE Tick
    BY <1>1, <2>1, NotificationsAssumption DEF Tick
  <2>2. CASE ~Tick
    BY <2>2 DEF InBounds, Next, Purge, Check, Notify, NotifyFails, CreateWebhook, DeleteWebhook, Worker, Poll,
                LogAttempt, Post, UpdateLog, LogFails, UpdateFails, Crash, vars
  <2> QED
    BY <2>1, <2>2
<1>4. Fault \/ faults' = faults
  BY DEF Next, Tick, Purge, Check, Notify, NotifyFails, CreateWebhook, DeleteWebhook, Worker, Poll,
         LogAttempt, Post, UpdateLog, LogFails, UpdateFails, Crash, vars
<1>5. ASSUME NEW d \in log' PROVE d.created <= now'
  <2>1. ASSUME NEW e \in log, d.created = e.created PROVE d.created <= now'
    BY <1>1, <2>1 DEF InBounds
  <2>2. ASSUME NEW r \in Replicas, NEW x \in Targets, d = Row(r, x), UNCHANGED now PROVE d.created <= now'
    BY <1>1, <2>2 DEF Row
  <2>3. ASSUME NEW e \in log, NEW status, d = [e EXCEPT !.status = status] PROVE d.created <= now'
    BY <1>1, <2>1, <2>3 DEF Rows
  <2> QED
    BY <2>1, <2>2, <2>3, LogStep DEF Purge
<1> QED
  BY <1>2, <1>3, <1>4, <1>5 DEF InBounds

LEMMA RowHeldNext == Typed /\ RowHeld /\ [Next]_vars => RowHeld'
<1> SUFFICES ASSUME Typed, RowHeld, [Next]_vars PROVE RowHeld'
  OBVIOUS
<1> USE DEF inboxVars, workerVars
<1>0. at \in [Replicas -> {"next", "post", "update"}] /\ DOMAIN row = Replicas /\ log \subseteq Rows
  BY DEF Typed, WorkerTyped
<1>1. ASSUME UNCHANGED <<at, row>>, log \subseteq log' PROVE RowHeld'
  BY <1>1 DEF RowHeld
<1>2. CASE Purge
  BY <1>2 DEF Purge, RowHeld
<1>3. ASSUME NEW r \in Replicas, LogAttempt(r) PROVE RowHeld'
  <2>1. PICK x \in batch[r] : log' = log \cup {Row(r, x)} /\ row' = [row EXCEPT ![r] = Row(r, x)]
    BY <1>3 DEF LogAttempt
  <2>2. at' = [at EXCEPT ![r] = "post"]
    BY <1>3 DEF LogAttempt
  <2>3. Row(r, x).status = "pending" /\ Row(r, x).id[1] = r /\ Row(r, x).notification = Row(r, x).id[2][1]
    BY DEF Row
  <2> QED
    BY <1>0, <2>1, <2>2, <2>3 DEF RowHeld
<1>4. ASSUME NEW r \in Replicas, Post(r) PROVE RowHeld'
  BY <1>0, <1>4 DEF Post, RowHeld
<1>5. ASSUME NEW r \in Replicas, UpdateLog(r) PROVE RowHeld'
  <2>1. /\ at' = [at EXCEPT ![r] = "next"] /\ row' = [row EXCEPT ![r] = None]
        /\ log \ {row[r]} \subseteq log' /\ at[r] = "update"
    BY <1>5 DEF UpdateLog, Sent
  <2>2. ASSUME NEW q \in Replicas, q # r, at[q] # "next" PROVE row[q] \in log'
    BY <2>1, <2>2 DEF RowHeld
  <2> QED
    BY <1>0, <2>1, <2>2 DEF RowHeld
<1>6. ASSUME NEW r \in Replicas, UpdateFails(r) \/ Crash(r) PROVE RowHeld'
  BY <1>0, <1>6 DEF UpdateFails, Crash, Sent, RowHeld
<1>7. ASSUME NEW r \in Replicas, Poll(r) \/ LogFails(r) PROVE RowHeld'
  BY <1>1, <1>7 DEF Poll, LogFails
<1>8. ASSUME NEW c \in Checkers, (\E type \in Types : Check(c, type)) \/ Notify(c) \/ NotifyFails(c)
      PROVE  RowHeld'
  BY <1>1, <1>8 DEF Check, Notify, NotifyFails
<1>9. ASSUME NEW s \in Subscriptions, CreateWebhook(s) \/ DeleteWebhook(s) PROVE RowHeld'
  BY <1>1, <1>9 DEF CreateWebhook, DeleteWebhook
<1>10. CASE Tick \/ UNCHANGED vars
  BY <1>1, <1>10 DEF Tick, vars
<1> QED
  BY <1>2, <1>3, <1>4, <1>5, <1>6, <1>7, <1>8, <1>9, <1>10 DEF Next, Worker

\* A worker that sends has its row in the log, pending, whatever the other workers and
\* the purge do meanwhile (purge_old_delivery_log of 0030_retention_and_cleanup.sql).
THEOREM TypeOKHolds == Spec => []TypeOK
<1> DEFINE Inv == IInv /\ InBounds /\ RowHeld
<1>1. Init => Inv
  <2> SUFFICES ASSUME Init PROVE Inv
    OBVIOUS
  <2>1. InBounds /\ RowHeld
    BY NotificationsAssumption DEF Init, InBounds, RowHeld
  <2> QED
    BY <2>1, InitIInv
<1>2. Inv /\ [Next]_vars => Inv'
  BY TypedNext, LoggedLaterNext, SendInvNext, InBoundsNext, RowHeldNext DEF IInv
<1>3. Inv => TypeOK
  <2> SUFFICES ASSUME Typed, InBounds, RowHeld PROVE TypeOK
    BY DEF IInv
  <2>1. now \in 0..MaxTime /\ faults \in 0..MaxFaults
    BY NotificationsAssumption DEF Typed, InboxTyped, InBounds
  <2>2. inbox \in Seq([type : Types, created : 0..MaxTime])
    <3>1. inbox \in Seq([type : Types, created : Nat])
      BY DEF Typed, InboxTyped
    <3>2. ASSUME NEW n \in 1..Len(inbox) PROVE inbox[n] \in [type : Types, created : 0..MaxTime]
      <4>1. n \in DOMAIN inbox
        BY <3>1
      <4>2. inbox[n] \in [type : Types, created : Nat]
        BY <3>1, ElementOfSeq
      <4>3. inbox[n].created <= now
        BY <4>1 DEF Typed, InboxTyped
      <4> QED
        BY <2>1, <4>2, <4>3, NotificationsAssumption
    <3> DEFINE T == [type : Types, created : 0..MaxTime]
    <3>3. inbox = [n \in 1..Len(inbox) |-> inbox[n]] /\ Len(inbox) \in Nat
      BY <3>1
    <3>4. inbox \in [1..Len(inbox) -> T]
      BY <3>2, <3>3
    <3> HIDE DEF T
    <3>5. inbox \in Seq(T)
      BY <3>3, <3>4, SeqDef
    <3> QED
      BY <3>5 DEF T
  <2>3. \A d \in log : d.status \in {"pending", "delivered", "failed"} /\ d.created \in 0..now
    BY DEF Typed, WorkerTyped, Rows, InBounds
  <2>4. ASSUME NEW r \in Replicas
        PROVE  /\ at[r] \in {"next", "post", "update"}
               /\ batch[r] \subseteq (DOMAIN inbox) \X Subscriptions
               /\ row[r] # None <=> at[r] \in {"post", "update"}
               /\ at[r] \in {"post", "update"} =>
                    row[r].notification = row[r].id[2][1] /\ row[r].status = "pending" /\ row[r] \in log
    <3>1. at[r] \in {"next", "post", "update"}
      BY DEF Typed, WorkerTyped
    <3>2. batch[r] \subseteq (DOMAIN inbox) \X Subscriptions
      BY DEF Typed, WorkerTyped, Targets
    <3>3. at[r] # "next" => row[r] \in Rows
      BY DEF Typed, WorkerTyped
    <3> QED
      BY <3>1, <3>2, <3>3, NoneIsNoRow DEF RowHeld
  <2> QED
    BY <2>1, <2>2, <2>3, <2>4 DEF TypeOK, Typed, InboxTyped
<1> QED
  BY <1>1, <1>2, <1>3, PTL DEF Spec
-----------------------------------------------------------------------------
(* Warning.                                                                *)

Recent(type) == {n \in DOMAIN inbox : inbox[n].type = type /\ inbox[n].created > now - Debounce}

Warning(type) == {c \in Checkers : checking[c] = type}

InWindow(type, t) == {n \in DOMAIN inbox : inbox[n].type = type /\ inbox[n].created \in t..(t + Debounce - 1)}

\* The recent warnings of a type and those that are about to be written.
RecentBounded ==
  \A type \in Types : Cardinality(Recent(type)) + Cardinality(Warning(type)) <= Cardinality(Checkers) + faults

LEMMA Finiteness ==
  ASSUME InboxTyped, NEW type, NEW t
  PROVE  /\ IsFiniteSet(Recent(type)) /\ Cardinality(Recent(type)) \in Nat
         /\ IsFiniteSet(Warning(type)) /\ Cardinality(Warning(type)) \in Nat
         /\ Cardinality(Warning(type)) <= Cardinality(Checkers)
         /\ IsFiniteSet(InWindow(type, t)) /\ Cardinality(InWindow(type, t)) \in Nat
         /\ IsFiniteSet(Checkers) /\ Cardinality(Checkers) \in Nat
<1>1. IsFiniteSet(DOMAIN inbox)
  <2>1. DOMAIN inbox = 1..Len(inbox) /\ Len(inbox) \in Nat
    BY DEF InboxTyped
  <2> QED
    BY <2>1, FS_Interval
<1>2. IsFiniteSet(Checkers)
  BY NotificationsAssumption DEF NotificationsAssumption
<1>3. Recent(type) \subseteq DOMAIN inbox /\ InWindow(type, t) \subseteq DOMAIN inbox /\ Warning(type) \subseteq Checkers
  BY DEF Recent, InWindow, Warning
<1> QED
  BY <1>1, <1>2, <1>3, FS_Subset, FS_CardinalityType

LEMMA FinitenessAfter ==
  ASSUME InboxTyped', NEW type, NEW t
  PROVE  /\ IsFiniteSet(Recent(type)') /\ Cardinality(Recent(type)') \in Nat
         /\ IsFiniteSet(Warning(type)') /\ Cardinality(Warning(type)') \in Nat
         /\ Cardinality(Warning(type)') <= Cardinality(Checkers)
         /\ IsFiniteSet(InWindow(type, t)') /\ Cardinality(InWindow(type, t)') \in Nat
<1>1. IsFiniteSet(DOMAIN inbox')
  <2>1. DOMAIN inbox' = 1..Len(inbox') /\ Len(inbox') \in Nat
    BY DEF InboxTyped
  <2> QED
    BY <2>1, FS_Interval
<1>2. IsFiniteSet(Checkers)
  BY NotificationsAssumption DEF NotificationsAssumption
<1>3. Recent(type)' \subseteq DOMAIN inbox' /\ InWindow(type, t)' \subseteq DOMAIN inbox' /\ Warning(type)' \subseteq Checkers
  BY DEF Recent, InWindow, Warning
<1> QED
  BY <1>1, <1>2, <1>3, FS_Subset, FS_CardinalityType

LEMMA FaultsGrow == InboxTyped /\ [Next]_vars => faults' >= faults
<1> SUFFICES ASSUME InboxTyped, [Next]_vars PROVE faults' >= faults
  OBVIOUS
<1>1. ASSUME faults' = faults \/ Fault PROVE faults' >= faults
  BY <1>1 DEF Fault, InboxTyped
<1>2. ASSUME NEW r \in Replicas, Worker(r) \/ LogFails(r) \/ UpdateFails(r) \/ Crash(r)
      PROVE  faults' = faults \/ Fault
  BY <1>2 DEF Worker, Poll, LogAttempt, Post, UpdateLog, LogFails, UpdateFails, Crash
<1>3. ASSUME NEW c \in Checkers, (\E type \in Types : Check(c, type)) \/ Notify(c) \/ NotifyFails(c)
      PROVE  faults' = faults \/ Fault
  BY <1>3 DEF Check, Notify, NotifyFails
<1>4. ASSUME NEW s \in Subscriptions, CreateWebhook(s) \/ DeleteWebhook(s) PROVE faults' = faults
  BY <1>4 DEF CreateWebhook, DeleteWebhook
<1>5. CASE Tick \/ Purge \/ UNCHANGED vars
  BY <1>1, <1>5 DEF Tick, Purge, vars
<1> QED
  BY <1>1, <1>2, <1>3, <1>4, <1>5 DEF Next

LEMMA RecentBoundedNext == InboxTyped /\ RecentBounded /\ [Next]_vars => RecentBounded'
<1> SUFFICES ASSUME InboxTyped, RecentBounded, [Next]_vars, NEW type \in Types
             PROVE  Cardinality(Recent(type)') + Cardinality(Warning(type)') <= Cardinality(Checkers) + faults'
  BY DEF RecentBounded
<1> USE DEF inboxVars, workerVars
<1> DEFINE Bounded == Cardinality(Recent(type)') + Cardinality(Warning(type)') <= Cardinality(Checkers) + faults'
<1>0. /\ InboxTyped' /\ faults \in Nat /\ faults' \in Nat /\ now \in Nat
      /\ Cardinality(Recent(type)) + Cardinality(Warning(type)) <= Cardinality(Checkers) + faults
  BY InboxTypedNext DEF InboxTyped, RecentBounded
<1>f. /\ IsFiniteSet(Recent(type)) /\ Cardinality(Recent(type)) \in Nat
      /\ IsFiniteSet(Warning(type)) /\ Cardinality(Warning(type)) \in Nat
      /\ Cardinality(Checkers) \in Nat
  BY Finiteness
<1>g. /\ IsFiniteSet(Recent(type)') /\ Cardinality(Recent(type)') \in Nat
      /\ IsFiniteSet(Warning(type)') /\ Cardinality(Warning(type)') \in Nat
      /\ Cardinality(Warning(type)') <= Cardinality(Checkers)
  BY <1>0, FinitenessAfter
<1>1. ASSUME Recent(type)' \subseteq Recent(type), Warning(type)' \subseteq Warning(type), faults' >= faults
      PROVE  Bounded
  <2>1. Cardinality(Recent(type)') <= Cardinality(Recent(type))
    BY <1>1, <1>f, FS_Subset
  <2>2. Cardinality(Warning(type)') <= Cardinality(Warning(type))
    BY <1>1, <1>f, FS_Subset
  <2> QED
    BY <1>0, <1>1, <1>f, <1>g, <2>1, <2>2
<1>2. CASE Tick
  <2>1. now' = now + 1 /\ UNCHANGED <<inbox, checking, faults>>
    BY <1>2 DEF Tick
  <2>2. Recent(type)' \subseteq Recent(type)
    BY <1>0, <2>1, WarningTyped, NotificationsAssumption DEF Recent
  <2> QED
    BY <1>0, <1>1, <2>1, <2>2 DEF Warning
<1>3. ASSUME UNCHANGED <<now, inbox, checking>>, faults' >= faults PROVE Bounded
  BY <1>1, <1>3 DEF Recent, Warning
<1>4. ASSUME NEW c \in Checkers, NEW warned \in Types, Check(c, warned) PROVE Bounded
  <2>1. UNCHANGED <<now, inbox>> /\ checking' = [checking EXCEPT ![c] = warned] /\ faults' >= faults
    BY <1>0, <1>4 DEF Check, Fault
  <2>2. Recent(type)' = Recent(type)
    BY <2>1 DEF Recent
  <2>3. CASE warned # type
    <3>1. Warning(type)' \subseteq Warning(type)
      BY <2>1, <2>3 DEF Warning, InboxTyped
    <3> QED
      BY <1>1, <2>1, <2>2, <3>1
  <2>4. CASE warned = type /\ ~HasRecent(warned)
    <3>1. Recent(type) = {}
      BY <2>4 DEF HasRecent, Recent
    <3>2. Cardinality(Recent(type)') = 0
      BY <2>2, <3>1, FS_EmptySet
    <3> QED
      BY <1>0, <1>f, <1>g, <3>2
  <2>5. CASE warned = type /\ Fault
    <3>1. Warning(type)' = Warning(type) \cup {c}
      BY <2>1, <2>5 DEF Warning, InboxTyped
    <3>2. Cardinality(Warning(type)') <= Cardinality(Warning(type)) + 1
      <4>1. c \notin Warning(type)
        BY <1>4, NotificationsAssumption DEF Check, Warning
      <4>2. Cardinality(Warning(type) \cup {c}) = Cardinality(Warning(type)) + 1
        BY <1>f, <4>1, FS_AddElement
      <4> QED
        BY <1>f, <3>1, <4>2
    <3>3. faults' = faults + 1
      BY <2>5 DEF Fault
    <3> QED
      BY <1>0, <1>f, <1>g, <2>2, <3>2, <3>3
  <2> QED
    BY <1>4, <2>3, <2>4, <2>5 DEF Check
<1>5. ASSUME NEW c \in Checkers, Notify(c) PROVE Bounded
  <2> DEFINE new == Len(inbox) + 1
  <2>1. /\ inbox' = Append(inbox, [type |-> checking[c], created |-> now])
        /\ checking' = [checking EXCEPT ![c] = None]
        /\ UNCHANGED <<now, faults>>
    BY <1>5 DEF Notify
  <2>2. DOMAIN inbox = 1..Len(inbox) /\ Len(inbox) \in Nat
    BY DEF InboxTyped
  <2>3. /\ DOMAIN inbox' = DOMAIN inbox \cup {new}
        /\ \A n \in DOMAIN inbox : inbox'[n] = inbox[n]
        /\ inbox'[new].type = checking[c]
    BY <2>1, <2>2 DEF InboxTyped
  <2>4. CASE checking[c] # type
    <3>1. Recent(type)' \subseteq Recent(type)
      BY <2>1, <2>3, <2>4 DEF Recent
    <3>2. Warning(type)' \subseteq Warning(type)
      BY <2>1, NotificationsAssumption DEF Warning, InboxTyped
    <3> QED
      BY <1>0, <1>1, <2>1, <3>1, <3>2
  <2>5. CASE checking[c] = type
    <3>1. Recent(type)' \subseteq Recent(type) \cup {new}
      BY <2>1, <2>3 DEF Recent
    <3>2. c \in Warning(type) /\ Warning(type)' = Warning(type) \ {c}
      BY <2>1, <2>5, NotificationsAssumption DEF Warning, InboxTyped
    <3>3. Cardinality(Warning(type)') = Cardinality(Warning(type)) - 1
      BY <1>f, <3>2, FS_RemoveElement
    <3>4. /\ IsFiniteSet(Recent(type) \cup {new})
          /\ Cardinality(Recent(type) \cup {new}) <= Cardinality(Recent(type)) + 1
          /\ Cardinality(Recent(type) \cup {new}) \in Nat
      <4>1. new \notin Recent(type)
        BY <2>2 DEF Recent
      <4>2. /\ IsFiniteSet(Recent(type) \cup {new})
            /\ Cardinality(Recent(type) \cup {new}) = Cardinality(Recent(type)) + 1
        BY <1>f, <4>1, FS_AddElement
      <4> QED
        BY <1>f, <4>2
    <3>5. Cardinality(Recent(type)') <= Cardinality(Recent(type) \cup {new})
      BY <3>1, <3>4, FS_Subset
    <3> QED
      BY <1>0, <1>f, <1>g, <2>1, <3>3, <3>4, <3>5
  <2> QED
    BY <2>4, <2>5
<1>6. ASSUME NEW c \in Checkers, NotifyFails(c) PROVE Bounded
  <2>1. UNCHANGED <<now, inbox>> /\ checking' = [checking EXCEPT ![c] = None] /\ faults' >= faults
    BY <1>0, <1>6 DEF NotifyFails, Fault
  <2> QED
    BY <1>1, <2>1, NotificationsAssumption DEF Recent, Warning, InboxTyped
<1>7. CASE Purge
  BY <1>0, <1>3, <1>7 DEF Purge
<1>8. ASSUME NEW s \in Subscriptions, CreateWebhook(s) \/ DeleteWebhook(s) PROVE Bounded
  BY <1>0, <1>3, <1>8 DEF CreateWebhook, DeleteWebhook
<1>9. ASSUME NEW r \in Replicas, Worker(r) \/ LogFails(r) \/ UpdateFails(r) \/ Crash(r) PROVE Bounded
  BY <1>0, <1>3, <1>9 DEF Worker, Poll, LogAttempt, Post, UpdateLog, LogFails, UpdateFails, Crash, Fault
<1>10. CASE UNCHANGED vars
  BY <1>0, <1>3, <1>10 DEF vars
<1> QED
  BY <1>2, <1>4, <1>5, <1>6, <1>7, <1>8, <1>9, <1>10 DEF Next

\* Only a Notify adds to a window; what is in a window it adds to is all recent.
LEMMA WarningsBoundedNext ==
  InboxTyped /\ RecentBounded /\ WarningsBounded /\ [Next]_vars => WarningsBounded'
<1> SUFFICES ASSUME InboxTyped, RecentBounded, WarningsBounded, [Next]_vars,
                    NEW type \in Types, NEW t \in 0..MaxTime
             PROVE  Cardinality(InWindow(type, t)') <= Cardinality(Checkers) + faults'
  BY DEF WarningsBounded, InWindow
<1>1. InboxTyped' /\ RecentBounded'
  BY InboxTypedNext, RecentBoundedNext
<1>2. /\ IsFiniteSet(InWindow(type, t)) /\ Cardinality(InWindow(type, t)) \in Nat
      /\ Cardinality(Checkers) \in Nat
  BY Finiteness
<1>3. /\ Cardinality(InWindow(type, t)') \in Nat
      /\ IsFiniteSet(Recent(type)') /\ Cardinality(Recent(type)') \in Nat
      /\ Cardinality(Warning(type)') \in Nat
  BY <1>1, FinitenessAfter
<1>4. /\ Cardinality(InWindow(type, t)) <= Cardinality(Checkers) + faults
      /\ Cardinality(Recent(type)') + Cardinality(Warning(type)') <= Cardinality(Checkers) + faults'
  BY <1>1 DEF WarningsBounded, InWindow, RecentBounded
<1>5. faults \in Nat /\ faults' \in Nat /\ faults' >= faults
  BY <1>1, FaultsGrow DEF InboxTyped
<1>6. CASE InWindow(type, t)' \subseteq InWindow(type, t)
  <2>1. Cardinality(InWindow(type, t)') <= Cardinality(InWindow(type, t))
    BY <1>2, <1>6, FS_Subset
  <2> QED
    BY <1>2, <1>3, <1>4, <1>5, <2>1
<1>7. CASE InWindow(type, t)' \subseteq Recent(type)'
  <2>1. Cardinality(InWindow(type, t)') <= Cardinality(Recent(type)')
    BY <1>3, <1>7, FS_Subset
  <2> QED
    BY <1>2, <1>3, <1>4, <1>5, <2>1
<1>8. CASE inbox' = inbox
  BY <1>6, <1>8 DEF InWindow
<1>9. ASSUME NEW c \in Checkers, Notify(c)
      PROVE  InWindow(type, t)' \subseteq InWindow(type, t) \/ InWindow(type, t)' \subseteq Recent(type)'
  <2>1. /\ inbox' = Append(inbox, [type |-> checking[c], created |-> now])
        /\ now' = now
    BY <1>9 DEF Notify
  <2>2. DOMAIN inbox = 1..Len(inbox) /\ Len(inbox) \in Nat
    BY DEF InboxTyped
  <2>3. /\ DOMAIN inbox' = DOMAIN inbox \cup {Len(inbox) + 1}
        /\ \A n \in DOMAIN inbox : inbox'[n] = inbox[n]
        /\ inbox'[Len(inbox) + 1].created = now
    BY <2>1, <2>2 DEF InboxTyped
  <2>4. CASE now \in t..(t + Debounce - 1)
    <3>1. now \in Nat /\ t \in Int /\ Debounce \in Nat
      BY NotificationsAssumption DEF InboxTyped
    <3>2. ASSUME NEW n \in InWindow(type, t)' PROVE n \in Recent(type)'
      <4>1. n \in DOMAIN inbox' /\ inbox'[n].type = type /\ inbox'[n].created \in t..(t + Debounce - 1)
        BY <3>2 DEF InWindow
      <4>2. inbox'[n].created > now - Debounce
        BY <2>4, <3>1, <4>1
      <4> QED
        BY <2>1, <4>1, <4>2 DEF Recent
    <3> QED
      BY <3>2
  <2>5. CASE now \notin t..(t + Debounce - 1)
    BY <2>3, <2>5 DEF InWindow
  <2> QED
    BY <2>4, <2>5
<1> QED
  BY <1>6, <1>7, <1>8, <1>9, InboxStep

\* Warnings are bounded, whatever runs at the same time (check_and_notify_* of
\* notification_service.rs): the checks that run at the same time and the faults are
\* all that can add to the first.
THEOREM WarningsBoundedHolds == Spec => []WarningsBounded
<1> DEFINE Inv == InboxTyped /\ RecentBounded /\ WarningsBounded
<1>1. Init => Inv
  <2> SUFFICES ASSUME Init PROVE Inv
    OBVIOUS
  <2>1. InboxTyped
    BY NotificationsAssumption DEF Init, InboxTyped
  <2>2. ASSUME NEW type \in Types PROVE Recent(type) = {} /\ Warning(type) = {}
    BY NotificationsAssumption DEF Init, Recent, Warning
  <2>3. ASSUME NEW type \in Types, NEW t PROVE InWindow(type, t) = {}
    BY DEF Init, InWindow
  <2>4. Cardinality(Checkers) \in Nat /\ faults = 0 /\ Cardinality({}) = 0
    BY <2>1, Finiteness, FS_EmptySet DEF Init
  <2>5. RecentBounded
    <3> SUFFICES ASSUME NEW type \in Types
                 PROVE  Cardinality(Recent(type)) + Cardinality(Warning(type)) <= Cardinality(Checkers) + faults
      BY DEF RecentBounded
    <3>1. Cardinality(Recent(type)) = 0 /\ Cardinality(Warning(type)) = 0
      BY <2>2, <2>4
    <3> QED
      BY <2>4, <3>1
  <2>6. WarningsBounded
    <3> SUFFICES ASSUME NEW type \in Types, NEW t \in 0..MaxTime
                 PROVE  Cardinality(InWindow(type, t)) <= Cardinality(Checkers) + faults
      BY DEF WarningsBounded, InWindow
    <3>1. Cardinality(InWindow(type, t)) = 0
      BY <2>3, <2>4
    <3> QED
      BY <2>4, <3>1
  <2> QED
    BY <2>1, <2>5, <2>6
<1>2. Inv /\ [Next]_vars => Inv'
  BY InboxTypedNext, RecentBoundedNext, WarningsBoundedNext
<1>3. Inv => WarningsBounded
  OBVIOUS
<1> QED
  BY <1>1, <1>2, <1>3, PTL DEF Spec
=============================================================================
