--------------------------- MODULE CircuitBreaker ---------------------------
(***************************************************************************)
(* The circuit breaker of api-gateway and the proxied requests around it.  *)
(*                                                                         *)
(* Requests run concurrently.  A request asks is_open once, then sends up  *)
(* to MaxTries times, and records each outcome.  The breaker is two        *)
(* atomics, and each load, store or read-modify-write is one step: is_open *)
(* loads both, record_success stores both (in either order: the stores are *)
(* relaxed), record_failure adds to one and compares-and-swaps the other.  *)
(*                                                                         *)
(* Only comparisons with the threshold and with the duration matter, so    *)
(* consecutive_failures saturates at Threshold, and opened_at is kept as   *)
(* the time that has passed since, up to OpenDuration.                     *)
(***************************************************************************)
EXTENDS Integers, FiniteSets

CONSTANTS
  Requests,      \* concurrent requests to the upstream
  Outcomes,      \* what the upstream may do
  Threshold,     \* failure_threshold
  OpenDuration,  \* open_duration_secs
  MaxTries       \* MAX_ATTEMPTS of the proxies

ASSUME BreakerAssumption ==
  /\ Outcomes \subseteq {"success", "failure", "unrecorded"}
  /\ Threshold \in Nat \ {0}
  /\ OpenDuration \in Nat \ {0}
  /\ MaxTries \in Nat \ {0}

Zero == -1       \* opened_at = 0

VARIABLES
  failures,      \* consecutive_failures, saturating
  age,           \* seconds since opened_at, saturating, or Zero
  pc,            \* pc[r]: where request r is
  tries,         \* tries[r]: failed attempts of request r
  stores,        \* stores[r]: the stores record_success has still to make
  probe,         \* requests that were let through half-open
  raced          \* history: a success and a trip were recorded at the same time

breakerVars == <<failures, age, pc, tries, stores, probe, raced>>

BreakerTypeOK ==
  /\ failures \in 0..Threshold
  /\ age \in {Zero} \cup 0..OpenDuration
  /\ pc \in [Requests -> {"idle", "checking", "sending", "succeeded", "failed", "stamping"}]
  /\ tries \in [Requests -> 0..(MaxTries - 1)]
  /\ stores \in [Requests -> SUBSET {"failures", "opened_at"}]
  /\ \A r \in Requests : stores[r] # {} => pc[r] = "succeeded"
  /\ probe \subseteq Requests
  /\ raced \in BOOLEAN

BreakerInit ==
  /\ failures = 0
  /\ age = Zero
  /\ pc = [r \in Requests |-> "idle"]
  /\ tries = [r \in Requests |-> 0]
  /\ stores = [r \in Requests |-> {}]
  /\ probe = {}
  /\ raced = FALSE

Goto(r, where) == pc' = [pc EXCEPT ![r] = where]

\* A second passes.
Tick ==
  /\ age \in 0..(OpenDuration - 1)
  /\ age' = age + 1
  /\ UNCHANGED <<failures, pc, tries, stores, probe>>

-----------------------------------------------------------------------------
\* is_open loads consecutive_failures: below the threshold r may send.
LoadFailures(r) ==
  /\ pc[r] = "idle"
  /\ Goto(r, IF failures < Threshold THEN "sending" ELSE "checking")
  /\ probe' = probe \ {r}
  /\ UNCHANGED <<failures, age, tries, stores>>

\* DEFECT: is_open does not look at the clock.
LetsThroughWhenZero == age = Zero

\* is_open, once the threshold is reached: half-open or just reset.
LetsThrough == age = Zero \/ age >= OpenDuration

\* is_open loads opened_at: r may send, or fails fast.
LoadOpenedAt(r) ==
  /\ pc[r] = "checking"
  /\ Goto(r, IF LetsThrough THEN "sending" ELSE "idle")
  /\ probe' = IF LetsThrough /\ age # Zero THEN probe \cup {r} ELSE probe
  /\ UNCHANGED <<failures, age, tries, stores>>

\* The upstream answers without an error of its own.
Succeeds(r) ==
  /\ "success" \in Outcomes
  /\ pc[r] = "sending"
  /\ Goto(r, "succeeded")
  /\ stores' = [stores EXCEPT ![r] = {"failures", "opened_at"}]
  /\ UNCHANGED <<failures, age, tries, probe>>

\* A network error or a 5xx response.
Fails(r) ==
  /\ "failure" \in Outcomes
  /\ pc[r] = "sending"
  /\ Goto(r, "failed")
  /\ UNCHANGED <<failures, age, tries, stores, probe>>

\* The client goes away, or the AI service answers 4xx: nothing is recorded.
EndsUnrecorded(r) ==
  /\ "unrecorded" \in Outcomes
  /\ pc[r] = "sending"
  /\ Goto(r, "idle")
  /\ tries' = [tries EXCEPT ![r] = 0]
  /\ UNCHANGED <<failures, age, stores, probe>>

\* record_success: consecutive_failures.store(0)
StoreFailures(r) ==
  /\ "failures" \in stores[r]
  /\ failures' = 0
  /\ stores' = [stores EXCEPT ![r] = @ \ {"failures"}]
  /\ UNCHANGED <<age, pc, tries, probe>>

\* record_success: opened_at.store(0)
StoreOpenedAt(r) ==
  /\ "opened_at" \in stores[r]
  /\ age' = Zero
  /\ stores' = [stores EXCEPT ![r] = @ \ {"opened_at"}]
  /\ UNCHANGED <<failures, pc, tries, probe>>

\* The response goes back to the client.
Returns(r) ==
  /\ pc[r] = "succeeded"
  /\ stores[r] = {}
  /\ Goto(r, "idle")
  /\ tries' = [tries EXCEPT ![r] = 0]
  /\ UNCHANGED <<failures, age, stores, probe>>

\* After a failed attempt r sends again, without asking is_open, or gives up.
Retries(r) ==
  IF tries[r] + 1 < MaxTries
  THEN /\ Goto(r, "sending")
       /\ tries' = [tries EXCEPT ![r] = @ + 1]
  ELSE /\ Goto(r, "idle")
       /\ tries' = [tries EXCEPT ![r] = 0]

\* DEFECT: the previous count is compared with the threshold.
CountFailureOneLate(r) ==
  /\ pc[r] = "failed"
  /\ failures' = IF failures < Threshold THEN failures + 1 ELSE failures
  /\ IF failures >= Threshold
     THEN Goto(r, "stamping") /\ UNCHANGED tries
     ELSE Retries(r)
  /\ UNCHANGED <<age, stores, probe>>

\* record_failure: consecutive_failures.fetch_add(1), and the threshold.
CountFailure(r) ==
  /\ pc[r] = "failed"
  /\ failures' = IF failures < Threshold THEN failures + 1 ELSE failures
  /\ IF failures + 1 >= Threshold
     THEN Goto(r, "stamping") /\ UNCHANGED tries
     ELSE Retries(r)
  /\ UNCHANGED <<age, stores, probe>>

\* record_failure: opened_at.compare_exchange(0, now)
Stamp(r) ==
  /\ pc[r] = "stamping"
  /\ age' = IF age = Zero THEN 0 ELSE age
  /\ Retries(r)
  /\ UNCHANGED <<failures, stores, probe>>

Request(r) ==
  \/ LoadFailures(r) \/ LoadOpenedAt(r)
  \/ Succeeds(r) \/ Fails(r) \/ EndsUnrecorded(r)
  \/ StoreFailures(r) \/ StoreOpenedAt(r) \/ Returns(r)
  \/ CountFailure(r) \/ Stamp(r)

\* One request is inside record_success while another has counted the failure
\* that reaches the threshold and not stamped it yet.
Overlap ==
  \E q, r \in Requests : pc[q] = "stamping" /\ stores[r] # {}

BreakerNext ==
  /\ Tick \/ \E r \in Requests : Request(r)
  /\ raced' = (raced \/ Overlap')

BreakerSpec == BreakerInit /\ [][BreakerNext]_breakerVars

\* Time passes; nothing is assumed of the requests.
FairBreakerSpec == BreakerSpec /\ WF_age(Tick)

-----------------------------------------------------------------------------
(* Properties.                                                             *)

Tripped == failures >= Threshold
Open == Tripped /\ ~LetsThrough
Recording(r) == pc[r] = "stamping" \/ stores[r] # {}

\* record_success and record_failure each touch both atomics in two steps.
Quiet == \A r \in Requests : ~Recording(r)

\* What that costs: the atomics agree whenever no request is recording an outcome,
\* unless a success and a trip were recorded at the same time; no other
\* interleaving of requests, retries and probes separates them.  A breaker below
\* its threshold has no opening time left over, which would keep its next trip
\* from being stamped; one that reached it has one, and never passes for reset
\* ("opened_at ... 0 = closed/half-open").
AtomicsAgree == ~raced /\ Quiet => (Tripped <=> age # Zero)

\* An open breaker lets requests through again, however many of the requests
\* that were under way go on failing: a recovered upstream is found out.
OpenEnds == Open ~> ~Open
=============================================================================
