--------------------------- MODULE EventDelivery ---------------------------
(***************************************************************************)
(* What the transactional outbox promises the rest of the platform: an     *)
(* event of a committed transaction stays an open obligation until it has  *)
(* reached Kafka at least once or has been parked in the dead-letter       *)
(* queue, and a parked event that is replayed becomes an open obligation   *)
(* again.  Nothing is said about how often an event is delivered.          *)
(*                                                                         *)
(* The relay of kafka-event-service (module OutboxRelay) implements this   *)
(* specification.                                                          *)
(***************************************************************************)
CONSTANT Events     \* the domain events that transactions may emit

VARIABLES
  open,             \* events that still have to be handed to Kafka
  delivered,        \* events that Kafka has received at least once
  dead              \* events parked in the dead-letter queue

vars == <<open, delivered, dead>>

Init ==
  /\ open = {}
  /\ delivered = {}
  /\ dead = {}

\* A transaction commits: all its events become obligations at once.
Commit(S) ==
  /\ open' = open \cup S
  /\ UNCHANGED <<delivered, dead>>

\* Only an event some transaction has committed can reach Kafka.
Deliver(e) ==
  /\ e \in open \cup delivered \cup dead
  /\ delivered' = delivered \cup {e}
  /\ UNCHANGED <<open, dead>>

\* An obligation is discharged only by an event that Kafka has received.
Discharge(e) ==
  /\ e \in open \cap delivered
  /\ open' = open \ {e}
  /\ UNCHANGED <<delivered, dead>>

\* Giving up on an event keeps it: another copy of it may still be open.
Bury(e) ==
  /\ e \in open \cup delivered \cup dead
  /\ dead' = dead \cup {e}
  /\ open' \in {open, open \ {e}}
  /\ UNCHANGED delivered

\* Replayed events leave the dead-letter queue as open obligations.  A copy
\* that was parked twice leaves its event dead as well.
Revive(S) ==
  /\ S \subseteq dead
  /\ open' = open \cup S
  /\ \E T \in SUBSET S : dead' = dead \ T
  /\ UNCHANGED delivered

Next ==
  \/ \E S \in SUBSET Events : Commit(S)
  \/ \E e \in Events : Deliver(e) \/ Discharge(e) \/ Bury(e)
  \/ \E S \in SUBSET Events : Revive(S)

Spec == Init /\ [][Next]_vars

=============================================================================
