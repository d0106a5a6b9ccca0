--------------------------- MODULE MCNotifications ---------------------------
(* An instance of Notifications for TLC: a subscription that asks for one  *)
(* of two types.                                                           *)
EXTENDS Notifications, TLC

CONSTANTS licence, records, s1, here, c1, c2

MCUrl == s1 :> here
MCEventTypes == s1 :> {licence}

Checking == {c \in Checkers : checking[c] # None}

NothingTaken == log = {} /\ \A r \in Replicas : at[r] = "next" /\ batch[r] = {}

\* What a single check writes without a fault.
Apart ==
  \A m, n \in DOMAIN inbox :
    m < n /\ inbox[m].type = inbox[n].type => inbox[n].created - inbox[m].created >= Debounce

\* A bound: what the replicas deliver is two warnings in two days, of one check; what
\* two checks write at the same time, and more, the replicas do not take.
Bounds ==
  \/ /\ Checking \subseteq {c1} /\ (Apart \/ faults > 0)
     /\ Len(inbox) + Cardinality(Checking) <= 2 /\ now <= 2
  \/ NothingTaken /\ sends = [x \in Deliveries |-> 0]
=============================================================================
