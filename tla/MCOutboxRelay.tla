--------------------------- MODULE MCOutboxRelay ---------------------------
(***************************************************************************)
(* The instance of OutboxRelay for TLC: a transaction with two events.     *)
(***************************************************************************)
EXTENDS OutboxRelay, TLC

CONSTANTS t1, e1, e2

TwoEvents == t1 :> {e1, e2}

=============================================================================
