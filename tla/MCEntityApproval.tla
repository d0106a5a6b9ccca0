-------------------------- MODULE MCEntityApproval --------------------------
(***************************************************************************)
(* EntityApproval on a small tenant.  Entities, requests and reviews are   *)
(* only compared with each other.                                          *)
(***************************************************************************)
EXTENDS EntityApproval, TLC

Symmetry ==
  Permutations(Entities) \cup Permutations(Requests) \cup Permutations(Reviewers)
=============================================================================
