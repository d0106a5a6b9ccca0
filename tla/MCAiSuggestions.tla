-------------------------- MODULE MCAiSuggestions --------------------------
(* An instance of AiSuggestions for TLC. *)
EXTENDS AiSuggestions, TLC

Symmetry == Permutations(Suggestions) \cup Permutations(Approvals) \cup Permutations(Subjects)
=============================================================================
