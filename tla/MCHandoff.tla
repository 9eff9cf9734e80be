------------------------------ MODULE MCHandoff ------------------------------
(* Small instances of Handoff for TLC. *)
EXTENDS HandoffInvariant, TLC

Symmetry == Permutations(Agents) \cup Permutations(Tabs)

=============================================================================
