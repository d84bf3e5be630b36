---------------------------- MODULE MCClaudeCloud ----------------------------
EXTENDS ClaudeCloud, TLC

(* Orders and hooks differ in nothing but their names. *)
Symmetry == Permutations(Orders) \cup Permutations(Hooks)
=============================================================================
