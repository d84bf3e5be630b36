---------------------------- MODULE MCSandboxPool ----------------------------
(* Small instances of SandboxPool. *)
EXTENDS SandboxPool, TLC

Symmetry == Permutations(Episodes) \cup Permutations(Sandboxes)
=============================================================================
