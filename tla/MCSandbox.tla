------------------------------ MODULE MCSandbox ------------------------------
(* Small caches for TLC. *)
EXTENDS Sandbox, TLC

Symmetry == Permutations(Pkgs) \cup Permutations(Files)
==============================================================================
