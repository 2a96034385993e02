---------------------------- MODULE MCResultStore ----------------------------
(* Two packages of two files for TLC; either can be left out. *)
EXTENDS ResultStore, TLC

OwnSlugs == [p \in Pkgs |-> p]
WholeOrOne == {P \X Files : P \in SUBSET Pkgs \ {{}}}

Symmetry == Permutations(Pkgs) \cup Permutations(Files) \cup Permutations(Results)
==============================================================================
