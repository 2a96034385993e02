---------------------------- MODULE MCScheduler ----------------------------
(* Small sessions for TLC: packages of at most three files. *)
EXTENDS Scheduler, TLC

CONSTANTS f1, f2, f3, g1, u1

TwoPackages == <<<<f1, f2>>, <<g1>>>>
OneEach == <<<<f1>>, <<g1>>>>
OnePackage1 == <<<<f1>>>>
OnePackage2 == <<<<f1, f2>>>>
NoUnmapped == [p \in 1 .. NPkgs |-> {}]
UnmappedInFirst == [p \in 1 .. NPkgs |-> IF p = 1 THEN {u1} ELSE {}]

Fresh == {{}}
FreshOrResumed == {{}, {f1}, {f2, u1}}

Symmetry == Permutations(Workers)
============================================================================
