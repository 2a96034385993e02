-------------------------------- MODULE MCStep --------------------------------
(* A step of two commands for TLC. *)
EXTENDS Step

\* by_exit_code with keys "1", "1-2": no key holds 0 or a signal's -1.
MCRanges == {[lo |-> 1, hi |-> 2, class |-> "killed"], [lo |-> 1, hi |-> 1, class |-> "survived"]}
===============================================================================
