----------------------------- MODULE MCCapacity -----------------------------
(* Four worker slots, scaled every second poll, for TLC. *)
EXTENDS Capacity
==============================================================================
