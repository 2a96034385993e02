----------------------------- MODULE MCStreamSink -----------------------------
(* Short outputs and queues of one or two lines for TLC. *)
EXTENDS StreamSink
===============================================================================
