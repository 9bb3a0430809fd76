----------------------------- MODULE MCMonitor -----------------------------
(* The monitor with two watched expressions, for TLC. *)
EXTENDS Monitor

MCCounts == -2 .. 2
=============================================================================
