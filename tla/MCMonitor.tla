----------------------------- MODULE MCMonitor -----------------------------
(* Reports, a stop and a new start, answers that overtake each other.      *)
EXTENDS Monitor
=============================================================================
