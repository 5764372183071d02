------------------------------ MODULE MCPacing ------------------------------
(* The code's own delays; a loss rate for each of the five levels, the     *)
(* thresholds among them.                                                  *)
EXTENDS Pacing

Thresholds == {5, 30, 80, 150, 151}
=============================================================================
