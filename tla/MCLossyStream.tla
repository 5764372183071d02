--------------------------- MODULE MCLossyStream ---------------------------
(* A small instance of LossyStream: more packets than numbers, so that the *)
(* counter wraps, a restart, and trims after four holes.                   *)
EXTENDS LossyStream
=============================================================================
