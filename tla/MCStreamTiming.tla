--------------------------- MODULE MCStreamTiming ---------------------------
(* Small instances of StreamTiming with the code's own time constants. *)
EXTENDS StreamTiming
=============================================================================
