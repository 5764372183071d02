--------------------------- MODULE MCEncoderChild ---------------------------
(* A frame is larger than the stdin pipe, as any above 64 KB is.           *)
EXTENDS EncoderChild
=============================================================================
