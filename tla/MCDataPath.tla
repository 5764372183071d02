----------------------------- MODULE MCDataPath -----------------------------
(* Small instances of DataPath. *)
EXTENDS DataPath
=============================================================================
