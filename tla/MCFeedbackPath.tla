--------------------------- MODULE MCFeedbackPath ---------------------------
(* Small instances of FeedbackPath. *)
EXTENDS FeedbackPath
=============================================================================
