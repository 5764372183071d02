----------------------------- MODULE FrameQueue -----------------------------
(***************************************************************************)
(* What the capture promises the encoder loop: a queue of at most two      *)
(* frames (the one in the slot, the one in the capture thread's hand) that *)
(* are handed over in the order the camera made them, each at most once,   *)
(* and dropped only when the capture is being closed.                      *)
(***************************************************************************)
EXTENDS Integers, Sequences

VARIABLES q, last, closing

frameQueue == <<q, last, closing>>

QueueInit == q = <<>> /\ last = 0 /\ closing = FALSE

Newer(f) == f > last /\ \A i \in DOMAIN q : f > q[i]

Put ==
  /\ Len(q) < 2
  /\ Len(q') = Len(q) + 1
  /\ SubSeq(q', 1, Len(q)) = q
  /\ Newer(q'[Len(q')])
  /\ UNCHANGED <<last, closing>>

Get ==
  /\ ~closing
  /\ q # <<>>
  /\ last' = Head(q)
  /\ q' = Tail(q)
  /\ UNCHANGED closing

Close == ~closing /\ closing' = TRUE /\ UNCHANGED <<q, last>>

Drop ==
  /\ closing
  /\ Len(q') < Len(q)
  /\ UNCHANGED <<last, closing>>

QueueNext == Put \/ Get \/ Close \/ Drop

QueueSpec == QueueInit /\ [][QueueNext]_frameQueue
=============================================================================
