----------------------------- MODULE FileSender -----------------------------
(***************************************************************************)
(* sendStream() in file mode: the encoder child behind popen(), the pipe,  *)
(* stdio's own buffer in front of it, the poll loop with its timers, the   *)
(* final drain and pclose().                                               *)
(*                                                                         *)
(* A tick of the clock is one second; poll()'s 500 ms count as a whole     *)
(* tick.  Data comes in units of half a stdio buffer (2 KB): fread() asks  *)
(* for Want of them.                                                       *)
(***************************************************************************)
EXTENDS Integers

CONSTANTS
  MaxUnits,       (* bound: what the encoder produces                      *)
  Want,           (* fread(buffer, 1, 8192): 4 units                       *)
  StdioUnits,     (* stdio's buffer, 4096 bytes: 2 units                   *)
  PollTimeout,    (* 500 ms: 1 tick, rounded up                            *)
  SendTime,       (* bound: ticks one sendPacket() takes, pacing included  *)
  FeedbackEvery,  (* 2 ticks                                               *)
  StallLimit,     (* 10 ticks                                              *)
  DrainTime,      (* 3 ticks                                               *)
  EncoderMayHang  (* may the encoder stop producing without exiting?       *)

ASSUME FileSenderAssumption ==
  /\ {MaxUnits, SendTime, FeedbackEvery, StallLimit, DrainTime} \subseteq Nat
  /\ {Want, StdioUnits, PollTimeout} \subseteq Nat \ {0}
  /\ StdioUnits <= Want
  /\ EncoderMayHang \in BOOLEAN

VARIABLES
  enc,        (* the encoder: running, hung, exited                        *)
  made,       (* units it has written                                      *)
  pipe,       (* units in the pipe                                         *)
  stdio,      (* units left over in the FILE's buffer                      *)
  sent,       (* units sent as packets                                     *)
  spc,        (* where sendStream() is                                     *)
  spc_t,      (* ticks spent there                                         *)
  stall,      (* ticks since last_pipe_data                                *)
  check_t,    (* ticks since last_fb_check                                 *)
  g_running

fileSender == <<enc, made, pipe, stdio, sent, spc, spc_t, stall, check_t,
                g_running>>
encoder == <<enc, made, pipe>>
timers  == <<spc_t, stall, check_t>>

FileSenderInit ==
  /\ enc = "running" /\ made = 0 /\ pipe = 0 /\ stdio = 0 /\ sent = 0
  /\ spc = "top" /\ spc_t = 0 /\ stall = 0 /\ check_t = 0
  /\ g_running = TRUE

Lesser(a, b) == IF a < b THEN a ELSE b

Available == stdio + pipe

-----------------------------------------------------------------------------
(* The encoder (external).  pclose() closes the pipe first, so that the    *)
(* next write kills it. *)
EncoderWrites ==
  /\ enc = "running"
  /\ made < MaxUnits
  /\ IF spc \in {"pclose", "done"}
     THEN enc' = "exited" /\ UNCHANGED <<made, pipe>>
     ELSE made' = made + 1 /\ pipe' = pipe + 1 /\ UNCHANGED enc
  /\ UNCHANGED <<stdio, sent, spc, timers, g_running>>

EncoderExits ==
  /\ enc = "running"
  /\ enc' = "exited"
  /\ UNCHANGED <<made, pipe, stdio, sent, spc, timers, g_running>>

EncoderHangs ==
  /\ EncoderMayHang
  /\ enc = "running"
  /\ enc' = "hung"
  /\ UNCHANGED <<made, pipe, stdio, sent, spc, timers, g_running>>

-----------------------------------------------------------------------------
(* SIGINT or SIGTERM: poll() returns EINTR, and its error branch leaves    *)
(* the loop; fread() is restarted.                                         *)
Signal ==
  /\ g_running
  /\ g_running' = FALSE
  /\ \/ UNCHANGED <<spc, spc_t>>
     \/ spc = "poll" /\ spc' = "drain" /\ spc_t' = 0
  /\ UNCHANGED <<encoder, stdio, sent, stall, check_t>>

From(pc, next) == spc = pc /\ spc' = next /\ spc_t' = 0

LoopTest ==
  /\ From("top", IF g_running THEN "poll" ELSE "drain")
  /\ UNCHANGED <<encoder, stdio, sent, stall, check_t, g_running>>

PollReadable ==
  /\ From("poll", "fread")
  /\ pipe > 0
  /\ UNCHANGED <<encoder, stdio, sent, stall, check_t, g_running>>

(* Fault: the hang-up is overlooked while stdio still holds something. *)
HangupOverlooked ==
  /\ From("poll", "drain")
  /\ pipe = 0 /\ enc = "exited" /\ stdio = 0
  /\ UNCHANGED <<encoder, stdio, sent, stall, check_t, g_running>>

(* POLLHUP without POLLIN. *)
PollHangup ==
  /\ From("poll", "drain")
  /\ pipe = 0 /\ enc = "exited"
  /\ UNCHANGED <<encoder, stdio, sent, stall, check_t, g_running>>

(* checkFeedback() and adaptPacing() when two seconds have passed. *)
LookAtFeedback == check_t' = IF check_t >= FeedbackEvery THEN 0 ELSE check_t

Silent == pipe = 0 /\ enc # "exited"

(* poll() times out: give up on the encoder, or look at feedback. *)
PollTimesOut ==
  /\ Silent
  /\ spc_t >= PollTimeout
  /\ \/ From("poll", "drain") /\ stall > StallLimit /\ sent > 0
        /\ UNCHANGED check_t
     \/ From("poll", "top") /\ ~(stall > StallLimit /\ sent > 0)
        /\ LookAtFeedback
  /\ UNCHANGED <<encoder, stdio, sent, stall, g_running>>

(* Fault: fread() leaves a whole buffer behind. *)
FreadLeavesMore ==
  /\ From("fread", "send")
  /\ Available >= Want
  /\ stdio' = Lesser(StdioUnits, Available - Want)
  /\ pipe' = Available - Want - stdio'
  /\ sent' = sent + Want
  /\ stall' = 0
  /\ UNCHANGED <<enc, made, check_t, g_running>>

(* fread() returns what it was asked for.  It reads the pipe by whole      *)
(* stdio buffers, so part of one may be left in stdio, where poll() cannot *)
(* see it.                                                                 *)
FreadFull ==
  /\ From("fread", "send")
  /\ Available >= Want
  /\ stdio' \in 0 .. Lesser(StdioUnits - 1, Available - Want)
  /\ pipe' = Available - Want - stdio'
  /\ sent' = sent + Want
  /\ stall' = 0
  /\ UNCHANGED <<enc, made, check_t, g_running>>

(* fread() meets the end of the stream and returns all there is. *)
FreadAtEof ==
  /\ From("fread", "send")
  /\ Available < Want /\ enc = "exited"
  /\ stdio' = 0 /\ pipe' = 0
  /\ sent' = sent + Available
  /\ stall' = 0
  /\ UNCHANGED <<enc, made, check_t, g_running>>

(* sendPacket() is over. *)
Sent ==
  /\ From("send", "top")
  /\ LookAtFeedback
  /\ UNCHANGED <<encoder, stdio, sent, stall, g_running>>

(* The final wait, which only looks at feedback; then stopFFmpeg(). *)
DrainEnds ==
  /\ From("drain", "pclose")
  /\ spc_t >= DrainTime
  /\ UNCHANGED <<encoder, stdio, sent, stall, check_t, g_running>>

(* pclose() waits for the encoder to exit. *)
Pclose ==
  /\ From("pclose", "done")
  /\ enc = "exited"
  /\ UNCHANGED <<encoder, stdio, sent, stall, check_t, g_running>>

sendStream ==
  \/ LoopTest \/ PollReadable \/ PollHangup \/ PollTimesOut
  \/ FreadFull \/ FreadAtEof \/ Sent \/ DrainEnds \/ Pclose

EncoderStep == EncoderWrites \/ EncoderExits \/ EncoderHangs

-----------------------------------------------------------------------------
(* Time passes only while the sender waits for something.                  *)
SenderWaits ==
  \/ spc = "poll"   /\ Silent /\ spc_t < PollTimeout
  \/ spc = "fread"  /\ Available < Want /\ enc # "exited"
  \/ spc = "send"   /\ spc_t < SendTime
  \/ spc = "drain"  /\ spc_t < DrainTime
  \/ spc = "pclose" /\ enc # "exited"
  \/ spc = "done"

(* A timer that nothing looks at any more does not grow further. *)
Aged(t, limit) == IF t <= limit THEN t + 1 ELSE t

InLoop == spc \in {"top", "poll", "fread", "send"}

SenderTick ==
  /\ SenderWaits
  /\ spc_t' = IF spc \in {"poll", "send", "drain"} THEN spc_t + 1 ELSE 0
  /\ stall' = IF InLoop THEN Aged(stall, StallLimit + PollTimeout + SendTime) ELSE 0
  /\ check_t' = IF InLoop THEN Aged(check_t, FeedbackEvery + PollTimeout + SendTime) ELSE 0
  /\ UNCHANGED <<encoder, stdio, sent, spc, g_running>>

SenderFields ==
  /\ enc \in {"running", "hung", "exited"}
  /\ made \in 0 .. MaxUnits /\ pipe \in Nat /\ sent \in Nat
  /\ stdio \in 0 .. StdioUnits - 1
  /\ spc \in {"top", "poll", "fread", "send", "drain", "pclose", "done"}
  /\ spc_t \in Nat /\ stall \in Nat /\ check_t \in Nat

SenderTypeOK == SenderFields /\ g_running \in BOOLEAN
=============================================================================
