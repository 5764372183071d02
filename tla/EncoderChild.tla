---------------------------- MODULE EncoderChild ----------------------------
(***************************************************************************)
(* Camera mode: the main thread of the sender and its encoder, a child     *)
(* process that reads raw frames from one pipe and writes the encoded      *)
(* stream to another.  The main thread writes a whole frame before it      *)
(* reads; it replaces the encoder when the bitrate changes and takes it    *)
(* down in the end.                                                        *)
(*                                                                         *)
(* Data is counted, in units of the stdin pipe and in packets of the       *)
(* stdout pipe.  The capture is in CameraCapture: here dequeue() may or    *)
(* may not have a frame at any time, and of any length the driver reports. *)
(* The encoder itself is external: how much it makes of a frame, how long  *)
(* it takes and whether it fails is open.                                  *)
(***************************************************************************)
EXTENDS Integers

CONSTANTS
  FrameUnits,   (* a raw frame of the size the encoder was told            *)
  FrameLens,    (* what the driver reports as bytesused: any length but 0  *)
  InCap,        (* what the stdin pipe holds                               *)
  OutCap,       (* what the stdout pipe holds                              *)
  ReadMax,      (* one read(): 8192 bytes                                  *)
  MaxOut,       (* what the encoder writes for one frame, at most          *)
  MaxTail,      (* what it still writes after its input has ended          *)
  MayFail,      (* whether the encoder, pipe() and fork() may fail         *)
  Terminal,     (* whether Ctrl+C is typed: the child gets SIGINT as well  *)
  MaxRestarts   (* bound: restarts                                         *)

ASSUME EncoderAssumption ==
  /\ {FrameUnits, InCap, OutCap, ReadMax} \subseteq Nat \ {0}
  /\ FrameLens \subseteq Nat \ {0}
  /\ {MaxOut, MaxTail, MaxRestarts} \subseteq Nat
  /\ {MayFail, Terminal} \subseteq BOOLEAN

VARIABLES
  pc,          (* where the main thread is                                 *)
  told,        (* ~g_running, or the duration is over                      *)
  stdin_fd,    (* ffmpeg_stdin_fd_ >= 0                                    *)
  ffmpeg_fd,   (* ffmpeg_fd >= 0                                           *)
  ffmpeg_pid,  (* ffmpeg_pid_ > 0                                          *)
  raw_len,     (* length of the frame in hand, 0 without one               *)
  written,     (* units of it that write() has taken                       *)
  restarts,
  child,       (* the process: "none", "run", "flush", or "exited" (not    *)
               (* yet waited for)                                          *)
  taken,       (* units of the next frame it has read                      *)
  pending,     (* packets it has made and not written                      *)
  inpipe, outpipe,
  open_fds,    (* ends of pipes the sender has open                        *)
  (* history *)
  leaked,      (* ends of pipes that failed starts have left open          *)
  misfed,      (* the present encoder got a frame that is not FrameUnits   *)
  behind       (* by how much its output has outrun one read() per frame   *)

handles == <<stdin_fd, ffmpeg_fd, ffmpeg_pid, open_fds, leaked>>
frame   == <<raw_len, written>>
process == <<child, taken, pending, misfed, behind>>
pipes   == <<inpipe, outpipe>>
vars    == <<pc, told, handles, frame, restarts, process, pipes>>

Lesser(a, b) == IF a < b THEN a ELSE b

(* behind is counted up to all that the pipe and the encoder can hold.     *)
Most == OutCap + MaxOut + MaxTail
UpTo(n) == IF n > 0 THEN Lesser(n, Most) ELSE 0

Init ==
  /\ pc = "start" /\ told = FALSE
  /\ stdin_fd = FALSE /\ ffmpeg_fd = FALSE /\ ffmpeg_pid = FALSE
  /\ raw_len = 0 /\ written = 0 /\ restarts = 0
  /\ child = "none" /\ taken = 0 /\ pending = 0
  /\ inpipe = 0 /\ outpipe = 0
  /\ open_fds = 0 /\ leaked = 0 /\ misfed = FALSE /\ behind = 0

At(here, next) == pc = here /\ pc' = next

-----------------------------------------------------------------------------
(* A new encoder: startFFmpeg() and the end of restartFFmpeg(). *)

(* pipe(), pipe(), fork(), and the parent keeps its two ends. *)
Forked ==
  /\ stdin_fd' = TRUE /\ ffmpeg_fd' = TRUE /\ ffmpeg_pid' = TRUE
  /\ open_fds' = open_fds + 2
  /\ child' = "run" /\ misfed' = FALSE /\ behind' = 0
  /\ UNCHANGED <<told, leaked, frame, restarts, taken, pending, pipes>>

(* The first pipe(), the second or fork() fails: what the calls before it  *)
(* have opened is in locals, and nobody closes it.                         *)
NotForked ==
  /\ MayFail
  /\ \E left \in {0, 2, 4} : open_fds' = open_fds + left /\ leaked' = leaked + left
  /\ UNCHANGED <<told, stdin_fd, ffmpeg_fd, ffmpeg_pid, frame, restarts, process, pipes>>

(* close() of a field, when it is set. *)
Closed(set) == open_fds' = open_fds - (IF set THEN 1 ELSE 0)

Start ==
  \/ At("start", "loop") /\ Forked
  \/ At("start", "done") /\ NotForked

(* restartFFmpeg() reports a failure, which its caller ignores. *)
Respawn == At("spawn", "loop") /\ (Forked \/ NotForked)

-----------------------------------------------------------------------------
(* One round of the camera loop. *)

(* Step 1: without a frame (or with an empty one) nothing is written.      *)
(* Nothing compares a length with the size the encoder was told.           *)
Dequeue ==
  /\ ~told
  /\ \/ At("loop", "read") /\ UNCHANGED <<raw_len, misfed>>
     \/ /\ At("loop", "write") /\ raw_len' \in FrameLens
        /\ misfed' = (misfed \/ raw_len' # FrameUnits)
  /\ UNCHANGED <<told, handles, written, restarts, child, taken, pending, behind, pipes>>

(* Fault: a write() that takes less than the whole frame ends the loop. *)
WriteOnce ==
  /\ pc = "write" /\ stdin_fd /\ child \in {"run", "flush"} /\ inpipe < InCap
  /\ inpipe' = inpipe + 1
  /\ At("write", "read") /\ raw_len' = 0
  /\ UNCHANGED <<written, told, handles, restarts, process, outpipe>>

(* The descriptor blocks, so write() waits for room until all is taken. *)
WriteUnit ==
  /\ pc = "write" /\ stdin_fd /\ child \in {"run", "flush"} /\ inpipe < InCap
  /\ inpipe' = inpipe + 1
  /\ IF written + 1 = raw_len
     THEN pc' = "read" /\ raw_len' = 0 /\ written' = 0
     ELSE UNCHANGED <<pc, raw_len>> /\ written' = written + 1
  /\ UNCHANGED <<told, handles, restarts, process, outpipe>>

(* Fault: every error is taken for EAGAIN. *)
WriteRetries ==
  /\ ~stdin_fd /\ At("write", "write")
  /\ UNCHANGED <<told, handles, frame, restarts, process, pipes>>

(* EBADF, after a restart that failed: the frame is dropped. *)
WriteWithout ==
  /\ ~stdin_fd /\ At("write", "read") /\ raw_len' = 0
  /\ UNCHANGED <<told, handles, written, restarts, process, pipes>>

(* Nobody reads the pipe any more: SIGPIPE, which is not caught. *)
WriteBroken ==
  /\ stdin_fd /\ child = "exited" /\ At("write", "killed")
  /\ UNCHANGED <<told, handles, frame, restarts, process, pipes>>

(* Fault: with a frame written, the output waits for the next round. *)
ReadWhenIdle ==
  /\ At("read", "control")
  /\ outpipe' = IF taken + inpipe > 0 THEN outpipe ELSE outpipe - Lesser(ReadMax, outpipe)
  /\ UNCHANGED <<told, handles, frame, restarts, process, inpipe>>

(* Step 2: poll() without waiting and one read(), sent as packets.  At the *)
(* end of the stream poll() has POLLHUP but not POLLIN, so that nothing    *)
(* is read and the loop goes on.                                           *)
ReadOutput ==
  /\ At("read", "control")
  /\ outpipe' = outpipe - Lesser(ReadMax, outpipe)
  /\ UNCHANGED <<told, handles, frame, restarts, process, inpipe>>

(* Step 3: every two seconds feedback and, if the bitrate is to change, a  *)
(* restart, which begins by closing the encoder's stdin. *)
Control ==
  \/ At("control", "loop") /\ UNCHANGED <<restarts, stdin_fd, open_fds>>
  \/ /\ restarts < MaxRestarts /\ restarts' = restarts + 1
     /\ At("control", "drain") /\ stdin_fd' = FALSE /\ Closed(stdin_fd)
ControlStep ==
  Control /\ UNCHANGED <<told, ffmpeg_fd, ffmpeg_pid, leaked, frame, process, pipes>>

(* Both drains read until the stream ends, is silent for 200 ms, or 2 s    *)
(* are over; a restart sends what it reads, stopFFmpeg() does not.  Then   *)
(* stdout is closed, whatever is left in it.                               *)
Drain(here, next) ==
  /\ \/ At(here, here) /\ outpipe > 0 /\ outpipe' = outpipe - Lesser(ReadMax, outpipe)
        /\ UNCHANGED <<ffmpeg_fd, open_fds>>
     \/ At(here, next) /\ ffmpeg_fd' = FALSE /\ Closed(ffmpeg_fd) /\ outpipe' = 0
  /\ UNCHANGED <<told, stdin_fd, ffmpeg_pid, leaked, frame, restarts, process, inpipe>>

(* waitpid(): immediately over when there is no child. *)
Waited ==
  /\ child \in {"exited", "none"} /\ child' = "none" /\ ffmpeg_pid' = FALSE
  /\ UNCHANGED <<told, stdin_fd, ffmpeg_fd, open_fds, leaked, frame, restarts,
                 taken, pending, misfed, behind, pipes>>

-----------------------------------------------------------------------------
(* The end: one second of drain for the path, then stopFFmpeg(). *)
Leave ==
  /\ told /\ At("loop", "tail")
  /\ UNCHANGED <<told, handles, frame, restarts, process, pipes>>

Stop ==
  /\ pc = "tail" /\ pc' = IF ffmpeg_pid THEN "discard" ELSE "done"
  /\ stdin_fd' = FALSE /\ Closed(stdin_fd)
  /\ UNCHANGED <<told, ffmpeg_fd, ffmpeg_pid, leaked, frame, restarts, process, pipes>>

(* Fault: an encoder that is still busy is left to itself. *)
ReapOrForget ==
  \/ At("kill", "done") /\ Waited
  \/ /\ child \notin {"exited", "none"} /\ At("kill", "done") /\ ffmpeg_pid' = FALSE
     /\ UNCHANGED <<told, stdin_fd, ffmpeg_fd, open_fds, leaked, frame, restarts,
                    process, pipes>>

(* waitpid(WNOHANG); an encoder still there after 500 ms gets SIGTERM. *)
ReapOrKill ==
  \/ At("kill", "done") /\ Waited
  \/ /\ child \notin {"exited", "none"} /\ At("kill", "wait") /\ child' = "flush"
     /\ UNCHANGED <<told, handles, frame, restarts, taken, pending, misfed, behind, pipes>>

MainThread ==
  \/ Start \/ Respawn
  \/ Dequeue \/ WriteUnit \/ WriteWithout \/ WriteBroken \/ ReadOutput \/ ControlStep
  \/ Drain("drain", "reap") \/ (At("reap", "spawn") /\ Waited)
  \/ Leave \/ Stop \/ Drain("discard", "kill") \/ ReapOrKill
  \/ (At("wait", "done") /\ Waited)

-----------------------------------------------------------------------------
(* The encoder.  What it is not reading or writing for is left open. *)
Main == <<pc, told, handles, frame, restarts>>

ReadsUnit ==
  /\ child = "run" /\ pending = 0 /\ inpipe > 0
  /\ inpipe' = inpipe - 1
  /\ IF taken + 1 = FrameUnits
     THEN \E out \in 0 .. MaxOut :
            taken' = 0 /\ pending' = out /\ behind' = UpTo(behind + out - ReadMax)
     ELSE taken' = taken + 1 /\ UNCHANGED <<pending, behind>>
  /\ UNCHANGED <<Main, child, misfed, outpipe>>

WritesPacket ==
  /\ child \in {"run", "flush"} /\ pending > 0 /\ ffmpeg_fd /\ outpipe < OutCap
  /\ pending' = pending - 1
  /\ outpipe' = outpipe + 1
  /\ UNCHANGED <<Main, child, taken, misfed, behind, inpipe>>

(* End of input: what it had held back comes out. *)
InputEnds ==
  /\ child = "run" /\ ~stdin_fd /\ inpipe = 0 /\ pending = 0
  /\ child' = "flush" /\ taken' = 0 /\ pending' \in 0 .. MaxTail
  /\ UNCHANGED <<Main, misfed, behind, pipes>>

(* A process that ends takes its ends of the pipes with it. *)
Exits ==
  /\ child' = "exited" /\ taken' = 0 /\ pending' = 0 /\ inpipe' = 0
  /\ UNCHANGED <<Main, misfed, behind, outpipe>>

Finishes ==
  /\ \/ child = "flush" /\ pending = 0
     \/ child \in {"run", "flush"} /\ pending > 0 /\ ~ffmpeg_fd
  /\ Exits

Crashes == MayFail /\ child \in {"run", "flush"} /\ Exits

Encoder == ReadsUnit \/ WritesPacket \/ InputEnds \/ Finishes

(* SIGTERM, SIGINT or the end of the duration.  Ctrl+C sends SIGINT to the *)
(* whole foreground group: the encoder reads no more and finishes.         *)
Told ==
  /\ ~told /\ told' = TRUE
  /\ \/ UNCHANGED <<child, pending, behind>>
     \/ /\ Terminal /\ child = "run" /\ child' = "flush"
        /\ \E tail \in 0 .. MaxTail :
             pending' = pending + tail /\ behind' = UpTo(behind + tail)
  /\ UNCHANGED <<pc, handles, frame, restarts, taken, misfed, pipes>>

Next == MainThread \/ Encoder \/ Crashes \/ Told

Spec == Init /\ [][Next]_vars

(* The sender runs, and so does its encoder as long as it lives.  Whether  *)
(* there are frames is open.                                               *)
FairSpec == Spec /\ WF_vars(MainThread) /\ WF_vars(Encoder)

-----------------------------------------------------------------------------
Flags ==
  /\ told \in BOOLEAN /\ stdin_fd \in BOOLEAN /\ misfed \in BOOLEAN
  /\ ffmpeg_fd \in BOOLEAN /\ ffmpeg_pid \in BOOLEAN

Fields ==
  /\ pc \in {"start", "loop", "write", "read", "control", "drain", "reap", "spawn",
             "tail", "discard", "kill", "wait", "done", "killed"}
  /\ raw_len \in FrameLens \cup {0} /\ written \in Nat /\ restarts \in 0 .. MaxRestarts
  /\ child \in {"none", "run", "flush", "exited"}
  /\ taken \in 0 .. FrameUnits - 1 /\ pending \in Nat
  /\ inpipe \in 0 .. InCap /\ outpipe \in 0 .. OutCap
  /\ open_fds \in Int /\ leaked \in Nat /\ behind \in 0 .. Most

EncoderTypeOK == Flags /\ Fields

(* Raw video has no marks between frames: a running encoder that got       *)
(* frames of its size only has been given whole frames, and as much of the *)
(* next one as the main thread has written of it, across restarts and      *)
(* failures of them: one frame of another length is forgotten with the     *)
(* encoder that got it.                                                    *)
FramesAligned ==
  child = "run" /\ ~misfed =>
    \E whole \in 0 .. InCap : taken + inpipe = written + whole * FrameUnits

(* In the camera loop the two descriptors and the process id are of one    *)
(* encoder that was not waited for, or all are unset; a sender that ended  *)
(* has none of them and no process.  Every other descriptor that is open   *)
(* was left by a start that failed, four by each at most.                  *)
Held == (IF stdin_fd THEN 1 ELSE 0) + (IF ffmpeg_fd THEN 1 ELSE 0)
HandlesAgree ==
  /\ pc \in {"loop", "write", "read", "control", "tail"}
       => /\ (stdin_fd <=> ffmpeg_fd) /\ (ffmpeg_fd <=> ffmpeg_pid)
          /\ (ffmpeg_pid <=> child # "none")
  /\ pc = "done" => ~stdin_fd /\ ~ffmpeg_fd /\ ~ffmpeg_pid /\ child = "none"
  /\ open_fds = Held + leaked
  /\ leaked <= 4 * (restarts + 1)

(* Main thread and encoder wait for each other, each at a full pipe, only  *)
(* when the frames given to this encoder have yielded more, beyond one     *)
(* read() for each, than the stdout pipe holds beside one read() (or when  *)
(* a frame was not of the encoder's size).                                 *)
Wedged ==
  /\ pc = "write" /\ inpipe = InCap
  /\ child \in {"run", "flush"} /\ pending > 0 /\ outpipe = OutCap
WedgedOnlyWhenBehind == Wedged => misfed \/ ReadMax + behind > OutCap

(* A sender that is told to stop stops, with or without frames, in the     *)
(* midst of a restart or after one that failed: in order, or by the signal *)
(* that a dead encoder's pipe raises.  Only a wedge keeps it, until the    *)
(* encoder dies.                                                           *)
StopsWhenTold == told ~> (pc \in {"done", "killed"} \/ Wedged)

(* CHANGELOG.md:83 says that Ctrl+C closes the pipe to FFmpeg in order,    *)
(* and line 127 names the steps: stdin closed, flush, drain, finished.     *)
ExitsInOrder == told ~> pc = "done"
-----------------------------------------------------------------------------
(* The inductive invariants behind these properties. *)

(* What is set and who is there, by the place of the main thread. *)
HandleStates ==
  /\ pc \in {"start", "spawn", "done"}
       => ~stdin_fd /\ ~ffmpeg_fd /\ ~ffmpeg_pid /\ child = "none"
  /\ pc \in {"loop", "write", "read", "control", "tail", "killed"}
       => (stdin_fd <=> ffmpeg_fd) /\ (ffmpeg_fd <=> ffmpeg_pid)
  /\ pc \in {"drain", "reap"} => ~stdin_fd
  /\ pc = "drain" => (ffmpeg_fd <=> ffmpeg_pid)
  /\ pc \in {"reap", "kill", "wait"} => ~ffmpeg_fd
  /\ pc \in {"discard", "kill", "wait"} => ~stdin_fd /\ ffmpeg_pid
  /\ pc = "discard" => ffmpeg_fd
  /\ (ffmpeg_pid <=> child # "none")
  /\ child = "flush" => told \/ ~stdin_fd

(* What is empty without a process, without a descriptor, between frames. *)
Emptied ==
  /\ child \in {"none", "exited"} => taken = 0 /\ pending = 0 /\ inpipe = 0
  /\ ~ffmpeg_fd => outpipe = 0
  /\ written > 0 => pc \in {"write", "killed"} /\ stdin_fd
  /\ raw_len > 0 <=> pc \in {"write", "killed"}
  /\ raw_len \in {0, FrameUnits} \/ misfed
  /\ written = 0 \/ written < raw_len

(* Who keeps which descriptor open. *)
Descriptors ==
  /\ open_fds = Held + leaked
  /\ leaked <= 4 * (restarts + 1)
  /\ pc = "start" => leaked = 0
  /\ pc \in {"drain", "reap", "spawn"} => leaked <= 4 * restarts

ChildInv == EncoderTypeOK /\ HandleStates /\ Emptied /\ Descriptors /\ FramesAligned

(* The output that waits, as long as every frame was of the encoder's      *)
(* size: with the frame in hand not yet behind the others at most what     *)
(* the output has outrun the reads by, otherwise one or two reads more.    *)
Backlog ==
  LET given == taken + inpipe
      made  == outpipe + pending
  IN /\ child = "run" => pending <= MaxOut
     /\ child = "run" /\ ~misfed /\ pc \in {"loop", "control", "write", "read"} =>
          /\ taken > 0 => pending = 0
          /\ pending <= ReadMax + behind
          /\ pc # "read" =>
               \/ given = written /\ made <= ReadMax + behind
               \/ given = written + FrameUnits /\ made <= behind
          /\ pc = "read" =>
               \/ given = 0 /\ made <= 2 * ReadMax + behind
               \/ given = FrameUnits /\ made <= ReadMax + behind
     /\ child = "flush" /\ ~misfed /\ pc = "write" => made <= ReadMax + behind
=============================================================================
