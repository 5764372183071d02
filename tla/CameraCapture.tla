--------------------------- MODULE CameraCapture ---------------------------
(***************************************************************************)
(* The native V4L2 capture: the kernel's buffer queues, the capture thread *)
(* (captureLoop) that blocks in DQBUF, the single-slot hand-off, and the   *)
(* main thread of the sender that consumes frames, returns buffers and     *)
(* tears the capture down.  Each access to a shared field is a step.       *)
(***************************************************************************)
EXTENDS Integers, Sequences

CONSTANTS
  BufCount,     (* buffers granted by REQBUFS: 4 in the code               *)
  MaxFrames,    (* bound: frames the camera produces                       *)
  Lengths,      (* the bytesused the driver may report                     *)
  OpenMayFail,  (* may an ioctl or mmap of open()/start() fail?            *)
  DeviceMayGo   (* may the camera disappear (EIO/ENODEV)?                  *)

ASSUME CameraAssumption ==
  /\ BufCount \in Nat \ {0}
  /\ MaxFrames \in Nat
  /\ Lengths \subseteq Nat
  /\ Lengths # {}
  /\ OpenMayFail \in BOOLEAN
  /\ DeviceMayGo \in BOOLEAN

Bufs == 0 .. BufCount - 1

Frames == [id : 0 .. MaxFrames, len : Lengths \cup {0}]
NoFrame == [id |-> 0, len |-> 0]

NULL == -1   (* pending_data_ = nullptr, and pending_idx_ = -1             *)

VARIABLES
  (* the driver *)
  device,      (* FALSE once the camera is gone                            *)
  stream_on,   (* STREAMON was issued                                      *)
  queued,      (* buffers the driver may fill                              *)
  filled,      (* buffers waiting for DQBUF                                *)
  content,     (* the frame each mmap'd buffer holds                       *)
  made,        (* frames produced so far                                   *)
  (* the V4L2Capture object *)
  buffers_,    (* buffers_[i].start: unset, mapped, failed; <<>> if null   *)
  streaming_,
  capture_running_,
  frame_ready_, pending_data_, pending_len_, pending_idx_,
  (* the capture thread *)
  cpc,         (* where captureLoop() is                                   *)
  buf,         (* its local v4l2_buffer: the index ...                     *)
  bytesused,   (* ... and the length                                       *)
  (* the main thread *)
  mpc,         (* where sendStream()/startFFmpeg()/stopFFmpeg() is         *)
  g_running,
  buf_idx, raw_data, raw_len,
  next_buf,    (* loop index of open()                                     *)
  (* history *)
  m_frame      (* the frame the main thread took last                      *)

driver == <<device, stream_on, queued, filled, content, made>>
slot   == <<frame_ready_, pending_data_, pending_len_, pending_idx_>>
object == <<buffers_, streaming_, capture_running_, slot>>
thread == <<cpc, buf, bytesused>>
locals == <<buf_idx, raw_data, raw_len, m_frame>>
main   == <<mpc, g_running, next_buf, locals>>
vars   == <<driver, object, thread, main>>

-----------------------------------------------------------------------------
Init ==
  /\ device = TRUE /\ stream_on = FALSE
  /\ queued = {} /\ filled = {}
  /\ content = [b \in Bufs |-> NoFrame]
  /\ made = 0
  /\ buffers_ = <<>>
  /\ streaming_ = FALSE /\ capture_running_ = FALSE /\ frame_ready_ = FALSE
  /\ pending_data_ = NULL /\ pending_len_ = 0 /\ pending_idx_ = NULL
  /\ cpc = "none" /\ buf = NULL /\ bytesused = 0
  /\ mpc = "open" /\ g_running = TRUE
  /\ buf_idx = NULL /\ raw_data = NULL /\ raw_len = 0
  /\ next_buf = 0
  /\ m_frame = NoFrame

-----------------------------------------------------------------------------
(* The driver and the signal (external).                                   *)

(* The camera completes a frame into any buffer it owns. *)
FillBuffer(b) ==
  /\ device /\ stream_on
  /\ b \in queued
  /\ made < MaxFrames
  /\ made' = made + 1
  /\ \E len \in Lengths : content' = [content EXCEPT ![b] = [id |-> made + 1, len |-> len]]
  /\ queued' = queued \ {b}
  /\ filled' = filled \cup {b}
  /\ UNCHANGED <<device, stream_on, object, thread, main>>

DeviceGone ==
  /\ DeviceMayGo /\ device
  /\ device' = FALSE
  /\ UNCHANGED <<stream_on, queued, filled, content, made, object, thread, main>>

(* SIGINT/SIGTERM: a DQBUF that is waiting may return EINTR. *)
Signal ==
  /\ g_running
  /\ g_running' = FALSE
  /\ \/ UNCHANGED cpc
     \/ cpc = "dqbuf" /\ cpc' = "test"
  /\ UNCHANGED <<driver, object, buf, bytesused, mpc, next_buf, locals>>

(* VIDIOC_QBUF: fails when the device is gone, and both callers ignore it. *)
QBUF(b) == /\ queued' = IF device THEN queued \cup {b} ELSE queued
           /\ UNCHANGED <<device, stream_on, filled, content, made>>

-----------------------------------------------------------------------------
(* captureLoop()                                                           *)

Goto(pc) == cpc' = pc

TestRunning ==
  /\ cpc = "test"
  /\ Goto(IF capture_running_ THEN "dqbuf" ELSE "exited")
  /\ UNCHANGED <<driver, object, buf, bytesused, main>>

(* Fault: buffers are taken in no order. *)
DequeueAny(b) ==
  /\ cpc = "dqbuf"
  /\ device /\ stream_on
  /\ b \in filled
  /\ filled' = filled \ {b}
  /\ buf' = b
  /\ bytesused' = content[b].len
  /\ Goto("spin")
  /\ UNCHANGED <<device, stream_on, queued, content, made, object, main>>

(* DQBUF returns the oldest filled buffer. *)
DequeueFilled(b) ==
  /\ cpc = "dqbuf"
  /\ device /\ stream_on
  /\ b \in filled
  /\ \A other \in filled : content[b].id <= content[other].id
  /\ filled' = filled \ {b}
  /\ buf' = b
  /\ bytesused' = content[b].len
  /\ Goto("spin")
  /\ UNCHANGED <<device, stream_on, queued, content, made, object, main>>

(* Any error but EINTR ends the thread for good: ENODEV without a device,  *)
(* EINVAL after STREAMOFF, and also an EIO of a camera that would go on.   *)
DequeueFails ==
  /\ cpc = "dqbuf"
  /\ Goto("exited")
  /\ UNCHANGED <<driver, object, buf, bytesused, main>>

(* Fault: the slot is overwritten without waiting. *)
SlotNotAwaited ==
  /\ cpc = "spin"
  /\ Goto("recheck")
  /\ UNCHANGED <<driver, object, buf, bytesused, main>>

(* Fault: the wait does not look at capture_running_. *)
SlotAwaitedForever ==
  /\ cpc = "spin"
  /\ ~frame_ready_
  /\ Goto("recheck")
  /\ UNCHANGED <<driver, object, buf, bytesused, main>>

(* The usleep(500) loop ends when the slot is free or the capture stops. *)
SlotFree ==
  /\ cpc = "spin"
  /\ ~(frame_ready_ /\ capture_running_)
  /\ Goto("recheck")
  /\ UNCHANGED <<driver, object, buf, bytesused, main>>

StillRunning ==
  /\ cpc = "recheck"
  /\ capture_running_
  /\ Goto("data")
  /\ UNCHANGED <<driver, object, buf, bytesused, main>>

RequeueAndExit ==
  /\ cpc = "recheck"
  /\ ~capture_running_
  /\ QBUF(buf)
  /\ Goto("exited")
  /\ UNCHANGED <<object, buf, bytesused, main>>

WriteData ==
  /\ cpc = "data"
  /\ pending_data_' = buf
  /\ Goto("len")
  /\ UNCHANGED <<driver, buffers_, streaming_, capture_running_, frame_ready_,
                 pending_len_, pending_idx_, buf, bytesused, main>>

WriteLen ==
  /\ cpc = "len"
  /\ pending_len_' = bytesused
  /\ Goto("idx")
  /\ UNCHANGED <<driver, buffers_, streaming_, capture_running_, frame_ready_,
                 pending_data_, pending_idx_, buf, bytesused, main>>

WriteIdx ==
  /\ cpc = "idx"
  /\ pending_idx_' = buf
  /\ Goto("publish")
  /\ UNCHANGED <<driver, buffers_, streaming_, capture_running_, frame_ready_,
                 pending_data_, pending_len_, buf, bytesused, main>>

Publish ==
  /\ cpc = "publish"
  /\ frame_ready_' = TRUE
  /\ Goto("test")
  /\ UNCHANGED <<driver, buffers_, streaming_, capture_running_, pending_data_,
                 pending_len_, pending_idx_, buf, bytesused, main>>

captureLoop ==
  \/ TestRunning
  \/ \E b \in Bufs : DequeueFilled(b)
  \/ DequeueFails
  \/ SlotFree \/ StillRunning \/ RequeueAndExit
  \/ WriteData \/ WriteLen \/ WriteIdx \/ Publish

-----------------------------------------------------------------------------
(* The main thread: open() and start().                                    *)

At(pc, next) == mpc = pc /\ mpc' = next

(* Everything up to REQBUFS and `new Buffer[buf_count_]`, which leaves the *)
(* start pointers unset. *)
OpenDevice ==
  /\ At("open", "map")
  /\ buffers_' = [b \in Bufs |-> "unset"]
  /\ UNCHANGED <<driver, streaming_, capture_running_, slot, thread, g_running,
                 next_buf, locals>>

(* One round of the loop: QUERYBUF, mmap, QBUF. *)
MapBuffer ==
  /\ mpc = "map"
  /\ next_buf < BufCount
  /\ buffers_' = [buffers_ EXCEPT ![next_buf] = "mapped"]
  /\ QBUF(next_buf)
  /\ next_buf' = next_buf + 1
  /\ UNCHANGED <<streaming_, capture_running_, slot, thread, mpc, g_running,
                 locals>>

(* Any of the three fails: open() returns false and leaves things so. *)
MapFails ==
  /\ OpenMayFail
  /\ At("map", "stop")
  /\ next_buf < BufCount
  /\ \/ UNCHANGED buffers_                                       (* QUERYBUF *)
     \/ buffers_' = [buffers_ EXCEPT ![next_buf] = "failed"]     (* mmap *)
     \/ buffers_' = [buffers_ EXCEPT ![next_buf] = "mapped"]     (* QBUF *)
  /\ UNCHANGED <<driver, streaming_, capture_running_, slot, thread, g_running,
                 next_buf, locals>>

(* A failure before REQBUFS, or of STREAMON. *)
OpenOrStartFails ==
  /\ OpenMayFail
  /\ At("open", "stop") \/ (At("map", "stop") /\ next_buf = BufCount)
  /\ UNCHANGED <<driver, object, thread, g_running, next_buf, locals>>

start ==
  /\ At("map", "top")
  /\ next_buf = BufCount
  /\ stream_on' = TRUE
  /\ streaming_' = TRUE
  /\ capture_running_' = TRUE
  /\ Goto("test")
  /\ UNCHANGED <<device, queued, filled, content, made, buffers_, slot,
                 buf, bytesused, g_running, next_buf, locals>>

-----------------------------------------------------------------------------
(* The main thread: the camera branch of sendStream().  Steps 2 to 4 of    *)
(* its loop do not touch the capture.                                      *)

(* SIGINT, --duration, end of the encoder's output, or a failed pipe/fork. *)
LeaveLoop ==
  /\ At("top", "stop")
  /\ UNCHANGED <<driver, object, thread, g_running, next_buf, locals>>

(* dequeue() finds no frame, or starts to take the slot. *)
PollSlot ==
  /\ g_running
  /\ \/ ~frame_ready_ /\ At("top", "top")
     \/ frame_ready_  /\ At("top", "take_idx")
  /\ UNCHANGED <<driver, object, thread, g_running, next_buf, locals>>

TakeIdx ==
  /\ At("take_idx", "take_data")
  /\ buf_idx' = pending_idx_
  /\ UNCHANGED <<driver, object, thread, g_running, next_buf,
                 raw_data, raw_len, m_frame>>

TakeData ==
  /\ At("take_data", "take_len")
  /\ raw_data' = pending_data_
  /\ UNCHANGED <<driver, object, thread, g_running, next_buf,
                 buf_idx, raw_len, m_frame>>

TakeLen ==
  /\ At("take_len", "consume")
  /\ raw_len' = pending_len_
  /\ UNCHANGED <<driver, object, thread, g_running, next_buf,
                 buf_idx, raw_data, m_frame>>

Consume ==
  /\ At("consume", "inspect")
  /\ frame_ready_' = FALSE
  /\ m_frame' = content[raw_data]
  /\ UNCHANGED <<driver, buffers_, streaming_, capture_running_, pending_data_,
                 pending_len_, pending_idx_, thread, g_running, next_buf,
                 buf_idx, raw_data, raw_len>>

(* Fault: the buffer goes back to the driver before it is written. *)
InspectRequeues ==
  /\ raw_data # NULL /\ raw_len > 0
  /\ At("inspect", "write")
  /\ QBUF(buf_idx)
  /\ UNCHANGED <<object, thread, g_running, next_buf, locals>>

(* if (got_frame && raw_data && raw_len > 0): otherwise straight on. *)
Inspect ==
  /\ \/ raw_data # NULL /\ raw_len > 0 /\ At("inspect", "write")
     \/ ~(raw_data # NULL /\ raw_len > 0) /\ At("inspect", "top")
  /\ UNCHANGED <<driver, object, thread, g_running, next_buf, locals>>

(* The write() loop to the encoder's stdin is over. *)
WriteFrame ==
  /\ At("write", "enqueue")
  /\ UNCHANGED <<driver, object, thread, g_running, next_buf, locals>>

(* Fault: the buffer is not given back. *)
EnqueueForgotten ==
  /\ At("enqueue", "top")
  /\ UNCHANGED <<driver, object, thread, g_running, next_buf, locals>>

enqueue ==
  /\ At("enqueue", "top")
  /\ QBUF(buf_idx)
  /\ UNCHANGED <<object, thread, g_running, next_buf, locals>>

-----------------------------------------------------------------------------
(* The main thread: stop() and release(), from stopFFmpeg().               *)

StopSignal ==
  /\ \/ streaming_  /\ At("stop", "stream_off") /\ capture_running_' = FALSE
     \/ ~streaming_ /\ At("stop", "release") /\ UNCHANGED capture_running_
  /\ UNCHANGED <<driver, buffers_, streaming_, slot, thread, g_running,
                 next_buf, locals>>

(* STREAMOFF takes every buffer out of the driver's queues. *)
StreamOff ==
  /\ At("stream_off", "join")
  /\ stream_on' = FALSE
  /\ queued' = {}
  /\ filled' = {}
  /\ streaming_' = FALSE
  /\ UNCHANGED <<device, content, made, buffers_, capture_running_, slot,
                 thread, g_running, next_buf, locals>>

(* Fault: the thread is not waited for. *)
JoinSkipped ==
  /\ At("join", "release")
  /\ frame_ready_' = FALSE
  /\ UNCHANGED <<driver, buffers_, streaming_, capture_running_, pending_data_,
                 pending_len_, pending_idx_, thread, g_running, next_buf, locals>>

Join ==
  /\ At("join", "release")
  /\ cpc = "exited"
  /\ frame_ready_' = FALSE
  /\ UNCHANGED <<driver, buffers_, streaming_, capture_running_, pending_data_,
                 pending_len_, pending_idx_, thread, g_running, next_buf, locals>>

(* munmap of every start that is neither null nor MAP_FAILED: after a      *)
(* half-way open() an unset one may pass that test, and an munmap of       *)
(* whatever it points at may bring the process down.                       *)
release ==
  /\ \/ At("release", "closed")
     \/ /\ \E b \in DOMAIN buffers_ : buffers_[b] = "unset"
        /\ At("release", "crashed")
  /\ buffers_' = <<>>
  /\ UNCHANGED <<driver, streaming_, capture_running_, slot, thread, g_running,
                 next_buf, locals>>

MainThread ==
  \/ OpenDevice \/ MapBuffer \/ MapFails \/ OpenOrStartFails \/ start
  \/ LeaveLoop \/ PollSlot \/ TakeIdx \/ TakeData \/ TakeLen \/ Consume
  \/ Inspect \/ WriteFrame \/ enqueue
  \/ StopSignal \/ StreamOff \/ Join \/ release

Driver == (\E b \in Bufs : FillBuffer(b)) \/ DeviceGone

Next == Driver \/ Signal \/ captureLoop \/ MainThread

Spec == Init /\ [][Next]_vars

(* The camera keeps filling the buffers it has, both threads are           *)
(* scheduled, and g_running is looked at; the loop need not end by itself, *)
(* and DQBUF need not fail while there is a camera that streams.           *)
FairSpec ==
  /\ Spec
  /\ WF_vars(\E b \in Bufs : FillBuffer(b))
  /\ WF_vars(captureLoop /\ ~(device /\ stream_on /\ DequeueFails))
  /\ WF_vars(MainThread /\ ~LeaveLoop)
  /\ WF_vars(~g_running /\ LeaveLoop)

-----------------------------------------------------------------------------
Flags ==
  /\ device \in BOOLEAN
  /\ stream_on \in BOOLEAN
  /\ streaming_ \in BOOLEAN
  /\ capture_running_ \in BOOLEAN
  /\ frame_ready_ \in BOOLEAN
  /\ g_running \in BOOLEAN

Fields ==
  /\ queued \subseteq Bufs /\ filled \subseteq Bufs
  /\ content \in [Bufs -> Frames]
  /\ made \in 0 .. MaxFrames
  /\ buffers_ \in {<<>>} \cup [Bufs -> {"unset", "mapped", "failed"}]
  /\ pending_data_ \in Bufs \cup {NULL} /\ pending_idx_ \in Bufs \cup {NULL}
  /\ pending_len_ \in Lengths \cup {0}
  /\ cpc \in {"none", "test", "dqbuf", "spin", "recheck",
              "data", "len", "idx", "publish", "exited"}
  /\ buf \in Bufs \cup {NULL} /\ bytesused \in Lengths \cup {0}
  /\ mpc \in {"open", "map", "top", "take_idx", "take_data", "take_len",
              "consume", "inspect", "write", "enqueue",
              "stop", "stream_off", "join", "release", "closed",
              "crashed"}
  /\ buf_idx \in Bufs \cup {NULL} /\ raw_data \in Bufs \cup {NULL}
  /\ raw_len \in Lengths \cup {0}
  /\ next_buf \in 0 .. BufCount
  /\ m_frame \in Frames

CameraTypeOK == Flags /\ Fields

(* Who has a buffer. *)
ThreadHolds == cpc \in {"spin", "recheck", "data", "len", "idx", "publish"}
MainHolds   == mpc \in {"inspect", "write", "enqueue"}

Owners(b) == {o \in {"queued", "filled", "thread", "slot", "main"} :
                \/ o = "queued" /\ b \in queued
                \/ o = "filled" /\ b \in filled
                \/ o = "thread" /\ ThreadHolds /\ buf = b
                \/ o = "slot" /\ frame_ready_ /\ pending_data_ = b
                \/ o = "main" /\ MainHolds /\ raw_data = b}

(* A buffer is in one place at a time: the driver never writes into one    *)
(* that a thread of the sender still reads.                                *)
ExclusiveBuffers == \A b \in Bufs : \A o, p \in Owners(b) : o = p

(* While the camera streams, the one way a buffer drops out of circulation *)
(* is a frame of length 0, which sendStream() neither writes nor returns.  *)
NoBufferLost ==
  (streaming_ /\ device) => \A b \in Bufs : Owners(b) # {} \/ content[b].len = 0

(* From dequeue() to enqueue() the main thread has the three fields of one *)
(* frame, and the bytes it writes to the encoder are still that frame's.   *)
FrameIntact ==
  MainHolds => /\ buf_idx = raw_data
               /\ raw_data \in Bufs
               /\ content[raw_data] = m_frame
               /\ raw_len = m_frame.len

(* Nothing is unmapped while the capture thread runs or a frame is read.   *)
MappedWhileUsed ==
  (cpc \notin {"none", "exited"} \/ MainHolds)
    => \A b \in Bufs : b \in DOMAIN buffers_ /\ buffers_[b] = "mapped"

Ending == mpc \in {"stream_off", "join", "release", "closed", "crashed"}

(* Frames reach the encoder loop through a two-place queue. *)
FramesWaiting == (IF frame_ready_ THEN <<content[pending_data_].id>> ELSE <<>>)
                   \o (IF ThreadHolds THEN <<content[buf].id>> ELSE <<>>)

Queue == INSTANCE FrameQueue WITH
  q <- FramesWaiting,
  last <- m_frame.id,
  closing <- Ending

ImplementsQueue == Queue!QueueSpec

(* The stream dries up only when the capture thread has ended, which one   *)
(* error of DQBUF is enough for and nobody notices, or when empty frames   *)
(* used up all the buffers: until then every frame the camera can make     *)
(* reaches the encoder loop, or the capture is closed.                     *)
Starved == streaming_ /\ \A b \in Bufs : Owners(b) = {} /\ content[b].len = 0

FramesFlow ==
  \A k \in 1 .. MaxFrames : <>(m_frame.id >= k \/ Ending \/ cpc = "exited" \/ Starved)

(* stop() and release() come to an end whatever the capture thread was     *)
(* doing, and after a signal they are reached; only a half-way open() may  *)
(* end otherwise.                                                          *)
StopTerminates ==
  (~g_running \/ mpc = "stop")
    ~> (mpc = "closed" \/ (mpc = "crashed" /\ next_buf < BufCount))

-----------------------------------------------------------------------------
(* The inductive invariant behind ExclusiveBuffers, FrameIntact and        *)
(* MappedWhileUsed.                                                        *)

InDriver == queued \cup filled

Placement ==
  /\ queued \cap filled = {}
  /\ ThreadHolds  => buf \in Bufs \ InDriver
  /\ frame_ready_ => pending_data_ \in Bufs \ InDriver
  /\ MainHolds    => raw_data \in Bufs \ InDriver
  /\ ThreadHolds /\ frame_ready_ => buf # pending_data_
  /\ ThreadHolds /\ MainHolds    => buf # raw_data
  /\ frame_ready_ /\ MainHolds   => pending_data_ # raw_data

(* The thread writes the slot only while it is empty, field by field. *)
SlotWriting ==
  /\ ThreadHolds => bytesused = content[buf].len
  /\ cpc = "recheck" /\ capture_running_ => ~frame_ready_
  /\ cpc \in {"data", "len", "idx", "publish"} => ~frame_ready_
  /\ cpc \in {"len", "idx", "publish"} => pending_data_ = buf
  /\ cpc \in {"idx", "publish"} => pending_len_ = bytesused
  /\ cpc = "publish" => pending_idx_ = buf
  /\ frame_ready_ => /\ pending_idx_ = pending_data_
                     /\ pending_len_ = content[pending_data_].len

(* The main thread reads the slot only while it is full. *)
SlotReading ==
  /\ mpc \in {"take_idx", "take_data", "take_len", "consume"} => frame_ready_
  /\ mpc \in {"take_data", "take_len", "consume"} => buf_idx = pending_idx_
  /\ mpc \in {"take_len", "consume"} => raw_data = pending_data_
  /\ mpc = "consume" => raw_len = pending_len_

Streaming ==
  mpc \in {"top", "take_idx", "take_data", "take_len", "consume", "inspect",
           "write", "enqueue"}

AllMapped == \A b \in Bufs : b \in DOMAIN buffers_ /\ buffers_[b] = "mapped"

(* The thread exists exactly while the buffers are mapped for it. *)
Lifecycle ==
  /\ mpc \in {"open", "map"} =>
       /\ cpc = "none" /\ filled = {} /\ ~frame_ready_
       /\ ~streaming_ /\ ~stream_on
       /\ queued \subseteq 0 .. next_buf - 1
  /\ mpc = "open" => next_buf = 0
  /\ mpc = "map" =>
       /\ buffers_ \in [Bufs -> {"unset", "mapped", "failed"}]
       /\ \A b \in 0 .. next_buf - 1 : buffers_[b] = "mapped"
  /\ Streaming => streaming_
  /\ streaming_ \/ mpc = "join" => AllMapped
  /\ mpc = "stop" /\ ~streaming_ => cpc = "none"
  /\ mpc = "stream_off" => streaming_
  /\ mpc = "join" => ~streaming_
  /\ mpc \in {"release", "closed", "crashed"} => cpc \in {"none", "exited"} /\ ~streaming_

CameraInv ==
  /\ CameraTypeOK
  /\ Placement
  /\ SlotWriting
  /\ SlotReading
  /\ FrameIntact
  /\ Lifecycle

(* What NoBufferLost needs besides: open() gives every buffer to the driver. *)
SupplyInv ==
  /\ NoBufferLost
  /\ mpc = "map" /\ device => 0 .. next_buf - 1 \subseteq queued

(* What ImplementsQueue needs besides: frames wait in the order in which   *)
(* they were made, and the thread gives one up only when told to stop.     *)
QueueInv ==
  /\ m_frame.id <= made
  /\ \A b \in filled : content[b].id <= made /\ m_frame.id < content[b].id
  /\ \A b, c \in filled : content[b].id = content[c].id => b = c
  /\ frame_ready_ =>
       /\ content[pending_data_].id <= made
       /\ m_frame.id < content[pending_data_].id
       /\ \A b \in filled : content[pending_data_].id < content[b].id
  /\ ThreadHolds =>
       /\ content[buf].id <= made
       /\ m_frame.id < content[buf].id
       /\ \A b \in filled : content[buf].id < content[b].id
  /\ ThreadHolds /\ frame_ready_ => content[pending_data_].id < content[buf].id
  /\ cpc # "none" /\ ~capture_running_ => Ending
=============================================================================
