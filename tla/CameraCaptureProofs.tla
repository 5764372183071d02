------------------------ MODULE CameraCaptureProofs ------------------------
(***************************************************************************)
(* For every number of buffers, every length and every failure the module  *)
(* allows: a buffer has one owner, a frame stays intact from dequeue() to  *)
(* enqueue(), and nothing in use is unmapped.                              *)
(***************************************************************************)
EXTENDS CameraCapture, SequenceTheorems, TLAPS

(* The constructor's state satisfies the invariant. *)
LEMMA CameraInitInv == Init => CameraInv
<1> SUFFICES ASSUME Init PROVE CameraInv
  OBVIOUS
<1> USE CameraAssumption DEF Init, NULL
<1>1. CameraTypeOK
  <2>1. Flags
    BY DEF Flags
  <2>2. NoFrame \in Frames
    BY DEF Frames, NoFrame
  <2>3. content \in [Bufs -> Frames] /\ m_frame \in Frames
    BY <2>2
  <2>4. Fields
    BY <2>3, SMTT(90) DEF Fields, Bufs
  <2> QED BY <2>1, <2>4 DEF CameraTypeOK
<1>2. Placement /\ FrameIntact
  BY DEF Placement, FrameIntact, ThreadHolds, MainHolds, InDriver
<1>3. SlotWriting /\ SlotReading
  BY DEF SlotWriting, SlotReading, ThreadHolds
<1>4. Lifecycle
  BY DEF Lifecycle, Streaming
<1> QED BY <1>1, <1>2, <1>3, <1>4 DEF CameraInv

LEMMA CameraStepInv == CameraInv /\ [Next]_vars => CameraInv'
<1> SUFFICES ASSUME CameraInv, [Next]_vars PROVE CameraInv'
  OBVIOUS
<1> USE CameraAssumption DEF CameraInv, driver, object, slot, thread, main,
        locals, At, Goto, QBUF, InDriver, ThreadHolds, MainHolds, Streaming,
        AllMapped, NULL, CameraTypeOK, Fields, Placement, SlotWriting, SlotReading,
        FrameIntact, Lifecycle, Bufs
<1>1. ASSUME NEW b \in Bufs, FillBuffer(b)
      PROVE  CameraInv'
  <2>1. CameraTypeOK'
    <3>1. Flags'
      BY <1>1, Zenon DEF FillBuffer, Flags
    <3>2. PICK len \in Lengths :
            content' = [content EXCEPT ![b] = [id |-> made + 1, len |-> len]]
      BY <1>1 DEF FillBuffer
    <3>3. made + 1 \in 0 .. MaxFrames /\ made' = made + 1
      BY <1>1 DEF FillBuffer
    <3>4. [id |-> made + 1, len |-> len] \in Frames
      BY <3>3 DEF Frames
    <3>5. content' \in [Bufs -> Frames]
      BY <3>2, <3>4
    <3>6. Fields'
      BY <1>1, <3>3, <3>5, SMTT(90) DEF FillBuffer
    <3> QED BY <3>1, <3>6
  <2>2. Placement'
    BY <1>1, SMTT(90) DEF FillBuffer
  <2>3. SlotWriting' /\ SlotReading'
    BY <1>1, SMTT(90) DEF FillBuffer
  <2>4. FrameIntact'
    BY <1>1, SMTT(90) DEF FillBuffer
  <2>5. Lifecycle'
    BY <1>1, SMTT(90) DEF FillBuffer
  <2> QED BY <2>1, <2>2, <2>3, <2>4, <2>5
<1>2. CASE DeviceGone
  <2>1. CameraTypeOK'
    <3>1. Flags'
      BY <1>2, Zenon DEF DeviceGone, Flags
    <3>2. Fields'
      BY <1>2, SMTT(90) DEF DeviceGone, Frames, NoFrame
    <3> QED BY <3>1, <3>2
  <2>2. Placement' /\ SlotWriting' /\ SlotReading' /\ FrameIntact' /\ Lifecycle'
    BY <1>2, SMTT(60) DEF DeviceGone
  <2> QED BY <2>1, <2>2
<1>3. CASE Signal
  <2>1. CameraTypeOK'
    <3>1. Flags'
      BY <1>3, Zenon DEF Signal, Flags
    <3>2. Fields'
      BY <1>3, SMTT(90) DEF Signal, Frames, NoFrame
    <3> QED BY <3>1, <3>2
  <2>2. Placement' /\ SlotWriting' /\ SlotReading' /\ FrameIntact' /\ Lifecycle'
    BY <1>3, SMTT(60) DEF Signal
  <2> QED BY <2>1, <2>2
<1>4. CASE TestRunning
  <2>1. CameraTypeOK'
    <3>1. Flags'
      BY <1>4, Zenon DEF TestRunning, Flags
    <3>2. Fields'
      BY <1>4, SMTT(90) DEF TestRunning, Frames, NoFrame
    <3> QED BY <3>1, <3>2
  <2>2. Placement' /\ SlotWriting' /\ SlotReading' /\ FrameIntact' /\ Lifecycle'
    BY <1>4, SMTT(60) DEF TestRunning
  <2> QED BY <2>1, <2>2
<1>5. ASSUME NEW b \in Bufs, DequeueFilled(b)
      PROVE  CameraInv'
  <2>1. CameraTypeOK'
    <3>1. Flags'
      BY <1>5, Zenon DEF DequeueFilled, Flags
    <3>2. Fields'
      BY <1>5, SMTT(90) DEF DequeueFilled, Frames, NoFrame
    <3> QED BY <3>1, <3>2
  <2>2. Placement' /\ SlotWriting' /\ SlotReading' /\ FrameIntact' /\ Lifecycle'
    BY <1>5, SMTT(60) DEF DequeueFilled
  <2> QED BY <2>1, <2>2
<1>6. CASE DequeueFails
  <2>1. CameraTypeOK'
    <3>1. Flags'
      BY <1>6, Zenon DEF DequeueFails, Flags
    <3>2. Fields'
      BY <1>6, SMTT(90) DEF DequeueFails, Frames, NoFrame
    <3> QED BY <3>1, <3>2
  <2>2. Placement' /\ SlotWriting' /\ SlotReading' /\ FrameIntact' /\ Lifecycle'
    BY <1>6, SMTT(60) DEF DequeueFails
  <2> QED BY <2>1, <2>2
<1>7. CASE SlotFree
  <2>1. CameraTypeOK'
    <3>1. Flags'
      BY <1>7, Zenon DEF SlotFree, Flags
    <3>2. Fields'
      BY <1>7, SMTT(90) DEF SlotFree, Frames, NoFrame
    <3> QED BY <3>1, <3>2
  <2>2. Placement' /\ SlotWriting' /\ SlotReading' /\ FrameIntact' /\ Lifecycle'
    BY <1>7, SMTT(60) DEF SlotFree
  <2> QED BY <2>1, <2>2
<1>8. CASE StillRunning
  <2>1. CameraTypeOK'
    <3>1. Flags'
      BY <1>8, Zenon DEF StillRunning, Flags
    <3>2. Fields'
      BY <1>8, SMTT(90) DEF StillRunning, Frames, NoFrame
    <3> QED BY <3>1, <3>2
  <2>2. Placement' /\ SlotWriting' /\ SlotReading' /\ FrameIntact' /\ Lifecycle'
    BY <1>8, SMTT(60) DEF StillRunning
  <2> QED BY <2>1, <2>2
<1>9. CASE RequeueAndExit
  <2>1. CameraTypeOK'
    <3>1. Flags'
      BY <1>9, Zenon DEF RequeueAndExit, Flags
    <3>2. Fields'
      BY <1>9, SMTT(90) DEF RequeueAndExit, Frames, NoFrame
    <3> QED BY <3>1, <3>2
  <2>2. Placement' /\ SlotWriting' /\ SlotReading' /\ FrameIntact' /\ Lifecycle'
    BY <1>9, SMTT(60) DEF RequeueAndExit
  <2> QED BY <2>1, <2>2
<1>10. CASE WriteData
  <2>1. CameraTypeOK'
    <3>1. Flags'
      BY <1>10, Zenon DEF WriteData, Flags
    <3>2. Fields'
      BY <1>10, SMTT(90) DEF WriteData, Frames, NoFrame
    <3> QED BY <3>1, <3>2
  <2>2. Placement' /\ SlotWriting' /\ SlotReading' /\ FrameIntact' /\ Lifecycle'
    BY <1>10, SMTT(60) DEF WriteData
  <2> QED BY <2>1, <2>2
<1>11. CASE WriteLen
  <2>1. CameraTypeOK'
    <3>1. Flags'
      BY <1>11, Zenon DEF WriteLen, Flags
    <3>2. Fields'
      BY <1>11, SMTT(90) DEF WriteLen, Frames, NoFrame
    <3> QED BY <3>1, <3>2
  <2>2. Placement' /\ SlotWriting' /\ SlotReading' /\ FrameIntact' /\ Lifecycle'
    BY <1>11, SMTT(60) DEF WriteLen
  <2> QED BY <2>1, <2>2
<1>12. CASE WriteIdx
  <2>1. CameraTypeOK'
    <3>1. Flags'
      BY <1>12, Zenon DEF WriteIdx, Flags
    <3>2. Fields'
      BY <1>12, SMTT(90) DEF WriteIdx, Frames, NoFrame
    <3> QED BY <3>1, <3>2
  <2>2. Placement' /\ SlotWriting' /\ SlotReading' /\ FrameIntact' /\ Lifecycle'
    BY <1>12, SMTT(60) DEF WriteIdx
  <2> QED BY <2>1, <2>2
<1>13. CASE Publish
  <2>1. CameraTypeOK'
    <3>1. Flags'
      BY <1>13, Zenon DEF Publish, Flags
    <3>2. Fields'
      BY <1>13, SMTT(90) DEF Publish, Frames, NoFrame
    <3> QED BY <3>1, <3>2
  <2>2. Placement' /\ SlotWriting' /\ SlotReading' /\ FrameIntact' /\ Lifecycle'
    BY <1>13, SMTT(60) DEF Publish
  <2> QED BY <2>1, <2>2
<1>14. CASE OpenDevice
  <2>1. CameraTypeOK'
    <3>1. Flags'
      BY <1>14, Zenon DEF OpenDevice, Flags
    <3>2. Fields'
      BY <1>14, SMTT(90) DEF OpenDevice, Frames, NoFrame
    <3> QED BY <3>1, <3>2
  <2>2. Placement' /\ SlotWriting' /\ SlotReading' /\ FrameIntact' /\ Lifecycle'
    BY <1>14, SMTT(60) DEF OpenDevice
  <2> QED BY <2>1, <2>2
<1>15. CASE MapBuffer
  <2>1. CameraTypeOK'
    <3>1. Flags'
      BY <1>15, Zenon DEF MapBuffer, Flags
    <3>2. Fields'
      BY <1>15, SMTT(90) DEF MapBuffer, Frames, NoFrame
    <3> QED BY <3>1, <3>2
  <2>2. Placement' /\ SlotWriting' /\ SlotReading' /\ FrameIntact' /\ Lifecycle'
    BY <1>15, SMTT(60) DEF MapBuffer
  <2> QED BY <2>1, <2>2
<1>16. CASE MapFails
  <2>1. CameraTypeOK'
    <3>1. Flags'
      BY <1>16, Zenon DEF MapFails, Flags
    <3>2. buffers_' \in [Bufs -> {"unset", "mapped", "failed"}]
      BY <1>16 DEF MapFails
    <3>3. Fields'
      BY <1>16, <3>2, SMTT(90) DEF MapFails, Frames, NoFrame
    <3> QED BY <3>1, <3>3
  <2>2. Placement' /\ SlotWriting' /\ SlotReading' /\ FrameIntact' /\ Lifecycle'
    BY <1>16, SMTT(60) DEF MapFails
  <2> QED BY <2>1, <2>2
<1>17. CASE OpenOrStartFails
  <2>1. CameraTypeOK'
    <3>1. Flags'
      BY <1>17, Zenon DEF OpenOrStartFails, Flags
    <3>2. Fields'
      BY <1>17, SMTT(90) DEF OpenOrStartFails, Frames, NoFrame
    <3> QED BY <3>1, <3>2
  <2>2. Placement' /\ SlotWriting' /\ SlotReading' /\ FrameIntact' /\ Lifecycle'
    BY <1>17, SMTT(60) DEF OpenOrStartFails
  <2> QED BY <2>1, <2>2
<1>18. CASE start
  <2>1. CameraTypeOK'
    <3>1. Flags'
      BY <1>18, Zenon DEF start, Flags
    <3>2. Fields'
      BY <1>18, SMTT(90) DEF start, Frames, NoFrame
    <3> QED BY <3>1, <3>2
  <2>2. Placement' /\ SlotWriting' /\ SlotReading' /\ FrameIntact' /\ Lifecycle'
    BY <1>18, SMTT(60) DEF start
  <2> QED BY <2>1, <2>2
<1>19. CASE LeaveLoop
  <2>1. CameraTypeOK'
    <3>1. Flags'
      BY <1>19, Zenon DEF LeaveLoop, Flags
    <3>2. Fields'
      BY <1>19, SMTT(90) DEF LeaveLoop, Frames, NoFrame
    <3> QED BY <3>1, <3>2
  <2>2. Placement' /\ SlotWriting' /\ SlotReading' /\ FrameIntact' /\ Lifecycle'
    BY <1>19, SMTT(60) DEF LeaveLoop
  <2> QED BY <2>1, <2>2
<1>20. CASE PollSlot
  <2>1. CameraTypeOK'
    <3>1. Flags'
      BY <1>20, Zenon DEF PollSlot, Flags
    <3>2. Fields'
      BY <1>20, SMTT(90) DEF PollSlot, Frames, NoFrame
    <3> QED BY <3>1, <3>2
  <2>2. Placement' /\ SlotWriting' /\ SlotReading' /\ FrameIntact' /\ Lifecycle'
    BY <1>20, SMTT(60) DEF PollSlot
  <2> QED BY <2>1, <2>2
<1>21. CASE TakeIdx
  <2>1. CameraTypeOK'
    <3>1. Flags'
      BY <1>21, Zenon DEF TakeIdx, Flags
    <3>2. Fields'
      BY <1>21, SMTT(90) DEF TakeIdx, Frames, NoFrame
    <3> QED BY <3>1, <3>2
  <2>2. Placement' /\ SlotWriting' /\ SlotReading' /\ FrameIntact' /\ Lifecycle'
    BY <1>21, SMTT(60) DEF TakeIdx
  <2> QED BY <2>1, <2>2
<1>22. CASE TakeData
  <2>1. CameraTypeOK'
    <3>1. Flags'
      BY <1>22, Zenon DEF TakeData, Flags
    <3>2. Fields'
      BY <1>22, SMTT(90) DEF TakeData, Frames, NoFrame
    <3> QED BY <3>1, <3>2
  <2>2. Placement' /\ SlotWriting' /\ SlotReading' /\ FrameIntact' /\ Lifecycle'
    BY <1>22, SMTT(60) DEF TakeData
  <2> QED BY <2>1, <2>2
<1>23. CASE TakeLen
  <2>1. CameraTypeOK'
    <3>1. Flags'
      BY <1>23, Zenon DEF TakeLen, Flags
    <3>2. Fields'
      BY <1>23, SMTT(90) DEF TakeLen, Frames, NoFrame
    <3> QED BY <3>1, <3>2
  <2>2. Placement' /\ SlotWriting' /\ SlotReading' /\ FrameIntact' /\ Lifecycle'
    BY <1>23, SMTT(60) DEF TakeLen
  <2> QED BY <2>1, <2>2
<1>24. CASE Consume
  <2>1. CameraTypeOK'
    <3>1. Flags'
      BY <1>24, Zenon DEF Consume, Flags
    <3>2. Fields'
      BY <1>24, SMTT(90) DEF Consume, Frames, NoFrame
    <3> QED BY <3>1, <3>2
  <2>2. Placement' /\ SlotWriting' /\ SlotReading' /\ FrameIntact' /\ Lifecycle'
    BY <1>24, SMTT(60) DEF Consume
  <2> QED BY <2>1, <2>2
<1>25. CASE Inspect
  <2>1. CameraTypeOK'
    <3>1. Flags'
      BY <1>25, Zenon DEF Inspect, Flags
    <3>2. Fields'
      BY <1>25, SMTT(90) DEF Inspect, Frames, NoFrame
    <3> QED BY <3>1, <3>2
  <2>2. Placement' /\ SlotWriting' /\ SlotReading' /\ FrameIntact' /\ Lifecycle'
    BY <1>25, SMTT(60) DEF Inspect
  <2> QED BY <2>1, <2>2
<1>26. CASE WriteFrame
  <2>1. CameraTypeOK'
    <3>1. Flags'
      BY <1>26, Zenon DEF WriteFrame, Flags
    <3>2. Fields'
      BY <1>26, SMTT(90) DEF WriteFrame, Frames, NoFrame
    <3> QED BY <3>1, <3>2
  <2>2. Placement' /\ SlotWriting' /\ SlotReading' /\ FrameIntact' /\ Lifecycle'
    BY <1>26, SMTT(60) DEF WriteFrame
  <2> QED BY <2>1, <2>2
<1>27. CASE enqueue
  <2>1. CameraTypeOK'
    <3>1. Flags'
      BY <1>27, Zenon DEF enqueue, Flags
    <3>2. Fields'
      BY <1>27, SMTT(90) DEF enqueue, Frames, NoFrame
    <3> QED BY <3>1, <3>2
  <2>2. Placement' /\ SlotWriting' /\ SlotReading' /\ FrameIntact' /\ Lifecycle'
    BY <1>27, SMTT(60) DEF enqueue
  <2> QED BY <2>1, <2>2
<1>28. CASE StopSignal
  <2>1. CameraTypeOK'
    <3>1. Flags'
      BY <1>28, Zenon DEF StopSignal, Flags
    <3>2. Fields'
      BY <1>28, SMTT(90) DEF StopSignal, Frames, NoFrame
    <3> QED BY <3>1, <3>2
  <2>2. Placement' /\ SlotWriting' /\ SlotReading' /\ FrameIntact' /\ Lifecycle'
    BY <1>28, SMTT(60) DEF StopSignal
  <2> QED BY <2>1, <2>2
<1>29. CASE StreamOff
  <2>1. CameraTypeOK'
    <3>1. Flags'
      BY <1>29, Zenon DEF StreamOff, Flags
    <3>2. Fields'
      BY <1>29, SMTT(90) DEF StreamOff, Frames, NoFrame
    <3> QED BY <3>1, <3>2
  <2>2. Placement' /\ SlotWriting' /\ SlotReading' /\ FrameIntact' /\ Lifecycle'
    BY <1>29, SMTT(60) DEF StreamOff
  <2> QED BY <2>1, <2>2
<1>30. CASE Join
  <2>1. CameraTypeOK'
    <3>1. Flags'
      BY <1>30, Zenon DEF Join, Flags
    <3>2. Fields'
      BY <1>30, SMTT(90) DEF Join, Frames, NoFrame
    <3> QED BY <3>1, <3>2
  <2>2. Placement' /\ SlotWriting' /\ SlotReading' /\ FrameIntact' /\ Lifecycle'
    BY <1>30, SMTT(60) DEF Join
  <2> QED BY <2>1, <2>2
<1>31. CASE release
  <2>1. CameraTypeOK'
    <3>1. Flags'
      BY <1>31, Zenon DEF release, Flags
    <3>2. Fields'
      BY <1>31, SMTT(90) DEF release, Frames, NoFrame
    <3> QED BY <3>1, <3>2
  <2>2. Placement' /\ SlotWriting' /\ SlotReading' /\ FrameIntact' /\ Lifecycle'
    BY <1>31, SMTT(60) DEF release
  <2> QED BY <2>1, <2>2
<1>32. CASE UNCHANGED vars
  <2>1. Flags'
    BY <1>32, Zenon DEF vars, Flags
  <2>2. Fields'
    BY <1>32, SMTT(60) DEF vars, CameraTypeOK, Fields
  <2>3. Placement' /\ SlotWriting' /\ SlotReading' /\ FrameIntact' /\ Lifecycle'
    BY <1>32, SMTT(60) DEF vars, Placement, SlotWriting, SlotReading, FrameIntact,
       Lifecycle
  <2> QED BY <2>1, <2>2, <2>3 DEF CameraTypeOK
<1> QED BY <1>1, <1>2, <1>3, <1>4, <1>5, <1>6, <1>7, <1>8, <1>9, <1>10, <1>11, <1>12, <1>13, <1>14, <1>15, <1>16, <1>17, <1>18, <1>19, <1>20, <1>21, <1>22, <1>23, <1>24, <1>25, <1>26, <1>27, <1>28, <1>29, <1>30, <1>31, <1>32 DEF Next, Driver, captureLoop, MainThread

(* One owner per buffer follows from where the buffers are. *)
LEMMA PlacementIsExclusive == CameraInv => ExclusiveBuffers
<1> SUFFICES ASSUME CameraInv,
                    NEW b \in Bufs, NEW o \in Owners(b), NEW p \in Owners(b)
             PROVE  o = p
  BY DEF ExclusiveBuffers
<1> QED BY DEF CameraInv, Placement, Owners, InDriver

THEOREM CameraSafety == Spec => []CameraInv
BY CameraInitInv, CameraStepInv, PTL DEF Spec

(* The driver, the capture thread, the slot and the main thread never      *)
(* share a buffer (DQBUF/QBUF discipline of captureLoop() and enqueue()).  *)
THEOREM BuffersHaveOneOwner == Spec => []ExclusiveBuffers
BY CameraSafety, PlacementIsExclusive, PTL

(* The frame written to the encoder is the one dequeue() announced, whole  *)
(* and with its own index and length.                                      *)
THEOREM FramesStayIntact == Spec => []FrameIntact
<1>1. CameraInv => FrameIntact
  BY DEF CameraInv
<1> QED BY <1>1, CameraSafety, PTL

(* stop() joins the capture thread before release() unmaps the buffers.    *)
THEOREM BuffersMappedWhileUsed == Spec => []MappedWhileUsed
<1>1. CameraInv => MappedWhileUsed
  <2> SUFFICES ASSUME CameraInv,
                      cpc \notin {"none", "exited"} \/ MainHolds
               PROVE  AllMapped
    BY DEF MappedWhileUsed, AllMapped
  <2>1. mpc \notin {"open", "map", "release", "closed"}
    BY DEF CameraInv, Lifecycle, MainHolds
  <2>2. streaming_ \/ mpc = "join"
    BY <2>1 DEF CameraInv, CameraTypeOK, Fields, Lifecycle, Streaming, MainHolds
  <2> QED BY <2>2 DEF CameraInv, Lifecycle
<1> QED BY <1>1, CameraSafety, PTL

-----------------------------------------------------------------------------
(* No buffer drops out of circulation. *)

HasOwner(b) == \/ b \in queued \cup filled
               \/ ThreadHolds /\ buf = b
               \/ frame_ready_ /\ pending_data_ = b
               \/ MainHolds /\ raw_data = b

Supplied ==
  /\ streaming_ /\ device => \A b \in Bufs : HasOwner(b) \/ content[b].len = 0
  /\ mpc = "map" /\ device => 0 .. next_buf - 1 \subseteq queued

LEMMA SupplyIs == (SupplyInv <=> Supplied) /\ (SupplyInv' <=> Supplied')
<1>1. \A b : Owners(b) # {} <=> HasOwner(b)
  BY DEF Owners, HasOwner
<1>2. \A b : Owners(b)' # {} <=> HasOwner(b)'
  BY DEF Owners, HasOwner
<1> QED BY <1>1, <1>2 DEF NoBufferLost, SupplyInv, Supplied

(* A step keeps the supply if a buffer that loses its owner has an empty   *)
(* frame. *)
LEMMA SupplyKept ==
  ASSUME Supplied, streaming_' => streaming_, device' => device, mpc' # "map",
         UNCHANGED content,
         \A b \in Bufs : device /\ streaming_ /\ HasOwner(b) => HasOwner(b)' \/ content[b].len = 0
  PROVE  Supplied'
BY DEF Supplied

LEMMA SupplyStep ==
  ASSUME CameraInv, Supplied, [Next]_vars
  PROVE  Supplied'
<1> USE CameraAssumption
    DEF driver, object, slot, thread, main, locals, At, Goto, QBUF, NULL, Bufs
<1>1. CameraTypeOK /\ Placement /\ SlotWriting /\ SlotReading /\ FrameIntact /\ Lifecycle
  BY DEF CameraInv
<1>2. /\ streaming_ /\ device => \A b \in Bufs : HasOwner(b) \/ content[b].len = 0
      /\ mpc = "map" /\ device => 0 .. next_buf - 1 \subseteq queued
  BY DEF Supplied
<1>3. /\ cpc # "none" => mpc # "map"
      /\ mpc = "map" => ~streaming_
      /\ device \in BOOLEAN /\ streaming_ \in BOOLEAN
  BY <1>1 DEF Lifecycle, CameraTypeOK, Flags
<1>4. ASSUME NEW b \in Bufs, FillBuffer(b) PROVE Supplied'
  <2>1. b \in queued /\ mpc # "map" /\ mpc' = mpc
    BY <1>1, <1>4 DEF FillBuffer, Lifecycle
  <2>2. \A c \in Bufs : c # b => content'[c] = content[c]
    BY <1>1, <1>4 DEF FillBuffer, CameraTypeOK, Fields
  <2>3. streaming_' = streaming_ /\ device' = device
    BY <1>4 DEF FillBuffer
  <2>4. HasOwner(b)' /\ \A c \in Bufs : c # b => (HasOwner(c) => HasOwner(c)')
    BY <1>4 DEF FillBuffer, HasOwner, ThreadHolds, MainHolds
  <2> QED BY <1>2, <2>1, <2>2, <2>3, <2>4 DEF Supplied
<1>5. CASE DeviceGone
  BY <1>5 DEF DeviceGone, Supplied
<1>6. CASE TestRunning \/ DequeueFails \/ SlotFree \/ StillRunning
  <2>1. UNCHANGED <<driver, object, main, buf>> /\ (ThreadHolds => ThreadHolds') /\ mpc # "map"
    BY <1>3, <1>6 DEF TestRunning, DequeueFails, SlotFree, StillRunning, ThreadHolds
  <2> QED BY <2>1, SupplyKept DEF HasOwner, MainHolds
<1>7. CASE WriteData \/ WriteLen \/ WriteIdx
  <2>1. UNCHANGED <<driver, streaming_, main, buf, frame_ready_>> /\ ThreadHolds' /\ ThreadHolds
        /\ mpc # "map" /\ ~frame_ready_
    BY <1>1, <1>3, <1>7 DEF WriteData, WriteLen, WriteIdx, ThreadHolds, SlotWriting
  <2> QED BY <2>1, SupplyKept DEF HasOwner, MainHolds
<1>8. ASSUME NEW b \in Bufs, DequeueFilled(b) PROVE Supplied'
  <2>1. /\ UNCHANGED <<device, content, queued, object, main>>
        /\ ThreadHolds' /\ ~ThreadHolds /\ buf' = b /\ filled' = filled \ {b} /\ mpc # "map"
    BY <1>3, <1>8 DEF DequeueFilled, ThreadHolds
  <2> QED BY <2>1, SupplyKept DEF HasOwner, MainHolds
<1>9. CASE RequeueAndExit
  <2>1. /\ UNCHANGED <<device, content, filled, object, main>> /\ mpc # "map"
        /\ queued' = IF device THEN queued \cup {buf} ELSE queued
    BY <1>3, <1>9 DEF RequeueAndExit
  <2> QED BY <2>1, SupplyKept DEF HasOwner, MainHolds
<1>10. CASE Publish
  <2>1. /\ UNCHANGED <<driver, streaming_, main, pending_data_>> /\ mpc # "map"
        /\ frame_ready_' /\ ~frame_ready_ /\ pending_data_ = buf
    BY <1>1, <1>3, <1>10 DEF Publish, SlotWriting
  <2> QED BY <2>1, SupplyKept DEF HasOwner, MainHolds
<1>11. CASE Signal
  <2>1. UNCHANGED <<driver, object, buf, mpc, raw_data, next_buf>> /\ (ThreadHolds => ThreadHolds')
    BY <1>11 DEF Signal, ThreadHolds
  <2> QED BY <1>2, <2>1 DEF Supplied, HasOwner, MainHolds
<1>12. CASE OpenDevice
  <2>1. 0 .. next_buf - 1 = {} /\ next_buf' = next_buf /\ streaming_' = streaming_ /\ ~streaming_
    BY <1>1, <1>12 DEF OpenDevice, Lifecycle
  <2> QED BY <2>1 DEF Supplied
<1>13. CASE MapBuffer
  <2>1. /\ device' = device /\ ~streaming_' /\ mpc = "map" /\ next_buf' = next_buf + 1
        /\ next_buf \in Nat
        /\ device => queued' = queued \cup {next_buf}
    BY <1>1, <1>3, <1>13 DEF MapBuffer, CameraTypeOK, Fields
  <2>2. \A i \in 0 .. (next_buf + 1) - 1 : i \in 0 .. next_buf - 1 \/ i = next_buf
    BY <2>1
  <2> QED BY <1>2, <2>1, <2>2 DEF Supplied
<1>14. CASE MapFails \/ OpenOrStartFails \/ StreamOff \/ Join \/ release
  <2>1. ~streaming_' /\ mpc' # "map"
    BY <1>1, <1>14 DEF MapFails, OpenOrStartFails, StreamOff, Join, release, Lifecycle
  <2> QED BY <2>1 DEF Supplied
<1>15. CASE start
  <2>1. device => Bufs \subseteq queued
    BY <1>2, <1>15 DEF start
  <2>2. UNCHANGED <<queued, device>> /\ mpc' = "top"
    BY <1>15 DEF start
  <2> QED BY <2>1, <2>2 DEF Supplied, HasOwner
<1>16. CASE LeaveLoop \/ PollSlot \/ TakeIdx \/ TakeData \/ TakeLen
  <2>1. UNCHANGED <<driver, object, thread>> /\ mpc' # "map" /\ ~MainHolds
    BY <1>16 DEF LeaveLoop, PollSlot, TakeIdx, TakeData, TakeLen, MainHolds
  <2> QED BY <2>1, SupplyKept DEF HasOwner, ThreadHolds
<1>17. CASE WriteFrame
  <2>1. UNCHANGED <<driver, object, thread, raw_data>> /\ mpc' # "map" /\ MainHolds'
    BY <1>17 DEF WriteFrame, MainHolds
  <2> QED BY <2>1, SupplyKept DEF HasOwner, ThreadHolds
<1>18. CASE StopSignal
  <2>1. UNCHANGED <<driver, streaming_, slot, thread>> /\ mpc' # "map" /\ ~MainHolds
    BY <1>18 DEF StopSignal, MainHolds
  <2> QED BY <2>1, SupplyKept DEF HasOwner, ThreadHolds
<1>19. CASE Consume
  <2>1. /\ UNCHANGED <<driver, streaming_, thread, pending_data_, raw_data>> /\ mpc' # "map"
        /\ MainHolds' /\ ~MainHolds /\ raw_data = pending_data_
    BY <1>1, <1>19 DEF Consume, MainHolds, SlotReading
  <2> QED BY <2>1, SupplyKept DEF HasOwner, ThreadHolds
<1>20. CASE Inspect
  <2>1. UNCHANGED <<driver, object, thread, raw_data>> /\ mpc' # "map" /\ MainHolds
    BY <1>20 DEF Inspect, MainHolds
  <2>2. MainHolds' \/ content[raw_data].len = 0
    <3>1. raw_data \in Bufs /\ content[raw_data].len = raw_len /\ raw_len \in Nat
      BY <1>1, <2>1 DEF FrameIntact, CameraTypeOK, Fields
    <3>2. mpc' = "write" \/ ~(raw_data # NULL /\ raw_len > 0)
      BY <1>20 DEF Inspect
    <3> QED BY <3>1, <3>2 DEF MainHolds
  <2> QED BY <2>1, <2>2, SupplyKept DEF HasOwner, ThreadHolds
<1>21. CASE enqueue
  <2>1. /\ UNCHANGED <<device, content, filled, object, thread, raw_data>> /\ mpc' # "map"
        /\ queued' = IF device THEN queued \cup {buf_idx} ELSE queued
        /\ buf_idx = raw_data
    BY <1>1, <1>21 DEF enqueue, MainHolds, FrameIntact
  <2> QED BY <2>1, SupplyKept DEF HasOwner, ThreadHolds
<1>22. CASE UNCHANGED vars
  BY <1>2, <1>22 DEF vars, Supplied, HasOwner, ThreadHolds, MainHolds
<1> QED BY <1>4, <1>5, <1>6, <1>7, <1>8, <1>9, <1>10, <1>11, <1>12, <1>13, <1>14, <1>15, <1>16,
           <1>17, <1>18, <1>19, <1>20, <1>21, <1>22 DEF Next, Driver, captureLoop, MainThread

(* While the camera streams, a buffer that nobody has held an empty frame: *)
(* sendStream() returns every other one.                                   *)
THEOREM BuffersCirculate == Spec => []NoBufferLost
<1>1. Init => SupplyInv
  BY DEF Init, SupplyInv, NoBufferLost
<1>2. CameraInv /\ SupplyInv /\ [Next]_vars => SupplyInv'
  BY SupplyIs, SupplyStep
<1>3. SupplyInv => NoBufferLost
  BY DEF SupplyInv
<1> QED BY <1>1, <1>2, <1>3, CameraSafety, PTL DEF Spec

-----------------------------------------------------------------------------
(* The frames come in order, and none is given up without need. *)

LEMMA QueueInvStep ==
  ASSUME CameraInv, QueueInv, [Next]_vars
  PROVE  QueueInv'
<1> USE CameraAssumption
    DEF driver, object, slot, thread, main, locals, At, Goto, QBUF, NULL, Bufs
<1>1. CameraTypeOK /\ Placement /\ SlotWriting /\ SlotReading /\ FrameIntact /\ Lifecycle
  BY DEF CameraInv
<1>2. /\ cpc = "none" \/ mpc \notin {"open", "map"}
      /\ made \in Nat /\ \A b \in Bufs : content[b].id \in Nat
      /\ m_frame.id \in Nat
      /\ frame_ready_ => pending_data_ \in Bufs /\ pending_data_ \notin filled \cup queued
      /\ ThreadHolds => buf \in Bufs /\ buf \notin filled \cup queued
      /\ filled \subseteq Bufs
  BY <1>1 DEF Lifecycle, CameraTypeOK, Fields, Frames, Placement, InDriver
<1>3. ASSUME NEW b \in Bufs, FillBuffer(b) PROVE QueueInv'
  <2>1. /\ b \in queued /\ b \notin filled /\ filled' = filled \cup {b} /\ made' = made + 1
        /\ UNCHANGED <<m_frame, frame_ready_, pending_data_, cpc, buf, capture_running_, mpc>>
    BY <1>1, <1>3 DEF FillBuffer, Placement
  <2>2. /\ content'[b].id = made + 1
        /\ \A c \in Bufs : c # b => content'[c] = content[c]
    BY <1>1, <1>3 DEF FillBuffer, CameraTypeOK, Fields
  <2>3. /\ frame_ready_ => content'[pending_data_] = content[pending_data_] /\ pending_data_ # b
        /\ ThreadHolds => content'[buf] = content[buf] /\ buf # b
    BY <1>2, <2>1, <2>2
  <2>4. \A c \in filled : content'[c] = content[c] /\ content[c].id <= made
    BY <1>2, <2>1, <2>2 DEF QueueInv
  <2> QED BY <1>2, <2>1, <2>2, <2>3, <2>4 DEF QueueInv, ThreadHolds, Ending
<1>4. ASSUME NEW b \in Bufs, DequeueFilled(b) PROVE QueueInv'
  <2>1. /\ UNCHANGED <<m_frame, content, made, frame_ready_, pending_data_, capture_running_, mpc>>
        /\ buf' = b /\ b \in filled /\ filled' = filled \ {b} /\ cpc # "none"
        /\ \A c \in filled : content[b].id <= content[c].id
    BY <1>4 DEF DequeueFilled
  <2>2. \A c \in filled \ {b} : content[b].id < content[c].id
    BY <1>2, <2>1 DEF QueueInv
  <2> QED BY <1>2, <2>1, <2>2 DEF QueueInv, Ending
<1>5. CASE \/ TestRunning \/ DequeueFails \/ SlotFree \/ StillRunning \/ RequeueAndExit
           \/ WriteData \/ WriteLen \/ WriteIdx
  <2>1. /\ UNCHANGED <<m_frame, content, made, filled, frame_ready_, capture_running_, mpc, buf>>
        /\ ThreadHolds' => ThreadHolds
        /\ cpc # "none"
        /\ frame_ready_ => pending_data_' = pending_data_
    BY <1>1, <1>5 DEF TestRunning, DequeueFails, SlotFree, StillRunning, RequeueAndExit,
                      WriteData, WriteLen, WriteIdx, ThreadHolds, SlotWriting
  <2> QED BY <1>2, <2>1 DEF QueueInv, Ending
<1>6. CASE Publish
  <2>1. /\ UNCHANGED <<m_frame, content, made, filled, pending_data_, capture_running_, mpc>>
        /\ ThreadHolds /\ ~ThreadHolds' /\ pending_data_ = buf /\ cpc # "none"
    BY <1>1, <1>6 DEF Publish, ThreadHolds, SlotWriting
  <2> QED BY <1>2, <2>1 DEF QueueInv, Ending
<1>7. CASE Consume
  <2>1. /\ UNCHANGED <<content, made, filled, capture_running_, cpc, buf>>
        /\ frame_ready_ /\ ~frame_ready_' /\ m_frame' = content[pending_data_]
        /\ mpc = "consume"
    BY <1>1, <1>7 DEF Consume, SlotReading
  <2> QED BY <1>2, <2>1 DEF QueueInv, ThreadHolds, Ending
<1>8. CASE start
  <2>1. filled = {} /\ ~frame_ready_ /\ capture_running_' /\ ~ThreadHolds'
        /\ UNCHANGED <<m_frame, made, content, filled, frame_ready_>>
    BY <1>1, <1>8 DEF start, Lifecycle, ThreadHolds
  <2> QED BY <1>2, <2>1 DEF QueueInv
<1>9. CASE StreamOff \/ Join
  <2>1. /\ UNCHANGED <<m_frame, made, content, cpc, buf, capture_running_, pending_data_>>
        /\ filled' \subseteq filled /\ (frame_ready_' => frame_ready_) /\ Ending'
    BY <1>9 DEF StreamOff, Join, Ending
  <2> QED BY <1>2, <2>1 DEF QueueInv, ThreadHolds
<1>10. CASE StopSignal
  <2>1. UNCHANGED <<m_frame, made, content, cpc, buf, filled, slot>> /\ Ending'
    BY <1>10 DEF StopSignal, Ending
  <2> QED BY <1>2, <2>1 DEF QueueInv, ThreadHolds
<1>11. CASE Signal
  <2>1. /\ UNCHANGED <<m_frame, content, made, filled, slot, capture_running_, mpc, buf>>
        /\ (ThreadHolds' => ThreadHolds) /\ (cpc' # "none" => cpc # "none")
    BY <1>11 DEF Signal, ThreadHolds
  <2> QED BY <1>2, <2>1 DEF QueueInv, Ending
<1>12. CASE \/ DeviceGone \/ OpenDevice \/ MapBuffer \/ MapFails \/ OpenOrStartFails
            \/ LeaveLoop \/ PollSlot \/ TakeIdx \/ TakeData \/ TakeLen \/ Inspect
            \/ WriteFrame \/ enqueue \/ release \/ UNCHANGED vars
  <2>1. UNCHANGED <<m_frame, made, content, cpc, buf, filled, slot, capture_running_>>
    BY <1>12 DEF DeviceGone, OpenDevice, MapBuffer, MapFails, OpenOrStartFails, LeaveLoop, PollSlot,
                 TakeIdx, TakeData, TakeLen, Inspect, WriteFrame, enqueue, release, vars
  <2>2. cpc # "none" /\ Ending => Ending'
    BY <1>12 DEF DeviceGone, OpenDevice, MapBuffer, MapFails, OpenOrStartFails, LeaveLoop, PollSlot,
                 TakeIdx, TakeData, TakeLen, Inspect, WriteFrame, enqueue, release, vars, Ending
  <2> QED BY <1>2, <2>1, <2>2 DEF QueueInv, ThreadHolds
<1> QED BY <1>3, <1>4, <1>5, <1>6, <1>7, <1>8, <1>9, <1>10, <1>11, <1>12
        DEF Next, Driver, captureLoop, MainThread

(* What waits, by cases. *)
LEMMA PairOf ==
  ASSUME NEW x \in Nat, NEW y \in Nat
  PROVE  <<x>> \o <<y>> = <<x, y>>
<1> DEFINE s == <<x>> \o <<y>>
<1>1. <<x>> \in Seq(Nat) /\ <<y>> \in Seq(Nat) /\ <<x, y>> \in Seq(Nat)
  OBVIOUS
<1>2. /\ Len(<<x>>) = 1 /\ Len(<<y>>) = 1 /\ Len(<<x, y>>) = 2
      /\ <<x>>[1] = x /\ <<y>>[1] = y /\ <<x, y>>[1] = x /\ <<x, y>>[2] = y
  OBVIOUS
<1>3. /\ s \in Seq(Nat) /\ Len(s) = Len(<<x>>) + Len(<<y>>)
      /\ \A i \in 1 .. Len(<<x>>) + Len(<<y>>) :
           s[i] = IF i <= Len(<<x>>) THEN <<x>>[i] ELSE <<y>>[i - Len(<<x>>)]
  BY <1>1, ConcatProperties, Zenon
<1> HIDE DEF s
<1>4. /\ 1 + 1 = 2 /\ 1 \in 1 .. 2 /\ 2 \in 1 .. 2 /\ 1 <= 1 /\ ~(2 <= 1) /\ 2 - 1 = 1
      /\ \A i \in 1 .. 2 : i = 1 \/ i = 2
  OBVIOUS
<1>5. Len(s) = 2 /\ s[1] = x /\ s[2] = y
  BY <1>2, <1>3, <1>4
<1>6. Len(s) = Len(<<x, y>>) /\ \A i \in 1 .. Len(s) : s[i] = <<x, y>>[i]
  BY <1>2, <1>4, <1>5
<1>7. s = <<x, y>>
  BY <1>1, <1>3, <1>6, SeqEqual
<1> QED BY <1>7 DEF s

LEMMA Joined ==
  /\ <<>> \o <<>> = <<>>
  /\ \A x \in Nat : <<x>> \o <<>> = <<x>> /\ <<>> \o <<x>> = <<x>>
  /\ \A x, y \in Nat : <<x>> \o <<y>> = <<x, y>>
<1>1. \A x \in Nat : <<x>> \in Seq(Nat)
  OBVIOUS
<1>2. \A x \in Nat : <<x>> \o <<>> = <<x>> /\ <<>> \o <<x>> = <<x>>
  BY <1>1, ConcatEmptySeq
<1>3. <<>> \o <<>> = <<>>
  BY EmptySeq, ConcatEmptySeq
<1> QED BY <1>2, <1>3, PairOf

(* What a queue of up to two looks like after a step on it. *)
LEMMA ShortQueues ==
  ASSUME NEW x \in Nat, NEW y \in Nat
  PROVE  /\ Len(<<>>) = 0 /\ Len(<<x>>) = 1 /\ Len(<<x, y>>) = 2
         /\ SubSeq(<<y>>, 1, 0) = <<>> /\ SubSeq(<<x, y>>, 1, 1) = <<x>>
         /\ Head(<<x>>) = x /\ Tail(<<x>>) = <<>>
         /\ Head(<<x, y>>) = x /\ Tail(<<x, y>>) = <<y>>
         /\ <<y>>[1] = y /\ <<x, y>>[2] = y
         /\ <<x>> # <<>> /\ <<x, y>> # <<>>
         /\ DOMAIN <<>> = {} /\ \A i \in DOMAIN <<x>> : <<x>>[i] = x
<1>1. /\ Len(<<>>) = 0 /\ Len(<<x>>) = 1 /\ Len(<<x, y>>) = 2 /\ Len(<<y>>) = 1
      /\ Head(<<x>>) = x /\ Head(<<x, y>>) = x
      /\ <<y>>[1] = y /\ <<x, y>>[2] = y /\ <<x, y>>[1] = x /\ <<x>>[1] = x
      /\ <<x>> # <<>> /\ <<x, y>> # <<>>
      /\ DOMAIN <<>> = {} /\ \A i \in DOMAIN <<x>> : <<x>>[i] = x
  OBVIOUS
<1>2. <<x>> \in Seq(Nat) /\ <<y>> \in Seq(Nat) /\ <<x, y>> \in Seq(Nat) /\ <<>> \in Seq(Nat)
  OBVIOUS
<1>3. Tail(<<x>>) = <<>> /\ Tail(<<x, y>>) = <<y>>
  OBVIOUS
<1>4. SubSeq(<<y>>, 1, 0) = <<>>
  OBVIOUS
<1>5. SubSeq(<<x, y>>, 1, 1) = <<x>>
  <2> DEFINE t == <<x, y>>
  <2>1. \A i \in 1 .. 1 : t[i] \in Nat
    BY <1>1
  <2>2. t[1] = x
    BY <1>1
  <2> HIDE DEF t
  <2>3. /\ SubSeq(t, 1, 1) \in Seq(Nat)
        /\ Len(SubSeq(t, 1, 1)) = IF 1 <= 1 THEN 1 - 1 + 1 ELSE 0
        /\ \A i \in 1 .. 1 - 1 + 1 : SubSeq(t, 1, 1)[i] = t[1 + i - 1]
    BY <2>1, SubSeqProperties
  <2>4. Len(SubSeq(t, 1, 1)) = 1 /\ SubSeq(t, 1, 1)[1] = x
    BY <2>2, <2>3
  <2>5. \A i \in 1 .. 1 : i = 1
    OBVIOUS
  <2>6. SubSeq(t, 1, 1) = <<x>>
    BY <1>1, <1>2, <2>3, <2>4, <2>5, SeqEqual
  <2> QED BY <2>6 DEF t
<1> QED BY <1>1, <1>3, <1>4, <1>5

LEMMA WaitingNow ==
  ASSUME CameraInv
  PROVE  /\ ~frame_ready_ /\ ~ThreadHolds => FramesWaiting = <<>>
         /\ frame_ready_ /\ ~ThreadHolds => FramesWaiting = <<content[pending_data_].id>>
         /\ ~frame_ready_ /\ ThreadHolds => FramesWaiting = <<content[buf].id>>
         /\ frame_ready_ /\ ThreadHolds =>
              FramesWaiting = <<content[pending_data_].id, content[buf].id>>
         /\ frame_ready_ => pending_data_ \in Bufs /\ content[pending_data_].id \in Nat
         /\ ThreadHolds => buf \in Bufs /\ content[buf].id \in Nat
<1>1. /\ frame_ready_ => pending_data_ \in Bufs /\ content[pending_data_].id \in Nat
      /\ ThreadHolds => buf \in Bufs /\ content[buf].id \in Nat
  BY CameraAssumption DEF CameraInv, Placement, CameraTypeOK, Fields, Frames
<1> QED BY <1>1, Joined DEF FramesWaiting

LEMMA WaitingNext ==
  ASSUME CameraInv'
  PROVE  /\ ~frame_ready_' /\ ~ThreadHolds' => FramesWaiting' = <<>>
         /\ frame_ready_' /\ ~ThreadHolds' => FramesWaiting' = <<content'[pending_data_'].id>>
         /\ ~frame_ready_' /\ ThreadHolds' => FramesWaiting' = <<content'[buf'].id>>
         /\ frame_ready_' /\ ThreadHolds' =>
              FramesWaiting' = <<content'[pending_data_'].id, content'[buf'].id>>
         /\ frame_ready_' => pending_data_' \in Bufs /\ content'[pending_data_'].id \in Nat
         /\ ThreadHolds' => buf' \in Bufs /\ content'[buf'].id \in Nat
<1>1. /\ frame_ready_' => pending_data_' \in Bufs /\ content'[pending_data_'].id \in Nat
      /\ ThreadHolds' => buf' \in Bufs /\ content'[buf'].id \in Nat
  BY CameraAssumption DEF CameraInv, Placement, CameraTypeOK, Fields, Frames
<1> QED BY <1>1, Joined DEF FramesWaiting

(* The steps of the queue, as the capture takes them. *)
LEMMA QueueSteps ==
  /\ UNCHANGED <<FramesWaiting, m_frame, Ending>> => UNCHANGED Queue!frameQueue
  /\ \A y \in Nat :
       /\ FramesWaiting = <<>> /\ FramesWaiting' = <<y>>
       /\ y > m_frame.id /\ UNCHANGED <<m_frame, Ending>>
       => Queue!Put
  /\ \A x, y \in Nat :
       /\ FramesWaiting = <<x>> /\ FramesWaiting' = <<x, y>>
       /\ y > m_frame.id /\ y > x /\ UNCHANGED <<m_frame, Ending>>
       => Queue!Put
  /\ \A x \in Nat :
       /\ FramesWaiting = <<x>> /\ FramesWaiting' = <<>>
       /\ m_frame'.id = x /\ ~Ending /\ UNCHANGED Ending
       => Queue!Get
  /\ \A x, y \in Nat :
       /\ FramesWaiting = <<x, y>> /\ FramesWaiting' = <<y>>
       /\ m_frame'.id = x /\ ~Ending /\ UNCHANGED Ending
       => Queue!Get
  /\ \A x \in Nat :
       /\ FramesWaiting = <<x>> /\ FramesWaiting' = <<>>
       /\ Ending /\ UNCHANGED <<m_frame, Ending>>
       => Queue!Drop
  /\ \A x, y \in Nat :
       /\ FramesWaiting = <<x, y>> /\ FramesWaiting' = <<x>>
       /\ Ending /\ UNCHANGED <<m_frame, Ending>>
       => Queue!Drop
  /\ UNCHANGED <<FramesWaiting, m_frame>> /\ ~Ending /\ Ending' => Queue!Close
<1>1. UNCHANGED <<FramesWaiting, m_frame, Ending>> => UNCHANGED Queue!frameQueue
  BY DEF Queue!frameQueue
<1>2. ASSUME NEW y \in Nat, FramesWaiting = <<>>, FramesWaiting' = <<y>>,
             y > m_frame.id, UNCHANGED <<m_frame, Ending>>
      PROVE  Queue!Put
  BY <1>2, ShortQueues DEF Queue!Put, Queue!Newer
<1>3. ASSUME NEW x \in Nat, NEW y \in Nat, FramesWaiting = <<x>>, FramesWaiting' = <<x, y>>,
             y > m_frame.id, y > x, UNCHANGED <<m_frame, Ending>>
      PROVE  Queue!Put
  <2>1. /\ Len(<<x>>) = 1 /\ Len(<<x, y>>) = 2 /\ <<x, y>>[2] = y
        /\ SubSeq(<<x, y>>, 1, 1) = <<x>>
        /\ \A i \in DOMAIN <<x>> : <<x>>[i] = x
    BY ShortQueues
  <2>2. /\ Len(FramesWaiting) = 1 /\ Len(FramesWaiting') = 2 /\ FramesWaiting'[2] = y
        /\ SubSeq(FramesWaiting', 1, 1) = FramesWaiting
    BY <1>3, <2>1
  <2>3. Queue!Newer(y)
    BY <1>3, <2>1 DEF Queue!Newer
  <2>4. UNCHANGED <<m_frame.id, Ending>>
    BY <1>3
  <2> QED BY <2>2, <2>3, <2>4 DEF Queue!Put
<1>4. ASSUME NEW x \in Nat, FramesWaiting = <<x>>, FramesWaiting' = <<>>,
             m_frame'.id = x, ~Ending, UNCHANGED Ending
      PROVE  Queue!Get
  BY <1>4, ShortQueues DEF Queue!Get
<1>5. ASSUME NEW x \in Nat, NEW y \in Nat, FramesWaiting = <<x, y>>, FramesWaiting' = <<y>>,
             m_frame'.id = x, ~Ending, UNCHANGED Ending
      PROVE  Queue!Get
  BY <1>5, ShortQueues DEF Queue!Get
<1>6. ASSUME NEW x \in Nat, FramesWaiting = <<x>>, FramesWaiting' = <<>>,
             Ending, UNCHANGED <<m_frame, Ending>>
      PROVE  Queue!Drop
  BY <1>6, ShortQueues DEF Queue!Drop
<1>7. ASSUME NEW x \in Nat, NEW y \in Nat, FramesWaiting = <<x, y>>, FramesWaiting' = <<x>>,
             Ending, UNCHANGED <<m_frame, Ending>>
      PROVE  Queue!Drop
  BY <1>7, ShortQueues DEF Queue!Drop
<1>8. ASSUME UNCHANGED <<FramesWaiting, m_frame>>, ~Ending, Ending'
      PROVE  Queue!Close
  BY <1>8 DEF Queue!Close
<1> QED BY <1>1, <1>2, <1>3, <1>4, <1>5, <1>6, <1>7, <1>8

LEMMA QueueStep ==
  ASSUME CameraInv, CameraInv', QueueInv, [Next]_vars
  PROVE  [Queue!QueueNext]_(Queue!frameQueue)
<1> USE DEF driver, object, slot, thread, main, locals, At, Goto, QBUF
<1> DEFINE Same == UNCHANGED <<FramesWaiting, m_frame, Ending>>
<1>0. Same => UNCHANGED Queue!frameQueue
  BY QueueSteps
<1>1. /\ CameraTypeOK /\ Placement /\ SlotWriting /\ SlotReading /\ Lifecycle
      /\ \A b \in Bufs : content[b].id \in Nat
      /\ filled \subseteq Bufs
  <2>1. CameraTypeOK /\ Placement /\ SlotWriting /\ SlotReading /\ Lifecycle
    BY DEF CameraInv
  <2>2. content \in [Bufs -> Frames] /\ filled \subseteq Bufs
    BY <2>1 DEF CameraTypeOK, Fields
  <2> QED BY <2>1, <2>2, CameraAssumption DEF Frames
<1>2. ASSUME NEW b \in Bufs, FillBuffer(b) PROVE Same
  <2>1. /\ UNCHANGED <<m_frame, frame_ready_, pending_data_, cpc, buf, mpc>>
        /\ b \in queued
        /\ \A c : c # b => content'[c] = content[c]
    <3>1. content' \in [Bufs -> Frames] /\ content \in [Bufs -> Frames]
      BY DEF CameraInv, CameraTypeOK, Fields
    <3> QED BY <1>2, <3>1 DEF FillBuffer
  <2>2. /\ frame_ready_ => content'[pending_data_] = content[pending_data_]
        /\ ThreadHolds => content'[buf] = content[buf]
    BY <1>1, <2>1 DEF Placement, InDriver
  <2> QED BY <2>1, <2>2 DEF FramesWaiting, ThreadHolds, Ending
<1>3. ASSUME NEW b \in Bufs, DequeueFilled(b) PROVE Queue!Put
  <2>1. /\ UNCHANGED <<m_frame, content, frame_ready_, pending_data_, mpc>>
        /\ b \in filled /\ buf' = b /\ ~ThreadHolds /\ ThreadHolds'
    BY <1>3 DEF DequeueFilled, ThreadHolds
  <2>2. UNCHANGED Ending
    BY <2>1 DEF Ending
  <2>3. /\ content[b].id \in Nat /\ content[b].id > m_frame.id
        /\ frame_ready_ => content[b].id > content[pending_data_].id
    BY <1>1, <2>1, WaitingNow DEF QueueInv
  <2>4. CASE ~frame_ready_
    <3>1. FramesWaiting = <<>> /\ FramesWaiting' = <<content[b].id>>
      BY <2>1, <2>4, WaitingNow, WaitingNext
    <3> QED BY <2>1, <2>2, <2>3, <3>1, QueueSteps
  <2>5. CASE frame_ready_
    <3>1. /\ FramesWaiting = <<content[pending_data_].id>>
          /\ FramesWaiting' = <<content[pending_data_].id, content[b].id>>
          /\ content[pending_data_].id \in Nat
      BY <2>1, <2>5, WaitingNow, WaitingNext
    <3> QED BY <2>1, <2>2, <2>3, <2>5, <3>1, QueueSteps
  <2> QED BY <2>4, <2>5
<1>4. CASE \/ TestRunning \/ DequeueFails \/ SlotFree \/ StillRunning
           \/ WriteData \/ WriteLen \/ WriteIdx
  <2>1. /\ UNCHANGED <<m_frame, content, frame_ready_, mpc, buf>>
        /\ ThreadHolds' <=> ThreadHolds
        /\ frame_ready_ => pending_data_' = pending_data_
    BY <1>1, <1>4 DEF TestRunning, DequeueFails, SlotFree, StillRunning,
                      WriteData, WriteLen, WriteIdx, ThreadHolds, SlotWriting
  <2>2. Same
    BY <2>1 DEF FramesWaiting, Ending
  <2> QED BY <1>0, <2>2
<1>5. CASE Publish
  <2>1. /\ UNCHANGED <<m_frame, content, pending_data_, mpc>>
        /\ ThreadHolds /\ ~ThreadHolds' /\ pending_data_ = buf /\ ~frame_ready_ /\ frame_ready_'
    BY <1>1, <1>5 DEF Publish, ThreadHolds, SlotWriting
  <2>2. Same
    BY <2>1, WaitingNow, WaitingNext DEF Ending
  <2> QED BY <1>0, <2>2
<1>6. CASE RequeueAndExit
  <2>1. /\ UNCHANGED <<m_frame, content, frame_ready_, pending_data_, mpc>>
        /\ ThreadHolds /\ ~ThreadHolds' /\ cpc # "none" /\ ~capture_running_
    BY <1>6 DEF RequeueAndExit, ThreadHolds, QBUF
  <2>2. Ending /\ UNCHANGED Ending
    BY <2>1 DEF Ending, QueueInv
  <2>3. CASE ~frame_ready_
    <3>1. /\ FramesWaiting = <<content[buf].id>> /\ FramesWaiting' = <<>>
          /\ content[buf].id \in Nat
      BY <2>1, <2>3, WaitingNow, WaitingNext
    <3> QED BY <2>1, <2>2, <3>1, QueueSteps DEF Queue!QueueNext
  <2>4. CASE frame_ready_
    <3>1. /\ FramesWaiting = <<content[pending_data_].id, content[buf].id>>
          /\ FramesWaiting' = <<content[pending_data_].id>>
          /\ content[pending_data_].id \in Nat /\ content[buf].id \in Nat
      BY <2>1, <2>4, WaitingNow, WaitingNext
    <3> QED BY <2>1, <2>2, <3>1, QueueSteps DEF Queue!QueueNext
  <2> QED BY <2>3, <2>4
<1>7. CASE Consume
  <2>1. /\ UNCHANGED <<content, pending_data_, cpc, buf>>
        /\ frame_ready_ /\ ~frame_ready_' /\ m_frame' = content[pending_data_]
        /\ mpc = "consume" /\ mpc' = "inspect"
    BY <1>1, <1>7 DEF Consume, SlotReading
  <2>2. ~Ending /\ UNCHANGED Ending /\ (ThreadHolds' <=> ThreadHolds)
    BY <2>1 DEF ThreadHolds, Ending
  <2>3. CASE ~ThreadHolds
    <3>1. /\ FramesWaiting = <<content[pending_data_].id>> /\ FramesWaiting' = <<>>
          /\ content[pending_data_].id \in Nat
      BY <2>1, <2>2, <2>3, WaitingNow, WaitingNext
    <3> QED BY <2>1, <2>2, <3>1, QueueSteps DEF Queue!QueueNext
  <2>4. CASE ThreadHolds
    <3>1. /\ FramesWaiting = <<content[pending_data_].id, content[buf].id>>
          /\ FramesWaiting' = <<content[buf].id>>
          /\ content[pending_data_].id \in Nat /\ content[buf].id \in Nat
      BY <2>1, <2>2, <2>4, WaitingNow, WaitingNext
    <3> QED BY <2>1, <2>2, <3>1, QueueSteps DEF Queue!QueueNext
  <2> QED BY <2>3, <2>4
<1>8. CASE StopSignal
  <2>1. /\ UNCHANGED <<m_frame, content, frame_ready_, pending_data_, cpc, buf>>
        /\ ~Ending /\ Ending'
    BY <1>8 DEF StopSignal, Ending
  <2>2. UNCHANGED FramesWaiting
    BY <2>1 DEF FramesWaiting, ThreadHolds
  <2> QED BY <2>1, <2>2, QueueSteps DEF Queue!QueueNext
<1>9. CASE Join
  <2>1. /\ UNCHANGED <<m_frame, content, pending_data_, cpc, buf>>
        /\ ~ThreadHolds /\ ~ThreadHolds' /\ ~frame_ready_' /\ Ending /\ Ending'
    BY <1>9 DEF Join, Ending, ThreadHolds
  <2>2. UNCHANGED Ending /\ FramesWaiting' = <<>>
    BY <2>1, WaitingNext
  <2>3. CASE frame_ready_
    <3>1. FramesWaiting = <<content[pending_data_].id>> /\ content[pending_data_].id \in Nat
      BY <2>1, <2>3, WaitingNow
    <3> QED BY <2>1, <2>2, <3>1, QueueSteps DEF Queue!QueueNext
  <2>4. CASE ~frame_ready_
    <3>1. FramesWaiting = <<>>
      BY <2>1, <2>4, WaitingNow
    <3> QED BY <1>0, <2>1, <2>2, <3>1
  <2> QED BY <2>3, <2>4
<1>10. CASE Signal
  <2>1. /\ UNCHANGED <<m_frame, content, slot, mpc, buf>>
        /\ ThreadHolds' <=> ThreadHolds
    BY <1>10 DEF Signal, ThreadHolds
  <2>2. Same
    BY <2>1 DEF FramesWaiting, Ending
  <2> QED BY <1>0, <2>2
<1>11. CASE start
  <2>1. /\ UNCHANGED <<m_frame, content, slot>> /\ ~frame_ready_
        /\ ~ThreadHolds /\ ~ThreadHolds' /\ mpc = "map" /\ mpc' = "top"
    BY <1>1, <1>11 DEF start, Lifecycle, ThreadHolds
  <2>2. UNCHANGED Ending
    BY <2>1 DEF Ending
  <2>3. UNCHANGED FramesWaiting
    BY <2>1, WaitingNow, WaitingNext
  <2>4. Same
    BY <2>1, <2>2, <2>3
  <2> QED BY <1>0, <2>4
<1>12. CASE \/ DeviceGone \/ OpenDevice \/ MapBuffer \/ MapFails \/ OpenOrStartFails
            \/ LeaveLoop \/ PollSlot \/ TakeIdx \/ TakeData \/ TakeLen \/ Inspect
            \/ WriteFrame \/ enqueue \/ StreamOff \/ release \/ UNCHANGED vars
  <2>1. UNCHANGED <<m_frame, content, slot, cpc, buf>>
    BY <1>12 DEF DeviceGone, OpenDevice, MapBuffer, MapFails, OpenOrStartFails, LeaveLoop, PollSlot,
                 TakeIdx, TakeData, TakeLen, Inspect, WriteFrame, enqueue, StreamOff, release, vars
  <2>2. Ending' <=> Ending
    BY <1>12 DEF DeviceGone, OpenDevice, MapBuffer, MapFails, OpenOrStartFails, LeaveLoop, PollSlot,
                 TakeIdx, TakeData, TakeLen, Inspect, WriteFrame, enqueue, StreamOff, release, vars,
                 Ending
  <2>3. Same
    BY <2>1, <2>2 DEF FramesWaiting, ThreadHolds
  <2> QED BY <1>0, <2>3
<1> QED BY <1>0, <1>2, <1>3, <1>4, <1>5, <1>6, <1>7, <1>8, <1>9, <1>10, <1>11, <1>12
        DEF Next, Driver, captureLoop, MainThread, Queue!QueueNext

(* The capture implements the two-place queue of FrameQueue: every frame is *)
(* handed over at most once, in the order the camera made them, and is      *)
(* dropped only when the capture is being closed.                           *)
THEOREM CaptureIsAQueue == Spec => ImplementsQueue
<1>1. Init => QueueInv /\ Queue!QueueInit
  BY Joined DEF Init, QueueInv, Queue!QueueInit, FramesWaiting, ThreadHolds, Ending, NoFrame
<1>2. CameraInv /\ QueueInv /\ [Next]_vars => QueueInv'
  BY QueueInvStep
<1>3. CameraInv /\ CameraInv' /\ QueueInv /\ [Next]_vars => [Queue!QueueNext]_(Queue!frameQueue)
  BY QueueStep
<1> QED BY <1>1, <1>2, <1>3, CameraSafety, PTL DEF Spec, ImplementsQueue, Queue!QueueSpec
=============================================================================
