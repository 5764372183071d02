------------------------- MODULE EncoderChildProofs -------------------------
(***************************************************************************)
(* Proofs about EncoderChild, for frames, pipes and reads of any size: the *)
(* encoder's descriptors and process agree and only failed starts leave    *)
(* descriptors open; an encoder that got frames of its size got whole      *)
(* ones; and main thread and encoder wait for each other only when the     *)
(* output has outrun the reads by more than the stdout pipe holds.         *)
(***************************************************************************)
EXTENDS EncoderChild, TLAPS

LEMMA ConstantsAreNumbers ==
  /\ FrameUnits \in Nat /\ FrameUnits > 0
  /\ InCap \in Nat /\ InCap > 0
  /\ OutCap \in Nat /\ OutCap > 0
  /\ ReadMax \in Nat /\ ReadMax > 0
  /\ MaxOut \in Nat /\ MaxTail \in Nat /\ MaxRestarts \in Nat
  /\ \A len \in FrameLens : len \in Nat /\ len > 0
BY EncoderAssumption

LEMMA LesserBounds ==
  ASSUME NEW a \in Nat, NEW b \in Nat
  PROVE  Lesser(a, b) \in 0 .. b /\ (Lesser(a, b) = a \/ Lesser(a, b) = b)
BY DEF Lesser

LEMMA UpToBounds ==
  ASSUME NEW n \in Int
  PROVE  /\ UpTo(n) \in 0 .. Most
         /\ UpTo(n) >= n \/ UpTo(n) = Most
BY ConstantsAreNumbers DEF UpTo, Lesser, Most

(* The flags stay flags. *)
LEMMA FlagsStay == ASSUME Flags, Next PROVE Flags'
<1> USE DEF Flags, At, handles, frame, process, Main
<1>1. CASE MainThread
  BY <1>1, ZenonT(60) DEF MainThread, Start, Respawn, Forked, NotForked, Dequeue, WriteUnit,
     WriteWithout, WriteBroken, ReadOutput, ControlStep, Control, Drain, Waited,
     Leave, Stop, ReapOrKill
<1>2. CASE Encoder \/ Crashes
  BY <1>2, ZenonT(60) DEF Encoder, Crashes, ReadsUnit, WritesPacket, InputEnds, Finishes, Exits
<1>3. CASE Told
  BY <1>3, Zenon DEF Told
<1> QED BY <1>1, <1>2, <1>3 DEF Next

(* What the main thread and the encoder know of each other. *)
Base == Fields /\ HandleStates /\ Emptied

LEMMA BaseInit == Init => Base
BY ConstantsAreNumbers DEF Init, Base, Fields, HandleStates, Emptied, Most

LEMMA MainKeepsBase == ASSUME Flags, Base, MainThread PROVE Base'
<1> USE ConstantsAreNumbers
    DEF At, handles, frame, process, pipes, Closed, Base, Fields, HandleStates, Emptied
<1>0. outpipe - Lesser(ReadMax, outpipe) \in 0 .. outpipe
  BY LesserBounds
<1>1. CASE Start
  BY <1>1 DEF Start, Forked, NotForked, Most
<1>2. CASE Respawn
  BY <1>2 DEF Respawn, Forked, NotForked, Most
<1>3. CASE Dequeue
  <2>1. misfed \in BOOLEAN
    BY DEF Flags
  <2>2. CASE At("loop", "read") /\ UNCHANGED <<raw_len, misfed>>
    BY <1>3, <2>2 DEF Dequeue
  <2>3. ASSUME NEW len \in FrameLens, At("loop", "write"), raw_len' = len,
               misfed' = (misfed \/ len # FrameUnits)
        PROVE  Base'
    <3>1. len \in Nat /\ len > 0 /\ written = 0
      BY <2>3
    <3>2. misfed' \/ len = FrameUnits
      BY <2>1, <2>3
    <3> QED BY <1>3, <2>3, <3>1, <3>2 DEF Dequeue
  <2> QED BY <1>3, <2>2, <2>3 DEF Dequeue
<1>4. CASE WriteUnit
  <2>1. raw_len \in Nat /\ written < raw_len
    BY <1>4 DEF WriteUnit
  <2>2. CASE written + 1 = raw_len
    BY <1>4, <2>1, <2>2 DEF WriteUnit
  <2>3. CASE written + 1 # raw_len
    BY <1>4, <2>1, <2>3 DEF WriteUnit
  <2> QED BY <2>2, <2>3
<1>5. CASE WriteWithout \/ WriteBroken
  BY <1>5 DEF WriteWithout, WriteBroken
<1>6. CASE ReadOutput
  BY <1>0, <1>6 DEF ReadOutput
<1>7. CASE ControlStep
  BY <1>7 DEF ControlStep, Control
<1>8. CASE Drain("drain", "reap")
  BY <1>0, <1>8 DEF Drain
<1>9. CASE At("reap", "spawn") /\ Waited
  BY <1>9 DEF Waited
<1>10. CASE Leave \/ Stop
  BY <1>10 DEF Leave, Stop
<1>11. CASE Drain("discard", "kill")
  BY <1>0, <1>11 DEF Drain
<1>12. CASE ReapOrKill
  BY <1>12 DEF ReapOrKill, Waited
<1>13. CASE At("wait", "done") /\ Waited
  BY <1>13 DEF Waited
<1> QED
  BY <1>1, <1>2, <1>3, <1>4, <1>5, <1>6, <1>7, <1>8, <1>9, <1>10, <1>11,
     <1>12, <1>13 DEF MainThread

(* The encoder, its failures, and the order to stop. *)
LEMMA OthersKeepBase == ASSUME Base, Encoder \/ Crashes \/ Told PROVE Base'
<1> USE ConstantsAreNumbers
    DEF At, handles, frame, process, pipes, Main, Base, Fields, HandleStates, Emptied
<1>1. CASE ReadsUnit
  <2>1. CASE taken + 1 = FrameUnits
    <3>1. PICK out \in 0 .. MaxOut :
            taken' = 0 /\ pending' = out /\ behind' = UpTo(behind + out - ReadMax)
      BY <1>1, <2>1 DEF ReadsUnit
    <3>2. behind' \in 0 .. Most
      BY <3>1, UpToBounds
    <3> QED BY <1>1, <3>1, <3>2 DEF ReadsUnit
  <2>2. CASE taken + 1 # FrameUnits
    BY <1>1, <2>2 DEF ReadsUnit
  <2> QED BY <2>1, <2>2
<1>2. CASE WritesPacket
  BY <1>2 DEF WritesPacket
<1>3. CASE InputEnds
  BY <1>3 DEF InputEnds
<1>4. CASE Finishes \/ Crashes
  BY <1>4 DEF Finishes, Crashes, Exits
<1>5. CASE Told
  <2>1. CASE UNCHANGED <<child, pending, behind>>
    BY <1>5, <2>1 DEF Told
  <2>2. ASSUME NEW tail \in 0 .. MaxTail, child = "run", child' = "flush",
               pending' = pending + tail, behind' = UpTo(behind + tail)
        PROVE  Base'
    <3>1. behind' \in 0 .. Most
      BY <2>2, UpToBounds
    <3> QED BY <1>5, <2>2, <3>1 DEF Told
  <2> QED BY <1>5, <2>1, <2>2 DEF Told
<1> QED BY <1>1, <1>2, <1>3, <1>4, <1>5 DEF Encoder

(* Neither does a step in which nothing changes. *)
LEMMA StutterKeeps ==
  ASSUME Flags, Base, Descriptors, FramesAligned, UNCHANGED vars
  PROVE  Flags' /\ Base' /\ Descriptors' /\ FramesAligned'
BY DEF vars, Held, Descriptors, handles, frame, process, pipes, Flags, Base, Fields, HandleStates, Emptied,
       FramesAligned

(* Each end of a pipe is opened and closed once, except by a failed start. *)
LEMMA StepKeepsDescriptors ==
  ASSUME Flags, Base, Descriptors, Next PROVE Descriptors'
<1> USE ConstantsAreNumbers
    DEF At, handles, process, pipes, Main, Closed, Held, Descriptors, Flags,
        Base, Fields, HandleStates
<1>1. CASE Start
  BY <1>1 DEF Start, Forked, NotForked
<1>2. CASE Respawn
  BY <1>2 DEF Respawn, Forked, NotForked
<1>3. CASE Dequeue \/ WriteUnit \/ WriteWithout \/ WriteBroken \/ ReadOutput \/ Leave
  BY <1>3 DEF Dequeue, WriteUnit, WriteWithout, WriteBroken, ReadOutput, Leave
<1>4. CASE ControlStep
  BY <1>4 DEF ControlStep, Control
<1>5. CASE Drain("drain", "reap") \/ Drain("discard", "kill")
  BY <1>5 DEF Drain
<1>6. CASE Stop
  BY <1>6 DEF Stop
<1>7. CASE \/ At("reap", "spawn") /\ Waited
           \/ At("wait", "done") /\ Waited
           \/ ReapOrKill
  BY <1>7 DEF Waited, ReapOrKill
<1>8. CASE Encoder \/ Crashes \/ Told
  BY <1>8 DEF Encoder, ReadsUnit, WritesPacket, InputEnds, Finishes, Crashes, Exits, Told
<1> QED BY <1>1, <1>2, <1>3, <1>4, <1>5, <1>6, <1>7, <1>8 DEF Next, MainThread

(* As many whole frames as the pipe has units are under way at most. *)
LEMMA FewWholeFrames ==
  ASSUME NEW rest \in Nat, NEW whole \in Nat, NEW total \in Nat,
         total = rest + whole * FrameUnits, total <= FrameUnits - 1 + InCap
  PROVE  whole <= InCap
<1> USE ConstantsAreNumbers
<1> SUFFICES ASSUME whole >= InCap + 1 PROVE FALSE
  OBVIOUS
<1> DEFINE d == whole - (InCap + 1)
<1>1. d \in Nat /\ whole = InCap + 1 + d
  OBVIOUS
<1> HIDE DEF d
<1>2. whole * FrameUnits = InCap * FrameUnits + FrameUnits + d * FrameUnits
  BY <1>1
<1>3. d * FrameUnits \in Nat
  BY <1>1
<1> DEFINE e == FrameUnits - 1
<1>4. e \in Nat /\ FrameUnits = 1 + e
  OBVIOUS
<1> HIDE DEF e
<1>5. InCap * FrameUnits = InCap + InCap * e /\ InCap * e \in Nat
  BY <1>4
<1> QED BY <1>2, <1>3, <1>5

LEMMA WholeFrames ==
  ASSUME NEW t \in 0 .. FrameUnits - 1, NEW i \in 0 .. InCap, NEW rest \in Nat,
         NEW whole \in Nat, t + i = rest + whole * FrameUnits
  PROVE  \E w \in 0 .. InCap : t + i = rest + w * FrameUnits
<1>1. t + i \in Nat /\ t + i <= FrameUnits - 1 + InCap
  BY ConstantsAreNumbers
<1>2. whole <= InCap
  BY <1>1, FewWholeFrames
<1>3. whole \in 0 .. InCap
  BY <1>2, ConstantsAreNumbers
<1> QED BY <1>3

(* A unit that is read off: one whole frame fewer, or one unit moves. *)
LEMMA ReadUnitOff ==
  ASSUME NEW t \in 0 .. FrameUnits - 1, NEW i \in 1 .. InCap,
         NEW rest \in 0 .. FrameUnits - 1, NEW whole \in Nat,
         t + i = rest + whole * FrameUnits, t + 1 = FrameUnits
  PROVE  \E w \in Nat : 0 + (i - 1) = rest + w * FrameUnits
<1> USE ConstantsAreNumbers
<1>1. whole # 0
  OBVIOUS
<1> DEFINE w == whole - 1
<1>2. w \in Nat /\ whole = w + 1
  BY <1>1
<1> HIDE DEF w
<1>3. whole * FrameUnits = w * FrameUnits + FrameUnits /\ w * FrameUnits \in Nat
  BY <1>2
<1>4. 0 + (i - 1) = rest + w * FrameUnits
  BY <1>3
<1> QED BY <1>2, <1>4

(* Every other action leaves a running encoder's input, and the frame in   *)
(* hand, alone; a new encoder starts with nothing.                         *)
LEMMA OthersLeaveInput ==
  ASSUME Base, Next, ~WriteUnit, ~ReadsUnit, child' = "run"
  PROVE  \/ /\ child = "run" /\ taken' = taken /\ inpipe' = inpipe /\ written' = written
            /\ misfed => misfed'
         \/ taken' = 0 /\ inpipe' = 0 /\ written' = 0
<1> USE DEF At, handles, frame, process, pipes, Main
<1>1. CASE Start \/ Respawn
  <2>1. child = "none" /\ pc \in {"start", "spawn"}
    BY <1>1 DEF Start, Respawn, Base, HandleStates
  <2>2. taken = 0 /\ inpipe = 0 /\ written = 0
    BY <2>1, ConstantsAreNumbers DEF Base, Fields, Emptied
  <2> QED BY <1>1, <2>1, <2>2 DEF Start, Respawn, Forked, NotForked
<1>2. CASE Dequeue \/ WriteWithout \/ WriteBroken \/ ReadOutput \/ ControlStep
  BY <1>2 DEF Dequeue, WriteWithout, WriteBroken, ReadOutput, ControlStep, Control
<1>3. CASE Drain("drain", "reap") \/ Drain("discard", "kill") \/ Leave \/ Stop
  BY <1>3 DEF Drain, Leave, Stop
<1>4. CASE \/ At("reap", "spawn") /\ Waited
           \/ At("wait", "done") /\ Waited
           \/ ReapOrKill
  BY <1>4 DEF Waited, ReapOrKill
<1>5. CASE WritesPacket \/ InputEnds \/ Finishes \/ Crashes \/ Told
  BY <1>5 DEF WritesPacket, InputEnds, Finishes, Crashes, Exits, Told
<1> QED BY <1>1, <1>2, <1>3, <1>4, <1>5 DEF Next, MainThread, Encoder

LEMMA StepKeepsAlignment ==
  ASSUME Base, Base', FramesAligned, Next PROVE FramesAligned'
<1> USE ConstantsAreNumbers
<1> SUFFICES ASSUME child' = "run", ~misfed'
             PROVE  \E whole \in 0 .. InCap :
                      taken' + inpipe' = written' + whole * FrameUnits
  BY DEF FramesAligned
<1>1. /\ taken \in 0 .. FrameUnits - 1 /\ inpipe \in 0 .. InCap
      /\ inpipe' \in 0 .. InCap /\ written \in Nat
      /\ ~misfed => raw_len \in {0, FrameUnits} /\ written \in 0 .. FrameUnits - 1
  BY DEF Base, Fields, Emptied
<1>2. CASE WriteUnit
  <2>1. /\ child = "run" /\ taken' = taken /\ inpipe' = inpipe + 1 /\ ~misfed
        /\ raw_len = FrameUnits
        /\ \/ written + 1 = raw_len /\ written' = 0
           \/ written' = written + 1
    BY <1>1, <1>2 DEF WriteUnit, process, Base, Emptied
  <2>2. PICK whole \in 0 .. InCap : taken + inpipe = written + whole * FrameUnits
    BY <2>1 DEF FramesAligned
  <2>3. whole \in Nat /\ whole * FrameUnits \in Nat
        /\ (whole + 1) * FrameUnits = whole * FrameUnits + FrameUnits
    OBVIOUS
  <2>4. inpipe + 1 \in 0 .. InCap /\ whole + 1 \in Nat /\ 0 \in Nat
    BY <1>1, <2>1
  <2>5. CASE written + 1 = raw_len /\ written' = 0
    <3>1. PICK k \in Nat : k = whole + 1
      BY <2>4
    <3>2. taken + (inpipe + 1) = 0 + k * FrameUnits
      BY <1>1, <2>1, <2>2, <2>3, <2>5, <3>1
    <3>3. \E w \in 0 .. InCap : taken + (inpipe + 1) = 0 + w * FrameUnits
      BY <1>1, <2>4, <3>2, WholeFrames
    <3> QED BY <2>1, <2>5, <3>3
  <2>6. CASE written' = written + 1
    <3>1. taken + (inpipe + 1) = (written + 1) + whole * FrameUnits
      BY <1>1, <2>2, <2>3
    <3> QED BY <2>1, <2>2, <2>6, <3>1
  <2> QED BY <2>1, <2>5, <2>6
<1>3. CASE ReadsUnit
  <2>1. /\ child = "run" /\ inpipe > 0 /\ inpipe' = inpipe - 1 /\ written' = written
        /\ ~misfed /\ written \in 0 .. FrameUnits - 1
        /\ \/ taken + 1 = FrameUnits /\ taken' = 0
           \/ taken' = taken + 1
    BY <1>1, <1>3 DEF ReadsUnit, Main, frame
  <2>2. PICK whole \in 0 .. InCap : taken + inpipe = written + whole * FrameUnits
    BY <2>1 DEF FramesAligned
  <2>3. inpipe \in 1 .. InCap /\ inpipe - 1 \in 0 .. InCap /\ whole \in Nat
    BY <1>1, <2>1
  <2>4. CASE taken + 1 = FrameUnits /\ taken' = 0
    <3>1. PICK w \in Nat : 0 + (inpipe - 1) = written + w * FrameUnits
      BY <1>1, <2>1, <2>2, <2>3, <2>4, ReadUnitOff
    <3>2. 0 \in 0 .. FrameUnits - 1 /\ written \in Nat
      BY <1>1
    <3>3. \E k \in 0 .. InCap : 0 + (inpipe - 1) = written + k * FrameUnits
      BY <2>3, <3>1, <3>2, WholeFrames
    <3> QED BY <2>1, <2>4, <3>3
  <2>5. CASE taken' = taken + 1
    <3>1. (taken + 1) + (inpipe - 1) = taken + inpipe
      BY <1>1
    <3> QED BY <2>1, <2>2, <2>5, <3>1
  <2> QED BY <2>1, <2>4, <2>5
<1>4. CASE ~WriteUnit /\ ~ReadsUnit
  <2>1. CASE /\ child = "run" /\ taken' = taken /\ inpipe' = inpipe /\ written' = written
             /\ misfed => misfed'
    BY <2>1 DEF FramesAligned
  <2>2. CASE taken' = 0 /\ inpipe' = 0 /\ written' = 0
    <3>1. 0 + 0 = 0 + 0 * FrameUnits /\ 0 \in 0 .. InCap
      OBVIOUS
    <3> QED BY <2>2, <3>1
  <2> QED BY <1>4, <2>1, <2>2, OthersLeaveInput
<1> QED BY <1>2, <1>3, <1>4

LEMMA InitIsSafe == Init => Flags /\ Base /\ Descriptors /\ FramesAligned
<1>1. Init => Flags
  BY Zenon DEF Init, Flags
<1>2. Init => Descriptors
  BY DEF Init, Descriptors, Held
<1>3. Init => FramesAligned
  BY DEF Init, FramesAligned
<1> QED BY <1>1, <1>2, <1>3, BaseInit

(* The inductive invariant holds of every execution. *)
THEOREM ChildSafety == Spec => []ChildInv
<1>1. Init => Flags /\ Base /\ Descriptors /\ FramesAligned
  BY InitIsSafe
<1>2. Flags /\ Base /\ Descriptors /\ FramesAligned /\ [Next]_vars
        => Flags' /\ Base' /\ Descriptors' /\ FramesAligned'
  <2> SUFFICES ASSUME Flags, Base, Descriptors, FramesAligned, Next
               PROVE  Flags' /\ Base' /\ Descriptors' /\ FramesAligned'
    BY StutterKeeps
  <2>1. Base'
    BY MainKeepsBase, OthersKeepBase DEF Next
  <2> QED BY <2>1, FlagsStay, StepKeepsDescriptors, StepKeepsAlignment
<1>3. Flags /\ Base /\ Descriptors /\ FramesAligned => ChildInv
  BY DEF ChildInv, Base, EncoderTypeOK
<1> QED BY <1>1, <1>2, <1>3, PTL DEF Spec

(* Frames of the encoder's size reach it whole. *)
THEOREM FramesStayAligned == Spec => []FramesAligned
<1>1. ChildInv => FramesAligned
  BY DEF ChildInv
<1> QED BY <1>1, ChildSafety, PTL

(* Descriptors and process id are of one encoder, or all unset, and no     *)
(* other descriptor is open but those of failed starts.                    *)
THEOREM HandlesStayInAgreement == Spec => []HandlesAgree
<1>1. ChildInv => HandlesAgree
  BY DEF ChildInv, HandleStates, Descriptors, HandlesAgree
<1> QED BY <1>1, ChildSafety, PTL

-----------------------------------------------------------------------------
(* Frames that do not fit the stdin pipe (any above 64 KB), and a stdout   *)
(* pipe that holds what one read() takes (64 KB and 8 KB).  How much a     *)
(* frame yields is open.                                                   *)
Roomy == InCap < FrameUnits /\ ReadMax <= OutCap

(* Half-way through a write, at most one frame more is with the encoder.   *)
LEMMA OneFrameAhead ==
  ASSUME Roomy, Base, FramesAligned, child = "run", ~misfed
  PROVE  taken + inpipe \in {written, written + FrameUnits}
<1> USE ConstantsAreNumbers DEF Roomy
<1>1. /\ taken \in 0 .. FrameUnits - 1 /\ inpipe \in 0 .. InCap
      /\ written \in 0 .. FrameUnits - 1
  BY DEF Base, Fields, Emptied
<1>2. PICK whole \in 0 .. InCap : taken + inpipe = written + whole * FrameUnits
  BY DEF FramesAligned
<1>3. whole \in {0, 1}
  <2> SUFFICES ASSUME whole >= 2 PROVE FALSE
    BY <1>2
  <2> DEFINE d == whole - 2
  <2>1. d \in Nat /\ whole = 2 + d
    OBVIOUS
  <2> HIDE DEF d
  <2>2. whole * FrameUnits = 2 * FrameUnits + d * FrameUnits /\ d * FrameUnits \in Nat
    BY <2>1
  <2> QED BY <1>1, <1>2, <2>2
<1> QED BY <1>1, <1>2, <1>3

LEMMA StepKeepsBacklog ==
  ASSUME Roomy, Flags, Base, Base', FramesAligned, Backlog, Next PROVE Backlog'
<1> USE ConstantsAreNumbers DEF Roomy, At, handles, frame, process, pipes, Main, Backlog
<1>1. /\ taken \in 0 .. FrameUnits - 1 /\ inpipe \in 0 .. InCap
      /\ pending \in Nat /\ outpipe \in 0 .. OutCap
      /\ written \in Nat /\ behind \in Nat /\ behind' \in 0 .. Most
      /\ ~misfed => raw_len \in {0, FrameUnits} /\ written \in 0 .. FrameUnits - 1
  BY DEF Base, Fields, Emptied, Most
<1>2. child = "run" /\ ~misfed => taken + inpipe \in {written, written + FrameUnits}
  BY OneFrameAhead
<1>3. pc # "write" /\ pc # "killed" => written = 0
  BY <1>1 DEF Base, Emptied
<1>4. CASE Start \/ Respawn
  <2>1. child = "none" /\ pc \in {"start", "spawn"} /\ ~ffmpeg_fd
    BY <1>4 DEF Start, Respawn, Base, HandleStates
  <2>2. taken = 0 /\ inpipe = 0 /\ written = 0 /\ pending = 0 /\ outpipe = 0
    BY <1>3, <2>1 DEF Base, Emptied
  <2> QED BY <1>1, <1>4, <2>1, <2>2 DEF Start, Respawn, Forked, NotForked
<1>5. CASE Dequeue
  <2>1. misfed => misfed'
    BY <1>5 DEF Dequeue
  <2>2. child # "flush"
    BY <1>5 DEF Dequeue, Base, HandleStates
  <2> QED BY <1>1, <1>2, <1>3, <1>5, <2>1, <2>2 DEF Dequeue
<1>6. CASE WriteUnit
  <2>1. ~misfed => raw_len = FrameUnits
    BY <1>6 DEF WriteUnit, Base, Emptied
  <2> QED BY <1>1, <1>2, <1>6, <2>1 DEF WriteUnit
<1>7. CASE WriteWithout \/ WriteBroken
  BY <1>7 DEF WriteWithout, WriteBroken, Base, HandleStates
<1>8. CASE ReadOutput
  <2>1. outpipe' = IF ReadMax < outpipe THEN outpipe - ReadMax ELSE 0
    BY <1>1, <1>8 DEF ReadOutput, Lesser
  <2> QED BY <1>1, <1>2, <1>3, <1>8, <2>1 DEF ReadOutput
<1>9. CASE ControlStep
  BY <1>9 DEF ControlStep, Control
<1>10. CASE Drain("drain", "reap") \/ Drain("discard", "kill") \/ Leave \/ Stop
  BY <1>10 DEF Drain, Leave, Stop
<1>11. CASE \/ At("reap", "spawn") /\ Waited
            \/ At("wait", "done") /\ Waited
            \/ ReapOrKill
  BY <1>11 DEF Waited, ReapOrKill
<1>12. CASE ReadsUnit
  <2>1. CASE taken + 1 = FrameUnits
    <3>1. PICK out \in 0 .. MaxOut :
            taken' = 0 /\ pending' = out /\ behind' = UpTo(behind + out - ReadMax)
      BY <1>12, <2>1 DEF ReadsUnit
    <3>2. behind' >= behind + out - ReadMax \/ behind' = Most
      BY <1>1, <3>1, UpToBounds
    <3>3. /\ out <= ReadMax + behind'
          /\ behind' >= behind + out - ReadMax \/ behind' >= outpipe + out
      BY <1>1, <3>1, <3>2 DEF Most
    <3> QED BY <1>1, <1>2, <1>3, <1>12, <2>1, <3>1, <3>2, <3>3 DEF ReadsUnit
  <2>2. CASE taken + 1 # FrameUnits
    BY <1>1, <1>2, <1>3, <1>12, <2>2 DEF ReadsUnit
  <2> QED BY <2>1, <2>2
<1>13. CASE WritesPacket
  BY <1>1, <1>13 DEF WritesPacket
<1>14. CASE InputEnds \/ Finishes \/ Crashes
  BY <1>14 DEF InputEnds, Finishes, Crashes, Exits, Base, HandleStates
<1>15. CASE Told
  <2>1. CASE UNCHANGED <<child, pending, behind>>
    BY <1>15, <2>1 DEF Told
  <2>2. ASSUME NEW tail \in 0 .. MaxTail, child = "run", child' = "flush",
               pending' = pending + tail, behind' = UpTo(behind + tail)
        PROVE  Backlog'
    <3>1. behind' >= behind + tail \/ behind' = Most
      BY <1>1, <2>2, UpToBounds
    <3> QED BY <1>1, <1>15, <2>2, <3>1 DEF Told, Most
  <2> QED BY <1>15, <2>1, <2>2 DEF Told
<1> QED BY <1>4, <1>5, <1>6, <1>7, <1>8, <1>9, <1>10, <1>11, <1>12, <1>13, <1>14, <1>15
       DEF Next, MainThread, Encoder

(* Main thread and encoder wait for each other at two full pipes only when *)
(* the output has outrun the reads by what the stdout pipe holds.          *)
THEOREM StuckOnlyWhenBehind == ASSUME Roomy PROVE Spec => []WedgedOnlyWhenBehind
<1>1. Init => Flags /\ Base /\ Descriptors /\ FramesAligned /\ Backlog
  <2>1. Init => Backlog
    BY ConstantsAreNumbers DEF Init, Backlog
  <2> QED BY <2>1, InitIsSafe
<1>2. Flags /\ Base /\ Descriptors /\ FramesAligned /\ Backlog /\ [Next]_vars
        => Flags' /\ Base' /\ Descriptors' /\ FramesAligned' /\ Backlog'
  <2>1. CASE UNCHANGED vars
    BY <2>1, StutterKeeps DEF Backlog, vars, frame, process, pipes
  <2>2. ASSUME Flags, Base, Descriptors, FramesAligned, Backlog, Next
        PROVE  Flags' /\ Base' /\ Descriptors' /\ FramesAligned' /\ Backlog'
    <3>1. Base'
      BY <2>2, MainKeepsBase, OthersKeepBase DEF Next
    <3> QED BY <2>2, <3>1, FlagsStay, StepKeepsDescriptors, StepKeepsAlignment,
               StepKeepsBacklog
  <2> QED BY <2>1, <2>2
<1>3. Base /\ Backlog => WedgedOnlyWhenBehind
  BY ConstantsAreNumbers DEF Wedged, WedgedOnlyWhenBehind, Backlog, Base, Fields
<1> QED BY <1>1, <1>2, <1>3, PTL DEF Spec
=============================================================================
