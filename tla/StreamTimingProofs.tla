------------------------- MODULE StreamTimingProofs -------------------------
(* What the timers of a file transfer guarantee, for all values of the     *)
(* time constants and any size of stdio's buffer and of fread().           *)
EXTENDS StreamTiming, TLAPS

LEMMA ConstantsAreNumbers ==
  /\ MaxUnits \in Nat /\ SendTime \in Nat /\ FeedbackEvery \in Nat
  /\ StallLimit \in Nat /\ DrainTime \in Nat
  /\ Want \in Nat /\ Want >= 1 /\ StdioUnits \in Nat /\ StdioUnits >= 1
  /\ StdioUnits <= Want /\ PollTimeout \in Nat /\ PollTimeout >= 1
  /\ IdleLimit \in Nat /\ ReportEvery \in Nat /\ ReportEvery >= 1
  /\ RecvTimeout \in Nat /\ RecvTimeout >= 1
  /\ ShortPackets \in Nat /\ PathCap \in Nat /\ PathCap >= 1
BY FileSenderAssumption, ReceiverAssumption, StreamTimingAssumption

-----------------------------------------------------------------------------
(* The sender's side: types, the account of the units, the seal. *)

SenderInv == SenderFields /\ Accounted /\ Sealed

(* What fread() takes and what it leaves add up. *)
LEMMA ReadAddsUp ==
  ASSUME NEW left \in Nat, NEW before \in Nat, NEW inpipe \in Nat, NEW all \in Nat,
         before + inpipe >= Want, left <= before + inpipe - Want
  PROVE  /\ before + inpipe - Want - left \in Nat
         /\ (all + Want) + left + (before + inpipe - Want - left) = all + before + inpipe
BY ConstantsAreNumbers

LEMMA SendStreamKeepsFields ==
  ASSUME SenderFields, Accounted, sendStream PROVE SenderFields' /\ Accounted' /\ sent' >= sent
<1> USE ConstantsAreNumbers DEF SenderFields, Accounted, From, encoder, timers, LookAtFeedback
<1>1. CASE LoopTest \/ PollReadable \/ PollHangup \/ DrainEnds \/ Pclose
  BY <1>1 DEF LoopTest, PollReadable, PollHangup, DrainEnds, Pclose
<1>2. CASE PollTimesOut \/ Sent
  BY <1>2 DEF PollTimesOut, Sent
<1>3. CASE FreadFull
  <2>1. /\ Available >= Want /\ stdio' \in 0 .. Lesser(StdioUnits - 1, Available - Want)
        /\ pipe' = Available - Want - stdio' /\ sent' = sent + Want /\ stall' = 0
        /\ spc' = "send" /\ spc_t' = 0
        /\ enc' = enc /\ made' = made /\ check_t' = check_t
    BY <1>3 DEF FreadFull
  <2>2. stdio' <= Available - Want /\ stdio' \in 0 .. StdioUnits - 1 /\ stdio' \in Nat
    BY <2>1 DEF Lesser, Available
  <2>3. pipe' \in Nat /\ sent' + stdio' + pipe' = sent + stdio + pipe
    <3> DEFINE left == stdio'
    <3>1. /\ stdio \in Nat /\ pipe \in Nat /\ sent \in Nat /\ left \in Nat
          /\ stdio + pipe >= Want /\ left <= stdio + pipe - Want
      BY <2>1, <2>2 DEF Available
    <3>2. pipe' = stdio + pipe - Want - left /\ sent' = sent + Want
      BY <2>1 DEF Available
    <3> HIDE DEF left
    <3>3. /\ stdio + pipe - Want - left \in Nat
          /\ (sent + Want) + left + (stdio + pipe - Want - left) = sent + stdio + pipe
      BY ONLY <3>1, ReadAddsUp
    <3> QED
      BY <3>2, <3>3 DEF left
  <2>4. sent' \in Nat /\ sent' >= sent
    BY <2>1
  <2>5. SenderFields'
    BY <2>1, <2>2, <2>3, <2>4
  <2> QED
    BY <2>1, <2>3, <2>4, <2>5
<1>4. CASE FreadAtEof
  BY <1>4 DEF FreadAtEof, Available
<1> QED
  BY <1>1, <1>2, <1>3, <1>4 DEF sendStream

LEMMA SendStreamKeepsSeal ==
  ASSUME SenderFields, Sealed, SenderStep PROVE Sealed'
<1>0. sendStream /\ (cut => cut')
  BY Zenon DEF SenderStep
<1>1. spc \in {"top", "poll"} /\ spc' = "drain" /\ enc # "exited" => cut'
  BY Zenon DEF SenderStep
<1>2. g_running' <=> g_running
  BY <1>0 DEF sendStream, LoopTest, PollReadable, PollHangup, PollTimesOut,
              FreadFull, FreadAtEof, Sent, DrainEnds, Pclose
<1>3. enc' = enc
  BY <1>0 DEF sendStream, LoopTest, PollReadable, PollHangup, PollTimesOut,
              FreadFull, FreadAtEof, Sent, DrainEnds, Pclose, encoder
<1>4. ~g_running' => cut'
  BY <1>0, <1>2, Zenon DEF Sealed
<1>5. ASSUME spc' \in {"drain", "pclose", "done"}, ~cut'
      PROVE  enc' = "exited" /\ pipe' = 0
  <2>1. ~cut /\ g_running
    BY <1>0, <1>5, Zenon DEF Sealed
  <2>2. CASE LoopTest
    BY <1>5, <2>1, <2>2 DEF LoopTest, From
  <2>3. CASE PollHangup
    BY <2>3, <1>3 DEF PollHangup, encoder
  <2>4. CASE PollTimesOut
    <3>1. spc = "poll" /\ enc # "exited" /\ spc' \in {"drain", "top"}
      BY <2>4 DEF PollTimesOut, From, Silent
    <3> QED
      BY <1>1, <1>5, <3>1
  <2>5. CASE DrainEnds \/ Pclose
    <3>1. spc \in {"drain", "pclose", "done"} /\ pipe' = pipe
      BY <2>5 DEF DrainEnds, Pclose, From, encoder
    <3> QED
      BY <1>3, <2>1, <3>1 DEF Sealed
  <2>6. CASE PollReadable \/ FreadFull \/ FreadAtEof \/ Sent
    BY <1>5, <2>6 DEF PollReadable, FreadFull, FreadAtEof, Sent, From
  <2> QED
    BY <1>0, <2>2, <2>3, <2>4, <2>5, <2>6 DEF sendStream
<1> QED
  BY <1>4, <1>5 DEF Sealed

(* The encoder writes no more once it has exited. *)
LEMMA EncoderKeeps ==
  ASSUME SenderInv, Encoder PROVE SenderInv'
<1> USE ConstantsAreNumbers DEF SenderInv, SenderFields, Accounted, timers
<1>1. SenderFields' /\ Accounted' /\ (enc = "running" /\ spc' = spc)
  BY DEF Encoder, EncoderStep, EncoderWrites, EncoderExits, EncoderHangs
<1>2. (cut' <=> cut) /\ (g_running' <=> g_running)
  BY DEF Encoder, EncoderStep, EncoderWrites, EncoderExits, EncoderHangs
<1>3. Sealed'
  BY <1>1, <1>2 DEF Sealed
<1> QED
  BY <1>1, <1>3

LEMMA InterruptKeeps ==
  ASSUME SenderInv, Interrupt PROVE SenderInv'
<1>1. SenderFields' /\ Accounted'
  BY DEF SenderInv, Interrupt, Signal, SenderFields, Accounted, encoder
<1>2. cut'
  BY Zenon DEF Interrupt
<1>3. Sealed'
  BY <1>2 DEF Sealed
<1> QED
  BY <1>1, <1>3 DEF SenderInv

LEMMA SenderTickKeeps ==
  ASSUME SenderInv, SenderTick, UNCHANGED cut PROVE SenderInv'
<1>1. SenderFields' /\ Accounted'
  BY ConstantsAreNumbers
     DEF SenderInv, SenderTick, SenderFields, Accounted, encoder, Aged
<1>2. /\ spc' = spc /\ enc' = enc /\ pipe' = pipe
      /\ (cut' <=> cut) /\ (g_running' <=> g_running)
  BY DEF SenderTick, encoder
<1>3. Sealed'
  BY <1>2 DEF Sealed, SenderInv
<1> QED
  BY <1>1, <1>3 DEF SenderInv

-----------------------------------------------------------------------------
(* The receiver's side: types, the two clocks. *)

Counts == net \in 0 .. PathCap /\ shorts \in 0 .. ShortPackets

ReceiverInv ==
  /\ ReceiverFields /\ data_received_ever \in BOOLEAN
  /\ IdleByWaits /\ ReportLagsOnlySilence

LEMMA Timeouts ==
  ASSUME NEW n \in Nat
  PROVE  /\ n * RecvTimeout \in Nat
         /\ (n + 1) * RecvTimeout = n * RecvTimeout + RecvTimeout
BY ConstantsAreNumbers

LEMMA PacketKeeps ==
  ASSUME ReceiverInv, Packet, shorts \in Nat, shorts' = shorts
  PROVE  ReceiverInv'
<1> USE ConstantsAreNumbers
<1>1. /\ data_received_ever' = TRUE /\ idle' = 0 /\ wait' = 0
      /\ since' = IF since >= ReportEvery THEN 0 ELSE since
      /\ rpc' \in {"recv", "final"}
  BY DEF Packet, Again
<1>2. since \in Nat
  BY DEF ReceiverInv, ReceiverFields
<1>3. ReceiverFields'
  BY <1>1, <1>2 DEF ReceiverFields
<1>4. since' < ReportEvery + idle'
  BY <1>1, <1>2
<1>5. idle' <= IdleLimit + shorts' * RecvTimeout + wait'
  BY <1>1, Timeouts
<1> QED
  BY <1>1, <1>3, <1>4, <1>5 DEF ReceiverInv, IdleByWaits, ReportLagsOnlySilence

LEMMA StrayKeeps ==
  ASSUME ReceiverInv, ShortPacket \/ EmptyPacket, shorts \in Nat, shorts' = shorts + 1
  PROVE  ReceiverInv'
<1> USE ConstantsAreNumbers
<1>1. /\ data_received_ever' = data_received_ever /\ idle' = idle /\ since' = since
      /\ wait' \in {0, wait} /\ rpc = "recv" /\ rpc' \in {"recv", "final"}
  BY DEF ShortPacket, EmptyPacket, WaitOn, TakeAsComplete, Again
<1>2. ReceiverFields'
  BY <1>1 DEF ReceiverInv, ReceiverFields
<1>3. idle' <= IdleLimit + shorts' * RecvTimeout + wait'
  <2>1. /\ idle \in Nat /\ wait \in Nat /\ wait <= RecvTimeout
        /\ idle <= IdleLimit + shorts * RecvTimeout + wait
    BY <1>1 DEF ReceiverInv, ReceiverFields, IdleByWaits
  <2> DEFINE before == shorts * RecvTimeout
             after  == (shorts + 1) * RecvTimeout
  <2>2. before \in Nat /\ after = before + RecvTimeout
    BY Timeouts
  <2> HIDE DEF before, after
  <2>3. idle <= IdleLimit + before + wait
    BY <2>1 DEF before
  <2>4. idle \in Nat /\ wait \in Nat /\ wait <= RecvTimeout /\ wait' \in Nat
    BY <1>1, <2>1
  <2>5. idle <= IdleLimit + after + wait'
    <3>1. IdleLimit \in Nat /\ RecvTimeout \in Nat /\ after \in Nat
      BY <2>2
    <3>2. idle <= IdleLimit + after
      BY <2>2, <2>3, <2>4, <3>1
    <3>3. \A w \in Nat : idle <= IdleLimit + after + w
      BY <2>4, <3>1, <3>2
    <3> QED
      BY <2>4, <3>3
  <2>6. shorts' * RecvTimeout = after
    BY DEF after
  <2> QED
    BY <1>1, <2>5, <2>6
<1>4. (data_received_ever' => since' < ReportEvery + idle') /\ (~data_received_ever' => idle' = 0)
  BY <1>1 DEF ReceiverInv, ReportLagsOnlySilence, IdleByWaits
<1>5. data_received_ever' \in BOOLEAN
  BY <1>1, Zenon DEF ReceiverInv
<1> QED
  BY <1>2, <1>3, <1>4, <1>5 DEF ReceiverInv, IdleByWaits, ReportLagsOnlySilence

(* What the rest of the loop leaves alone: a timeout that goes on starts a *)
(* new wait below the limit.                                               *)
LEMMA LoopKeeps ==
  ASSUME ReceiverInv, startReceiving \/ signalHandler, shorts \in Nat, shorts' = shorts
  PROVE  ReceiverInv'
<1> USE ConstantsAreNumbers
<1>1. /\ data_received_ever' = data_received_ever /\ idle' = idle /\ since' = since
  BY DEF startReceiving, signalHandler, RecvTimesOut, IdleExit, WaitOn, TakeAsComplete, FinalReport
<1>2. \/ rpc' = rpc /\ wait' = wait
      \/ rpc' \in {"final", "done"} /\ wait' \in {0, wait}
      \/ rpc' = "recv" /\ wait' = 0 /\ ~(data_received_ever /\ idle > IdleLimit)
  BY DEF startReceiving, signalHandler, RecvTimesOut, IdleExit, WaitOn, TakeAsComplete, FinalReport, Again
<1>3. ReceiverFields'
  BY <1>1, <1>2 DEF ReceiverInv, ReceiverFields
<1>4. (data_received_ever' => since' < ReportEvery + idle') /\ (~data_received_ever' => idle' = 0)
  BY <1>1 DEF ReceiverInv, ReportLagsOnlySilence, IdleByWaits
<1>5. rpc' = "recv" => idle' <= IdleLimit + shorts' * RecvTimeout + wait'
  <2>1. CASE rpc' = rpc /\ wait' = wait
    BY <1>1, <2>1 DEF ReceiverInv, IdleByWaits
  <2>2. CASE rpc' \in {"final", "done"}
    BY <2>2
  <2>3. CASE rpc' = "recv" /\ wait' = 0 /\ ~(data_received_ever /\ idle > IdleLimit)
    <3>1. idle \in Nat /\ idle <= IdleLimit
      BY <2>3 DEF ReceiverInv, ReceiverFields, IdleByWaits
    <3>2. shorts * RecvTimeout \in Nat
      BY Timeouts
    <3> DEFINE slack == shorts * RecvTimeout
    <3> HIDE DEF slack
    <3>3. idle <= IdleLimit + slack + 0
      BY <3>1, <3>2 DEF slack
    <3> QED
      BY <1>1, <2>3, <3>3 DEF slack
  <2> QED
    BY <1>2, <2>1, <2>2, <2>3
<1>6. data_received_ever' \in BOOLEAN
  BY <1>1, Zenon DEF ReceiverInv
<1> QED
  BY <1>3, <1>4, <1>5, <1>6 DEF ReceiverInv, IdleByWaits, ReportLagsOnlySilence

LEMMA ReceiverTickKeeps ==
  ASSUME ReceiverInv, ReceiverTick, shorts \in Nat, shorts' = shorts
  PROVE  ReceiverInv'
<1> USE ConstantsAreNumbers
<1>1. data_received_ever' = data_received_ever /\ rpc' = rpc
  BY DEF ReceiverTick
<1>2. idle \in Nat /\ since \in Nat /\ wait \in 0 .. RecvTimeout
  BY DEF ReceiverInv, ReceiverFields
<1>3. \/ rpc = "done" /\ wait' = wait /\ idle' = idle /\ since' = since
      \/ /\ wait < RecvTimeout /\ wait' = wait + 1
         /\ idle' = IF data_received_ever /\ idle <= IdleBound THEN idle + 1 ELSE idle
         /\ since' = IF since < ReportEvery \/ (data_received_ever /\ since <= IdleLimit)
                     THEN since + 1 ELSE since
      \/ rpc \notin {"done", "recv"}
  BY DEF ReceiverTick, ReceiverWaits
<1>4. ReceiverWaits
  BY DEF ReceiverTick
<1>5. ReceiverFields'
  BY <1>1, <1>2, <1>3, <1>4 DEF ReceiverInv, ReceiverFields, ReceiverWaits
<1>6. ~data_received_ever' => idle' = 0
  BY <1>1, <1>3, <1>4 DEF ReceiverInv, IdleByWaits, ReceiverWaits
<1>7. ASSUME data_received_ever' PROVE since' < ReportEvery + idle'
  <2>1. since < ReportEvery + idle
    BY <1>1, <1>7 DEF ReceiverInv, ReportLagsOnlySilence
  <2>2. CASE rpc = "done"
    BY <2>1, <2>2 DEF ReceiverTick
  <2>3. CASE rpc # "done"
    <3>1. /\ idle' = IF idle <= IdleBound THEN idle + 1 ELSE idle
          /\ since' = IF since < ReportEvery \/ since <= IdleLimit THEN since + 1 ELSE since
      BY <1>1, <1>7, <2>3 DEF ReceiverTick
    <3>2. IdleBound \in Nat /\ IdleBound >= IdleLimit
      BY DEF IdleBound
    <3> QED
      BY <1>2, <2>1, <3>1, <3>2
  <2> QED
    BY <2>2, <2>3
<1>8. ASSUME rpc' = "recv" PROVE idle' <= IdleLimit + shorts' * RecvTimeout + wait'
  <2> DEFINE slack == shorts * RecvTimeout
  <2>1. slack \in Nat
    BY Timeouts
  <2>2. idle <= IdleLimit + slack + wait
    BY <1>1, <1>8 DEF ReceiverInv, IdleByWaits
  <2> HIDE DEF slack
  <2>3. wait' = wait + 1 /\ idle' \in {idle, idle + 1}
    BY <1>1, <1>8 DEF ReceiverTick
  <2>4. idle' <= IdleLimit + slack + wait'
    BY <1>2, <2>1, <2>2, <2>3
  <2> QED
    BY <2>4 DEF slack
<1>9. data_received_ever' \in BOOLEAN
  BY <1>1, Zenon DEF ReceiverInv
<1> QED
  BY <1>5, <1>6, <1>7, <1>8, <1>9 DEF ReceiverInv, IdleByWaits, ReportLagsOnlySilence

-----------------------------------------------------------------------------
(* Both sides together.  A step is of one side, or a tick for both. *)

LEMMA TimingInvParts ==
  TimingInv <=> /\ SenderInv /\ ReceiverInv /\ Counts
                /\ g_running \in BOOLEAN /\ running \in BOOLEAN /\ cut \in BOOLEAN
BY Zenon DEF TimingInv, TimingTypeOK, SenderTypeOK, ReceiverTypeOK, SenderInv, ReceiverInv, Counts

LEMMA ReceiverInvStays ==
  ASSUME ReceiverInv, UNCHANGED <<receiver, shorts>> PROVE ReceiverInv'
<1>1. /\ rpc' = rpc /\ wait' = wait /\ idle' = idle /\ since' = since /\ shorts' = shorts
      /\ data_received_ever' = data_received_ever
  BY DEF receiver
<1>2. ReceiverFields' /\ IdleByWaits' /\ ReportLagsOnlySilence'
  BY <1>1 DEF ReceiverInv, ReceiverFields, IdleByWaits, ReportLagsOnlySilence
<1> QED
  BY <1>1, <1>2, Zenon DEF ReceiverInv

LEMMA SenderInvStays ==
  ASSUME SenderInv, UNCHANGED <<fileSender, cut>> PROVE SenderInv'
<1>1. /\ enc' = enc /\ made' = made /\ pipe' = pipe /\ stdio' = stdio /\ sent' = sent
      /\ spc' = spc /\ spc_t' = spc_t /\ stall' = stall /\ check_t' = check_t
      /\ (g_running' <=> g_running) /\ (cut' <=> cut)
  BY DEF fileSender
<1> QED
  BY <1>1 DEF SenderInv, SenderFields, Accounted, Sealed

LEMMA SenderInvStep ==
  ASSUME SenderInv, [Next]_vars PROVE SenderInv'
<1>1. CASE SenderStep
  <2>1. SenderFields' /\ Accounted'
    BY <1>1, SendStreamKeepsFields DEF SenderStep, SenderInv
  <2>2. Sealed'
    BY <1>1, SendStreamKeepsSeal DEF SenderInv
  <2> QED
    BY <2>1, <2>2 DEF SenderInv
<1>2. CASE Interrupt
  BY <1>2, InterruptKeeps
<1>3. CASE Encoder
  BY <1>3, EncoderKeeps
<1>4. CASE Tick
  BY <1>4, SenderTickKeeps DEF Tick
<1>5. CASE Deliver \/ Lose \/ Stray \/ ReceiverStep \/ UNCHANGED vars
  <2>1. UNCHANGED <<fileSender, cut>>
    BY <1>5 DEF Deliver, Lose, Stray, ReceiverStep, vars
  <2> QED
    BY <2>1, SenderInvStays
<1> QED
  BY <1>1, <1>2, <1>3, <1>4, <1>5 DEF Next

LEMMA ReceiverInvStep ==
  ASSUME ReceiverInv, Counts, [Next]_vars PROVE ReceiverInv'
<1>0. shorts \in Nat
  BY ConstantsAreNumbers DEF Counts
<1>1. CASE Deliver
  BY <1>0, <1>1, PacketKeeps DEF Deliver
<1>2. CASE Stray
  BY <1>0, <1>2, StrayKeeps DEF Stray
<1>3. CASE ReceiverStep
  BY <1>0, <1>3, LoopKeeps DEF ReceiverStep
<1>4. CASE Tick
  BY <1>0, <1>4, ReceiverTickKeeps DEF Tick
<1>5. CASE SenderStep \/ Interrupt \/ Encoder \/ Lose \/ UNCHANGED vars
  <2>1. UNCHANGED <<receiver, shorts>>
    BY <1>5 DEF SenderStep, Interrupt, Encoder, Lose, vars
  <2> QED
    BY <2>1, ReceiverInvStays
<1> QED
  BY <1>1, <1>2, <1>3, <1>4, <1>5 DEF Next

LEMMA CountsStep ==
  ASSUME Counts, SenderInv, [Next]_vars PROVE Counts'
<1> USE ConstantsAreNumbers DEF Counts
<1>1. CASE SenderStep
  <2>1. sent \in Nat /\ sent' \in Nat /\ sent' >= sent
    BY <1>1, SendStreamKeepsFields DEF SenderStep, SenderInv, SenderFields
  <2>2. net' = Lesser(net + (sent' - sent), PathCap) /\ shorts' = shorts
    BY <1>1 DEF SenderStep
  <2> DEFINE after == sent'
             more  == net + (sent' - sent)
  <2>3. more \in Nat
    <3>1. after \in Nat /\ after >= sent /\ sent \in Nat /\ net \in Nat
      BY <2>1
    <3> HIDE DEF after
    <3>2. net + (after - sent) \in Nat
      BY <3>1
    <3> QED
      BY <3>2 DEF after
  <2> HIDE DEF more
  <2>4. Lesser(more, PathCap) \in 0 .. PathCap
    BY <2>3 DEF Lesser
  <2> QED
    BY <2>2, <2>4 DEF more
<1>2. CASE Deliver \/ Lose \/ Stray
  BY <1>2 DEF Deliver, Lose, Stray
<1>3. CASE Interrupt \/ Encoder \/ ReceiverStep \/ Tick \/ UNCHANGED vars
  BY <1>3 DEF Interrupt, Encoder, ReceiverStep, Tick, vars
<1> QED
  BY <1>1, <1>2, <1>3 DEF Next

LEMMA FlagsStep ==
  ASSUME g_running \in BOOLEAN, running \in BOOLEAN, cut \in BOOLEAN, [Next]_vars
  PROVE  g_running' \in BOOLEAN /\ running' \in BOOLEAN /\ cut' \in BOOLEAN
<1>1. g_running' \in {g_running, FALSE}
  BY Zenon DEF Next, SenderStep, Interrupt, Encoder, Deliver, Lose, Stray, ReceiverStep, Tick,
     vars, fileSender, sendStream, LoopTest, PollReadable, PollHangup, PollTimesOut, FreadFull,
     FreadAtEof, Sent, DrainEnds, Pclose, Signal, EncoderStep, EncoderWrites, EncoderExits,
     EncoderHangs, SenderTick
<1>2. running' \in {running, FALSE}
  BY Zenon DEF Next, SenderStep, Interrupt, Encoder, Deliver, Lose, Stray, ReceiverStep, Tick,
     vars, receiver, Packet, ShortPacket, EmptyPacket, Again, startReceiving, RecvTimesOut, IdleExit, WaitOn, TakeAsComplete,
     FinalReport, signalHandler, ReceiverTick
<1>3. cut' \in BOOLEAN
  BY Zenon DEF Next, SenderStep, Interrupt, Encoder, Deliver, Lose, Stray, ReceiverStep, Tick, vars
<1> QED
  BY <1>1, <1>2, <1>3, Zenon

(* The inductive invariant holds for all values of the constants. *)
THEOREM TimingSafety == Spec => []TimingInv
<1>1. Init => TimingInv
  <2> SUFFICES ASSUME Init PROVE TimingInv
    OBVIOUS
  <2>1. SenderInv
    BY ConstantsAreNumbers
       DEF Init, FileSenderInit, SenderInv, SenderFields, Accounted, Sealed
  <2>2. ReceiverFields /\ Counts
    BY ConstantsAreNumbers DEF Init, ReceiverInit, ReceiverFields, Counts
  <2>3. IdleByWaits /\ ReportLagsOnlySilence
    <3>1. 0 * RecvTimeout = 0
      BY ConstantsAreNumbers
    <3> QED
      BY <3>1, ConstantsAreNumbers
         DEF Init, ReceiverInit, IdleByWaits, ReportLagsOnlySilence
  <2>4. /\ g_running \in BOOLEAN /\ running \in BOOLEAN /\ cut \in BOOLEAN
        /\ data_received_ever \in BOOLEAN
    BY Zenon DEF Init, FileSenderInit, ReceiverInit
  <2> QED
    BY <2>1, <2>2, <2>3, <2>4, TimingInvParts, Zenon DEF ReceiverInv
<1>2. TimingInv /\ [Next]_vars => TimingInv'
  <2> SUFFICES ASSUME TimingInv, [Next]_vars PROVE TimingInv'
    OBVIOUS
  <2>1. /\ SenderInv /\ ReceiverInv /\ Counts
        /\ g_running \in BOOLEAN /\ running \in BOOLEAN /\ cut \in BOOLEAN
    BY TimingInvParts, Zenon
  <2>2. SenderInv' /\ ReceiverInv' /\ Counts'
    BY <2>1, SenderInvStep, ReceiverInvStep, CountsStep, Zenon
  <2>3. g_running' \in BOOLEAN /\ running' \in BOOLEAN /\ cut' \in BOOLEAN
    BY <2>1, FlagsStep, Zenon
  <2> QED
    BY <2>2, <2>3, Zenon
       DEF TimingInv, TimingTypeOK, SenderTypeOK, ReceiverTypeOK, SenderInv, ReceiverInv, Counts
<1> QED
  BY <1>1, <1>2, PTL DEF Spec

(* A transfer that ends by itself leaves less than one stdio buffer. *)
THEOREM TailIsBounded == Spec => []TailBounded
<1>1. TimingInv => TailBounded
  <2> SUFFICES ASSUME TimingInv, spc \in {"drain", "pclose", "done"}, ~cut
               PROVE  pipe = 0 /\ made - sent < StdioUnits
    BY Zenon DEF TailBounded
  <2>1. SenderFields /\ Accounted /\ pipe = 0
    BY TimingInvParts DEF SenderInv, Sealed
  <2> QED
    BY <2>1, ConstantsAreNumbers DEF SenderFields, Accounted
<1> QED
  BY <1>1, TimingSafety, PTL

(* Only silence makes the sender's last report older than two seconds. *)
THEOREM ReportsLagOnlyInSilence == Spec => []ReportLagsOnlySilence
<1>1. TimingInv => ReportLagsOnlySilence
  BY Zenon DEF TimingInv
<1> QED
  BY <1>1, TimingSafety, PTL

(* The end of the stream is noticed at most one recvfrom() late, and one   *)
(* more for each datagram without payload.                                 *)
THEOREM ReceiverQuitsOnTime == Spec => []QuitsOnTime
<1>1. TimingInv => QuitsOnTime
  <2> SUFFICES ASSUME TimingInv, rpc = "recv"
               PROVE  idle <= IdleLimit + (1 + shorts) * RecvTimeout
    BY Zenon DEF QuitsOnTime
  <2>1. /\ idle \in Nat /\ wait \in Nat /\ wait <= RecvTimeout /\ shorts \in Nat
        /\ idle <= IdleLimit + shorts * RecvTimeout + wait
    BY TimingInvParts, ConstantsAreNumbers DEF ReceiverInv, ReceiverFields, Counts, IdleByWaits
  <2> DEFINE before == shorts * RecvTimeout
             after  == (1 + shorts) * RecvTimeout
  <2>2. before \in Nat /\ after = before + RecvTimeout
    BY <2>1, Timeouts
  <2>3. idle <= IdleLimit + before + wait
    BY <2>1
  <2> HIDE DEF before, after
  <2>4. idle <= IdleLimit + after
    BY <2>1, <2>2, <2>3, ConstantsAreNumbers
  <2> QED
    BY <2>4 DEF after
<1> QED
  BY <1>1, TimingSafety, PTL
=============================================================================
