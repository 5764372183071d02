# A TLA+ model of the adaptive video stream

This directory holds a TLA+ model of the system in `src/`, the TLC
configurations that check it, and TLAPS proofs of its central properties.
File names below are relative to the repository.

## 1. The system

    camera -> V4L2Capture -> encoder child -> ffmpeg_sender ==UDP==> device bridge
                                                  ^                        |
                                                  | UDP             adb forward (TCP)
                                             device bridge                 |
                                                  ^                        v
                                           adb forward (TCP) <= host bridge =UDP=> ffmpeg_receiver
                                                                                   |   (-> web monitor)

| component | code | state | operations |
|---|---|---|---|
| sequence tracking | `src/ffmpeg_receiver.cpp` 96-169 | `first_seq`, `last_seq`, `total_holes`, `hole_set` | `updateSequenceTracking`, `computeLossRate` |
| receive loop | `src/ffmpeg_receiver.cpp` 211-316 | `last_data_time`, `last_feedback`, `running` | packet, timeout, idle exit, periodic and final report, SIGINT |
| V4L2 capture | `src/v4l2_capture.hpp` | driver queues, `buffers_`, the one-frame slot, two flags | `open`, `start`, `captureLoop`, `dequeue`, `enqueue`, `stop`, `release` |
| sender, file mode | `src/ffmpeg_sender.cpp` 687-798 | pipe, stdio buffer, three timers | poll, fread, send, stall check, drain, `pclose` |
| sender, camera mode | `src/ffmpeg_sender.cpp` 222-293, 317-445, 604-685 | two pipes, child pid, bitrate | start, write frame, read TS, restart, stop |
| feedback and pacing | `src/ffmpeg_sender.cpp` 448-525 | `last_loss_rate`, `feedback_received`, `pacing_delay_us` | `checkFeedback`, `adaptPacing` (MPC, or five levels without `USE_MPC`) |
| MPC controller | `src/mpc_controller.hpp`; its use in `src/ffmpeg_sender.cpp` 464-486, 649-662 | estimates (float), bitrate | `update`, the bitrate decision |
| device bridge | `udp_tcp_bridge.py` | `tcp_conn`, `udp_buffer`, `pending_queue` | one select loop; a feedback thread |
| host bridge | `bridge_host.py` | TCP stream position; a report and its attempt | read frames, reconnect; a feedback thread |
| web monitor | `web_monitor.py` | `latest_stats`; the page's timer | UDP listener, HTTP handler, the page's poll |

The processes interact by datagrams, by the two TCP connections of `adb
forward`, by pipes, and, inside the sender, by memory shared between the capture
thread and the main thread.

What makes the code hard, and what is right about each part:

- *Tracking*: any loss, order and duplication, and a trim.  The counter, the
  set and the window must stay consistent, and the rate must be the true loss.
- *Capture*: two threads and a driver share a few buffers and four fields, of
  which one is atomic.  A buffer has one owner, a frame is not torn or
  unmapped, none is lost, and stop() ends.
- *Data path*: two processes reconnect, retry and flush over a tunnel that
  breaks.  Packets are not duplicated, garbled or, while a connection lives,
  lost.
- *Timing*: six timeouts in two programs race.  Data is not mislaid, stalls and
  ends are noticed, reports are timely.
- *Feedback*: retries over an unframed stream.  Reports are acted upon in
  order, at most once.
- *Pacing*: five levels with caps of their own.  The delay keeps to its range,
  moves the right way, and converges.
- *Encoder child*: two bounded pipes between two processes, one of which writes
  a whole frame before it reads; restarts of which any call may fail; signals
  that reach both.  Raw video stays aligned as long as frames have the size the
  encoder was told, the two block each other only when the encoder's output has
  outrun the reads, no process and no descriptor of an encoder that was started is
  left behind, and the sender stops when told unless it is blocked like that.
- *Controller*: an estimate of the link is drawn from a throughput that the
  controller itself limits.  It must not throttle a good link for ever, nor
  restart the encoder again and again.
- *Monitor*: two threads over one dictionary, answers that overtake each other.
  Whole reports are served, and the page shows the last one in the end; after a
  new start of the monitor its cards and its details may be of two.

## 2. Modules

| module | models | main properties |
|---|---|---|
| `SeqTracking` | the tracker, for any next sequence number | `CounterMatchesSet`, `HolesExact`, `RecentLossKept`, `HolesBounded` |
| `LossLedger` | abstract: what a loss tracker promises | refined by `SeqTracking` (`ImplementsLedger`) |
| `LossyStream` | sender numbering + path + tracker, with the ground truth | `ReportsTruth`, `HeadFollowsStream` |
| `CameraCapture` | driver, capture thread, main thread; one access per step | `ExclusiveBuffers`, `FrameIntact`, `MappedWhileUsed`, `NoBufferLost`, `FramesFlow`, `StopTerminates` |
| `FrameQueue` | abstract: a two-place queue that may be closed | refined by `CameraCapture` (`ImplementsQueue`) |
| `AdbTunnel` | external: the framed TCP stream of `adb forward` | |
| `DeviceData` | `data_channel()` of the device bridge, phase by phase | |
| `HostData` | `data_channel()` of the host bridge | |
| `DataPath` | composition of the three | `AtMostOnce`, `GenuineUnlessTorn`, `SteadyTunnelLosesNothing`, `DrainsOncePaused`, `ComesBack` |
| `PacketRelay` | abstract: take in once, then deliver or lose for good | refined by `DataPath` (`ImplementsRelay`) |
| `FileSender` | `sendStream()` in file mode, with stdio and timers | |
| `ReceiverLoop` | `startReceiving()` with its clocks | |
| `StreamTiming` | composition of the two on one clock | `TailBounded`, `ReportLagsOnlySilence`, `QuitsOnTime`, `BothEnd` |
| `FeedbackPath` | receiver, both feedback channels, `checkFeedback` | `ActsInOrder`, `HandedOnesArrive`, `EventuallySeen` |
| `SenderDelay` | the sender's `pacing_delay_us`, which both forms of `adaptPacing()` move | |
| `Pacing` | the five-level `adaptPacing()` | `SlowsBelowCaps`, `Converges` |
| `EncoderChild` | the camera loop, its encoder and the two pipes; restart and stop | `FramesAligned`, `HandlesAgree`, `WedgedOnlyWhenBehind`, `StopsWhenTold` |
| `MpcControl` | `MPCPacingController::update()`, the `USE_MPC` `adaptPacing()`, the bitrate decision | `BitrateOnlyFalls`, `FewRestarts`, `EncoderNotThrottled` |
| `Monitor` | listener, handler, page | `SnapshotWhole`, `PageFollows` |
| `LatestReport` | abstract: a register read and written in one step | implemented by `Monitor` (`ImplementsRegister`, proved) |
| `LossyStreamProofs`, `CameraCaptureProofs`, `RateControlProofs`, `EncoderChildProofs`, `StreamTimingProofs`, `FeedbackPathProofs`, `DataPathProofs`, `MonitorProofs` | TLAPS proofs | |
| `MC...` | instances for TLC | |

`map` in `PROJECT.json` gives the source lines of each definition.  Operators
marked *Fault* in the modules are plausible bugs of the definition behind them;
each property is checked to fail for one of them (`mutants`).

### How the modules correspond to the code

- `SeqTracking`: the variables are the fields of `FFmpegReceiver`; `received`
  and `floor` are history.  `Ahead` is one whole call, trim included.  The code
  uses 32-bit numbers, a cap of 50000 and a window of 30000; the constants only
  keep window <= cap.  Rates are tenths of a percent (the report is `%.1f`).
- `LossyStream`: a packet has an identity besides its number, so that the true
  loss is known.  `RestartSender` is a new process: `seq_num(1)`.  `Deliver` is
  the receiver's whole handling of a packet: the tracker, and now and then a
  report (`Report`), whose rate is seven tenths of the last report's and three
  tenths of `computeLossRate` (lines 274-276), here in whole tenths of a percent.
  The report at the end of the loop (lines 307-312) carries `computeLossRate`
  itself and may come at any time, so it needs no action of its own.  The
  statistics for the monitor carry the smoothed rate, the last ones too.
- `CameraCapture`: `cpc` and `mpc` are the program counters of `captureLoop()`
  and of the main thread.  The plain fields of the slot are read and written in
  the order of the source; that the atomic `frame_ready_` orders them for the
  other thread is the C++ memory model's guarantee and what the code relies on.
  `QBUF` fails silently when the device is gone, as its callers have it.
  `release()` after a half-way `open()` meets `start` pointers that were never
  set (`new Buffer[n]` leaves them uninitialised): it may munmap whatever they
  hold, so the model lets it end in `closed` or in `crashed`, and
  `StopTerminates` says that only such an `open()` can end in the latter.
- `DeviceData`: `phase` is the place in the loop, `server_ready` and
  `conn_ready` the part of `readable` used later.  `ErrlistReports` says whether
  select() puts a dead connection in its third list, which depends on the
  platform; the runs that must hold take TRUE, where both behaviours are
  allowed.
- `AdbTunnel`: a framed packet is two units, header and body.  A non-blocking
  send() that lacks room may take nothing or take the header (`SendBlocks`);
  `torn` remembers that the latter happened on the present connection.
- `HostData`: payload bytes read as a length may be out of range (the next four
  bytes are tried) or in range: both are allowed.  The device's connection may
  be dead while the host has a new one.
- `FileSender`, `ReceiverLoop`: a tick is one second, of which all timeouts but
  poll()'s 500 ms are multiples; that one counts as a whole tick.
- `FileSender`: data is counted in halves of a stdio buffer.
  fread() asks for 8192 bytes and returns early only at the end of the stream;
  poll() sees only the pipe, not what stdio already took.  The branch for
  fread() returning 0 cannot be reached: it is called only when the pipe is
  readable, and its data branch has met the end of the stream by then.
- `ReceiverLoop`: the rate and its smoothing are in `LossyStream`: here a report is
  an event.  A datagram of one to four bytes is ignored (line 235), an empty one is
  taken for a timeout (line 288).  The program prints "Press 'q' and Enter to stop" but reads no input;
  SIGINT is what clears `running`.
- `FeedbackPath`: a report is two units of a byte stream, so that a recv() may
  join reports or end inside one; what a cut report parses to (0, or a number cut
  short) is `Garbled`.  The host's 60 s keepalive is
  left out: it can close only a connection whose `idle_since` was set in the
  same round.
- `Pacing` models the variant compiled without `USE_MPC`; the scripts build with
  it, so `MpcControl` is what runs by default.  Both move the one variable of
  `SenderDelay`; a program has one of them, so they are never composed.
  `Pacing`'s definitions are called *reactive* where the other's name is taken
  (`adaptReactive`, `ReactiveSpec`), so that one module can hold the proofs of both.
- `EncoderChild`: `pc` is the main thread's place in the camera loop, in
  `restartFFmpeg()` or in `stopFFmpeg()`; `stdin_fd`, `ffmpeg_fd` and
  `ffmpeg_pid` say which of the three fields are set.  Raw data is counted in
  units of the stdin pipe, encoded data in packets.  A `write()` takes one unit
  per step, since it blocks inside a frame; poll() and one `read()` are one step.
  The encoder is external: it reads, makes up to `MaxOut` packets of a frame,
  writes them, ends when its input ends, and may crash at any point.  A frame has
  any length the driver reports (`FrameLens`); `misfed` remembers that the present
  encoder got one of another length than it was told.  `open_fds` counts the ends of
  pipes that are open, those that a failed start keeps in its locals included
  (`leaked`).  `behind` is by how much the output has outrun one read() per frame,
  reads in rounds without a frame not credited.  A read of a
  stdout that has only POLLHUP is skipped, as the code tests POLLIN alone (line
  634), and a failed restart leaves a sender without an encoder, since its result
  is ignored (line 660).  The pid is taken to be the encoder's own, that is,
  `sh -c` is taken to `exec` its only command.  `waitpid()` without a limit (line
  345) is a wait for the child.
- `MpcControl` is the float code in fixed point: estimates in 0.01 Kbps, gain in
  thousandths, loss in 0.01%, costs in tenths.  Because a rounded cost may order two near
  candidates differently, any candidate within `Rounding` of the least may be
  chosen, so the code's own choice is among them; the arithmetic was compared
  with the compiled header over sequences of reports.  One step is a feedback
  interval: `update()`, the delay, and the decision of the camera loop.  The
  throughput is a share of the bitrate, cut off by what the delay lets through.
- `Monitor`: the merge and the dump go field by field, so that one inside the
  other would show.  Answers are on connections of their own and may overtake.
  The last field stands for the sequence numbers, which the page shows only from an
  answer that has some (line 185); a report of the receiver always has (its numbers
  begin with 1), a monitor that has heard of none has not.  `held` is a client that
  connects and asks for nothing: the handler serves one connection at a time and
  waits for it without a timeout.

## 3. Runs

Passing runs (`MC*.cfg`), one per composition:

| run | bounds | shows |
|---|---|---|
| stream | 7 packets, 7 numbers (so the counter wraps), cap 3, window 2, 1 restart, a report no sooner than after 3 and 6 different packets | every loss, order and duplication of 7 packets; trims, repeatedly; a restarted sender and a wrapped counter.  The set, counter and window stay consistent throughout; while one process numbers without a wrap and no trim was needed, a final report carries the true rate and each periodic one approaches it; after a restart the head is right again once the numbers pass the old ones |
| camera | 3 buffers, 4 frames, empty frames, failing ioctls, the device may go | three buffers put one in each hand (driver, thread or slot, main); with four frames the slot is reused and a buffer is filled a second time.  Safety, the two-place queue, frames keep flowing, stop() ends |
| data_path | 4 packets, 2 connections, queues of 2, room for 1.5 frames | trims, a full send buffer that takes nothing or tears a frame, a break, a flush; on the last connection deferred packets drain once the sender pauses; the bridges find each other again |
| timing | the code's time constants, 6 units of data, one packet under way, one datagram that is too short or empty | what the timers do guarantee; both programs end |
| pacing | the code's delays, a rate in each level (four at its threshold) | range, direction, convergence |
| feedback | 4 reports, 2 breaks | order, no loss on an intact connection, arrival |
| encoder | an encoder told 3 units a frame and frames of 2, 3 and 4 over a pipe of 2, up to 3 packets a frame against reads of 2, a stdout of 4, 2 restarts, every failure | a frame that cannot be written in one piece, frames that are too short or too long, an output that outruns the reads until both wait, a second restart after a failed one.  Frames of the right size stay aligned, the two wait for each other only when the output is ahead by more than the pipe less one read, failed starts leave at most four ends of pipes each and everything else is closed, the sender stops unless wedged |
| mpc | 8 updates from five kinds of report: nothing sent, what was set, a burst of three times as much, 2% and 20% loss | the whole descent of the bitrate to its floor, throttling and recovery; the limits, the ratchet, the end of throttling |
| monitor | 3 reports, 2 fetches at once, 1 stop, idle clients | a merge during a dump, an old answer after a new one, a monitor that is stopped and started anew or held by an idle client |

Runs that find a disagreement between the code and what the repository says of
it (`findings` quotes the lines):

| run | what happens |
|---|---|
| data_path_framing | a partial send, retried from its header, breaks the framing |
| encoder_ctrlc | Ctrl+C ends the encoder too; a frame in hand then meets SIGPIPE and the sender dies without its orderly exit |
| monitor_stale | every answer restarts the page's 3 s timer, so it stays "live" after the receiver has ended |

Section 7 lists the disagreements for which no run is kept.

Deadlock checking is off where the modelled programs stop or the bounds (packets,
frames, reports) are used up; it is on for the
pacing and the monitor, which go on for ever.

### Fairness

- `CameraCapture`: both threads are scheduled, and a DQBUF on a streaming device
  need not fail, though it may; the camera fills buffers it has;
  the signal is looked at in each round.  That `WriteFrame` ends assumes that the
  encoder reads its stdin (`EncoderChild` says when it does not).  Nothing makes
  the loop end by itself.
- `DataPath`: each bridge loop keeps running, and the host keeps connecting, as
  it does once a second.  The number of breaks is bounded, so the last
  connection stays up; `DrainsOncePaused` is about that one only, and about a sender
  that has paused: a round sends all new datagrams before it retries one, so under a
  load that keeps the send buffer full nothing is promised to a deferred packet.
- `StreamTiming`: both programs run, time passes, a running encoder goes on
  (a hung one does not), the path delivers or loses each packet.
- `FeedbackPath`: bridges and sender run, the tunnel comes up again.
- `Pacing`: feedback keeps coming and is acted upon.  Strong fairness of
  `adaptReactive` stands for its being called right after each `checkFeedback`.
- `EncoderChild`: the main thread runs; so does the encoder as long as it lives.
  Nothing makes frames come, the drain end early, or the encoder fail.
- `Monitor`: both threads, the page's clock and each answer go on.  The monitor
  need not be started again after a stop, and an idle client need not go.
- `SeqTracking`, `LossyStream` and `MpcControl` state no liveness.

## 4. Proofs

For every value of the constants that the named assumptions allow:

- `LossyStreamProofs`, the tracker.  `CounterMatchesSet` is not inductive alone: the counter
  stays right when a late packet closes a hole only if the set holds numbers
  the tracker has not received, and the trim only if sets are finite.
  `TrackInv` adds that the set is exactly what is missing behind the last trim,
  where the last trim may have cut, and that head and origin were received.
  `TrackSafety` proves it; `CounterNeverDrifts`, `HolesAreExact`,
  `RecentLossIsKept`, `HolesStayBounded` follow.  `TrackerIsALedger` maps each
  action to a step of `LossLedger` or a stutter.  Cardinalities come from
  `FiniteSetTheorems`.
- `LossyStreamProofs`, the stream.  `StreamInv` adds two things to `TrackInv`.
  `Numbered`: until its counter wraps a sender process numbers its packets from 1.
  `Reflected`: the tracker's set, origin and flag are those of the packets that
  were handed over, of which one is the newest.  `StreamSafety` proves it for any
  number of packets and of restarts.  `HeadFollows`: a packet that passes the old
  numbers is of the present process, so the newest packet carries the greatest
  number, and the head is the greatest number received.  `LossRateIsTheTruth`:
  with one process the numbers are the identities, so the holes are what is missing
  of the span from the first packet handed over to the newest; a late packet from
  before that span counts on neither side (`RawRateIsTrue`).  That is what a final
  report carries; one step of the smoothing leaves at most seven tenths of the
  distance to it, rounded (`Smoothing`).  `StreamDrivesTracker` shows that
  the stream takes the tracker only through steps of `TrackSpec`.  The proofs need
  more than one number (`SeqMod > 1`): a restarted sender's 1 is one.
- `CameraCaptureProofs`.  `CameraInv` joins placement (where each buffer is),
  the order in which the slot is written (`SlotWriting`) and read
  (`SlotReading`), and the life cycle of thread and buffers.  `FrameIntact` needs
  all of them: the frame in main's hand is right because the slot was complete
  when `frame_ready_` was seen, and because no buffer outside the driver is
  filled.  `CameraSafety` proves it by cases on the actions;
  `BuffersHaveOneOwner`, `FramesStayIntact`, `BuffersMappedWhileUsed` follow.
  `BuffersCirculate` adds one fact (`SupplyInv`): what open() has mapped so far
  is with the driver.  `CaptureIsAQueue` shows that each step puts a frame into
  the two-place `FrameQueue`, takes or drops one, closes it, or leaves it alone;
  `QueueInv` says why the order holds: frame numbers rise from the main thread's
  last one over the slot and the thread's hand to the filled buffers, and the
  thread gives a frame up only when told to stop.
- `RateControlProofs`, `Pacing`.  `DelayStaysInRange`, `LossSlowsBelowCaps` and
  `AdaptationNeverStalls`, each from a lemma about `NewDelay`, for all caps in order.
  The last is the step whose repetition `Converges` is about: on a clean (or
  hopeless) link each adaptation shortens (or lengthens) the delay until it is at
  its limit.  It needs a `MinDelay` above 0, where tripling does nothing.
- `EncoderChildProofs`.  `ChildInv` joins `HandleStates` (which of the two
  descriptors, the pid and the process are there, by the main thread's place),
  `Emptied` (what is zero without a process or a descriptor) and `FramesAligned`.
  The last needs the other two: a new encoder starts aligned because none of the
  old one's data and no part of a frame is left.  `FramesStayAligned`,
  `HandlesStayInAgreement` follow, for pipes, frames and reads of any size.
  Alignment is that of an encoder that was not misfed; `Descriptors` counts the open
  ends as those of the fields that are set and those that failed starts have left.
  `StuckOnlyWhenBehind` needs more, `Backlog`: what is unread and what the encoder
  has in hand is at most what is put down as `behind`, one read() for the frame
  being written and what a wait lets in.  Then both wait only when `behind` exceeds
  the stdout pipe less one read().  It assumes `Roomy`, that a frame is larger than
  the stdin pipe and a read() not larger than the stdout pipe, and nothing of
  how much the encoder makes of a frame.  The wedge itself exists (section 7).
- `RateControlProofs`, `MpcControl`.  `ControllerStaysInLimits` is for any reports.  The ratchet
  needs `MpcInv`: an estimate of at most 138% of the bitrate, which each update
  keeps because it averages with a throughput of at most that; 0.9 x 138% is less
  than the 125% at which a rise would be worth a restart (`BitrateIsARatchet`).
  Each fall is by more than a quarter, so that after n of them the bitrate is at
  most `BitrateAfter[n + 1]`, and below 133 a fall by more than a quarter would
  pass the floor of 100: five at most (`RestartsAreFew`).  Both are about
  intervals that send no more than 138% of the encoder's bitrate: `outran`
  remembers one that did, as a pipe filled while the sender was throttled, or the
  drain of a restart, may cause.
  `EncoderKeptUp` holds for any history: without predicted loss the loss of today
  fades alike at every rate, so at most 60, 36 and 21.6% of it are left in the
  three steps, and a rate of which 1 Kbps less gets through is dearer than the
  present one by at least 1.7 (`SlowerIsDearer`), which no rounding covers
  (`CheapestKeepsUp`).  The present rate is at least four fifths of the encoder's
  (`BaseRate`), and the delay for a rate lets that rate through.
- `StreamTimingProofs`.  `TimingInv` adds to the type of both programs where
  every unit of the file is (`Accounted`), that stdio keeps less than a buffer
  once the encoder has ended its output (`Sealed`), and that the receiver's
  clocks keep in step with its waits (`IdleByWaits`).  `TailIsBounded`,
  `ReportsLagOnlyInSilence` and `ReceiverQuitsOnTime` follow for all time constants and
  buffer sizes that the named assumptions allow.

- `FeedbackPathProofs`.  `FeedbackInv` says that the reports on every leg (the
  host's list, the unread bytes, the UDP socket, the sender's last read) are in
  order, and each leg's no older than what the next one holds; a connection
  that is replaced carries nothing newer than its successor.
  `ReportsActInOrder` follows, for any number of reports and breaks.
  `NoReportLostOnTheWay` is about what was handed to the connection that is
  alive: `HandedInv` adds that a new connection starts with nothing handed over.
  Each step moves a report from the wire to the socket or from there to the sender,
  and `PiecesCover` says that what a recv() takes and what it leaves have every
  report of the stream between them, a cut one included.
- `DataPathProofs`.  `DataInv` joins three arguments.  `Placement`: a packet is
  in one of the kernel's queue, the two buffers and the stream, once, and only
  before it is delivered (`NoDuplicates`).  `Framed`: until a frame is torn the
  host has whole frames before it, and as long as the connection is open no
  partial one (`HeadersInStep`).  `ConnsKnown`: the device's connection is not
  newer than the newest.  `NothingLost` needs all three: the host's read takes a
  packet out of the stream only to deliver it.  `StepKinds` shows that every step
  takes one packet in, delivers one, or does neither and only drops some; from
  it follows that the data path is a `PacketRelay` (`RelayImplemented`).

- `MonitorProofs`.  `MonitorInv`: listener and handler exclude each other
  (`Exclusive`), the fields merged so far are of the report in hand and all others
  of one older report (`Merging`), and what has been dumped is what the dictionary
  still holds (`Dumping`).  `ServedWhole` follows, for any number of reports,
  fetches and stops; a handler without the lock breaks `Exclusive`.  It also says in
  which way a page can mix two reports: cards of none beside details of an old one.
  `MonitorIsARegister` says more: merge and dump take effect in one step each, the
  merge at its last field, and an answer is the newest report merged by then.  It
  needs `Ascending`: what waits in the socket is newer than what is in hand, and
  that newer than what it replaces.

Every invariant and every action property of the passing runs is proved.
Model-checked only: all liveness,
`Converges` and `PageFollows` included (the provers at hand do not treat fairness
and ENABLED); and the runs that are expected to fail.

## 5. Bounds

Each bound is a CONSTANT with a comment (`MaxSend`, `MaxRestarts`, `MaxFrames`,
`ReportSpacing`, `MaxPkts`, `MaxConns`, `MaxUnits`, `ShortPackets`, `PathCap`, `MaxReports`,
`MaxBreaks`, `MaxUpdates`, `MaxStats`, `MaxFetches`, `MaxStops`).  Timers in `StreamTiming` stop growing some way beyond the largest
value the code compares them with.  `PathCap` keeps the path of `StreamTiming` to one
packet at a time, which may be held up as long as one likes; packets beyond it
are lost, which the path may do anyway.

The encoder's sizes keep the ratios that matter: frame > stdin pipe (614400
bytes over 64 KB), a frame's output > one read() (nothing bounds a key frame to
8 KB), stdout pipe > one read().  `ReportSpacing` is 3 in the instance, to keep it
small, and any number in the proofs.  Eight updates suffice
for `MpcControl` to reach the floor of 100 Kbps and to come back from the
longest delay; what lies beyond is covered by the proofs.  `Rounding` is one
unit of cost; the proofs allow 1.6, far more than what rounding down and the
code's floats can differ by in comparing two rates of no predicted loss.

## 6. Not modelled, and what is left to do

Left out for good: `adb forward` set-up, command lines, build and Yocto files (no
run-time state), the contents of frames and packets, the output file, and the
displayed rates (the sender computes them in 32 bits at lines 667 and 714, which
overflows after 268 KB and changes no decision; the receiver's line 281 uses a
64-bit total).

What would add most next:

1. Compositions: capture with the encoder child (a stalled encoder against the
   one-frame slot), `FeedbackPath` with `MpcControl` (stale reports).
2. Proofs: the steps that the liveness properties repeat (what shrinks in each
   round), as `AdaptationNeverStalls` is for `Converges`.

## 7. Other disagreements

The models contain these, and no run is kept for them.

Receiver:

- `src/ffmpeg_receiver.cpp:140`: a restarted sender, or a wrapped 32-bit counter,
  sends numbers that all look late; line 141 names the wrap as a case that the
  branch handles.  `HeadFollowsStream` says when the tracker recovers.
- `src/ffmpeg_receiver.cpp:299`: "transfer complete" after 5 s, in a pause of the
  encoder that the sender tolerates for 10 s.
- `src/ffmpeg_receiver.cpp:262`: reports only when a packet arrives, none in an
  outage (`CHANGELOG.md:40`: every 2 s); `ReportLagsOnlySilence` is what holds.
- `src/ffmpeg_receiver.cpp:307`: the final report is sent at least 5 s after the
  last packet, the sender's last drain ends after 3 (`src/ffmpeg_sender.cpp:770`):
  it does not count, unless a stall of the sender or a SIGINT to the receiver puts
  it inside the drain.
- `src/ffmpeg_receiver.cpp:276`: the periodic reports carry a smoothed rate; after
  the first two seconds of a loss of 10% the sender is told 3%.  The last statistics
  for the monitor (line 313) carry the smoothed rate too, beside a final report that
  does not.

Capture and sender:

- `src/ffmpeg_sender.cpp:611`: a frame of length 0 is dequeued and never given
  back to the driver; `NoBufferLost` excepts it.
- `src/v4l2_capture.hpp:242`: any errno of DQBUF but EINTR ends the capture thread for
  good, a transient EIO too; the camera loop goes on without frames and says nothing.
  `FramesFlow` excepts it.
- `src/ffmpeg_sender.cpp:612`: a frame is written as long as the driver says it is
  (`src/v4l2_capture.hpp:260`), and the encoder is told the requested size (lines
  265-269), not the one that S_FMT may have adjusted (`src/v4l2_capture.hpp:73`): a
  frame of another length misaligns the raw stream until the next restart.
- `src/ffmpeg_sender.cpp:245`, and 357 in a restart: when the second pipe() or fork()
  fails, two or four descriptors stay open.  `HandlesAgree` counts them.
- `src/v4l2_capture.hpp:101`: the unset `start` pointers after a failed `open()`.
- `src/ffmpeg_sender.cpp:739`: the 10 s stall test is not reached while `fread()`
  (line 696) waits for the rest of its 8192 bytes.
- `src/ffmpeg_sender.cpp:441`: `pclose()` waits as long as the encoder lives: with one
  that hangs the sender never ends, and `BothEnd` supposes that it exits.
- `src/ffmpeg_sender.cpp:752`: bytes in stdio's buffer are lost at POLLHUP;
  `TailBounded` says how many at most.
- `src/ffmpeg_sender.cpp:508` and 510: a level's cap shortens a delay that a
  higher level had raised beyond it, under loss (`CHANGELOG.md:42`).
- `src/ffmpeg_sender.cpp:418`: `stopFFmpeg()` reads what the encoder flushes and
  discards it; `CHANGELOG.md:127` has "flush, drain, finished".
- `src/ffmpeg_sender.cpp:614`: an encoder whose output outruns one `read()` of 8 KB
  per round, as a run of large key frames may, fills its stdout, and then both
  processes wait for each other; `WedgedOnlyWhenBehind` says how far it must have come.
  With a stdout that cannot hold a frame's output and the flush, Ctrl+C during a
  blocked `write()` hangs both: the handler is installed with restarting calls.
- `src/ffmpeg_sender.cpp:634`: POLLHUP without POLLIN is ignored: a sender whose
  encoder has ended goes on until it writes (and is killed by SIGPIPE) or is told
  to stop.  Line 660: after a failed restart it goes on without an encoder.
- `src/ffmpeg_sender.cpp:655`: the bitrate never rises again, short of a burst.
  `README.md:19` ("500→370→275Kbps") describes the descent; the range of
  `CHANGELOG.md:307` (100-1500) is reached at its lower end only.
- `CHANGELOG.md:262`: "3000→1000us, one step, no oscillation" is true of a fresh
  controller.  `EncoderNotThrottled` says when it is true after a history of loss.
- `src/mpc_controller.hpp:139`: its condition `100 * tput <= bw` is needed.
  After a burst above the bandwidth estimate every rate near the measured one is
  predicted to lose, so that the controller may choose half of it and throttle a
  sender on a link that lost nothing and is thought to carry the encoder's rate.

Feedback and bridges:

- `src/ffmpeg_sender.cpp:460`: of reports joined into one datagram the first, the
  oldest, counts (`mpc_controller.hpp:23` takes it for the present loss); a
  report cut in two by a recv() of the device bridge reads as a loss of 0.
- `udp_tcp_bridge.py:91`: packets put aside for retry are dropped with the
  connection, against the comment of line 90 and `CHANGELOG.md:149` (none lost).
- `udp_tcp_bridge.py:119`: a flush that fills the send buffer drops the packets
  it has not sent, against the comment of line 106.
- `udp_tcp_bridge.py:126`: all new datagrams are sent before the deferred ones are
  tried again (line 174): under a load that keeps the send buffer full these wait on,
  until they are trimmed.

Monitor:

- `web_monitor.py:185`: the details are shown only from an answer with sequence
  numbers, the cards from any: after a new start of the monitor zero cards stand
  beside the details of the last report before it.
- `web_monitor.py:321`: one connection is served at a time, without a timeout: a
  client that connects and asks for nothing keeps all others waiting.
