# Verification of pyRadar's capture path

TLA+ models of pyRadar, the program that streams raw radar samples from a TI
mmWave sensor through a DCA1000 board into Python and a small web service, with
the TLC runs that check them and the TLAPS proofs about them. Paths are relative
to the repository (`src/` is its root).

    tlc -workers 2 -config MCUnlockQueue.cfg MCUnlockQueue   # one run
    tlapm UnlockQueueProofs.tla                              # the proofs

## 1. The system

### Components

| Component | Source | State | Operations | Status |
|---|---|---|---|---|
| Packet ring buffer | `fpga_udp/src/kfifo/unlock_queue.h` | slots, `_in`, `_out` | `Put`, `Get`, `Get_wait` | modelled, proved |
| UDP frame capture | `fpga_udp/src/main.cpp` | queue, receive buffer, `*PacketNum_g`, `udp_continue_g` | receive thread, `udp_read_thread_get_frames`, `postProc_packet_sort`, start/stop | modelled but for misuse of start/stop, proved |
| Blocking and async readers | `fpga_udp/src/main.cpp` | `udp_mutex`, `udp_async_mutex`, `udp_val` | `read_data_udp*` | not modelled |
| Serial data buffer | `fpga_udp/src/main.cpp`, `WzSerialportPlus.cpp` | `serial_buf_ptr`, `memidx`, port, read thread | start, read, reset, stop, receive callback | not modelled |
| DCA1000 client | `mmwave/dataloader/adc.py` | two sockets, parameters | commands with replies, capture calls | as the worker uses it |
| TI radar command line | `mmwave/dataloader/radars.py` | serial port | opening, `setFrameCfg`, `startSensor`, `stopSensor` | as the worker uses it |
| Capture worker | `realTimeProc_fastapi.py` | its socket, radar, DCA1000 | configure, stream, stop, clean up | modelled, proved |
| Real-time controller | `pyradar_web/app/services/realtime_controller.py` | process, sockets, results, threads | `start`, `stop`, `status`, reader and socket threads | modelled, proved |
| HTTP/WebSocket API | `pyradar_web/app/api/realtime.py` | result marker per client | requests, `_stream_results` | requests modelled |
| AWR2243 control | `mmw_example_nonos.cpp`, `mmw_config.c` | event flags, open configuration file, device state | init, frame configuration, start, stop, waits, continuous streaming, firmware download, power-off, event handler | modelled but for the demonstration, proved |
| mmWaveLink driver | `rl_driver.c`, `rl_device.c`, `mmwl_port_ftdi.cpp` | interrupt counters, command under way, lock, IRQ mask | command and response, event readers, polling thread, power on/off | command and event path modelled, proved |
| OS layer of mmWaveLink | `rls_osi.cpp`, `rl_nonos.cpp` | locks, semaphores | create, delete, lock, spawn | as the driver uses it |
| Group tracker | `gtrack/src` | unit lists, track states | predict, associate, allocate, update, event | not modelled |
| Metrics, config files, COM list | `pyradar_web/app/services`, `app/api/config.py` | none | parsing | not modelled |
| DSP, scripts, UI, vendored drivers | `mmwave/dsp`, `*.py`, `app.js`, the rest of `mmwaveDFP_2G`, `FTDI_D2XX` | - | - | not modelled |

### How they interact

The worker process configures the DCA1000 (commands and replies on one UDP
socket), starts the receive thread of `fpga_udp` on the other, and starts the
radar over a serial line. The receive thread puts packets into the ring buffer;
the worker's loop takes them out through `udp_read_thread_get_frames`, which finds
a frame start and sorts. Summaries go as JSON lines over a TCP connection to the
web service. There a controller object keeps the worker's process and sockets; it
is used by request threads, and for each session by one thread that reads the
worker's output and one that reads its results. Browsers poll a WebSocket.

For an AWR2243 the sensor is controlled over SPI instead: the `AWR2243_*`
functions of `fpga_udp` call TI's example code, which sends commands through
mmWaveLink. There a polling thread watches the interrupt line through an FTDI
chip and, unless a command waits for its response, spawns a thread that reads the
message and calls the example's event handler; the handler sets the flags that
the example's functions wait for.

### What is hard

- Two threads move the same counters of the ring without a lock, and the
  producer may take items away under the consumer (override when full).
- Packets are lost, overtaken and dropped; buffers are reused uncleared.
- Every session of the controller leaves threads behind that act on shared
  fields some time after the session has ended.
- Commands to the board have a one-second timeout; a late reply stays in the socket.
- Stop has a time limit after which the worker's own cleanup is skipped: the
  radar and the board stream on.
- On the radar link an interrupt means a response or an event, or nothing, when
  the polling thread did not get the chip and went by its last look; the waiting
  command, the polling thread and a reader decide between them who reads it, with
  timeouts, damaged messages, retries and a masked interrupt in between.
- The sensor functions overwrite results, wait for flags set by another thread,
  and keep flags over resets.

### What makes each component correct

- Ring: nothing is overwritten that can still be read; an undisturbed `Get_wait`
  returns the oldest items; no counter update is lost; `Get_wait` returns.
- Capture: results begin at a frame boundary; every word is the stream's word of
  its position or was never received; the loss is visible in the counts; no packet
  is used twice and no more than one frame is skipped.
- Controller: one worker at most; a stop ends it; an exit is noticed; a session is
  not disturbed by the one before.
- Worker: no stream leaves the board when it has ended by itself, although a step
  failed (one of radar and recording may be left on); a new one does not go on with an old stream; its frames and the replies
  it believes are its own; a stop ends it.
- Radar link: no read without a message but for an interrupt on an old look, no
  message without a reader, no interrupt masked for ever, no response taken for
  another command's, commands return, events arrive.
- Sensor: OK from init and stop means what it says, the started flag follows the
  sensor, init starts from a reset device, calls return.
- Not modelled yet: no deadlock and no double start (blocking and async readers);
  no result lost or repeated (result stream); unit lists well formed (tracker).

`PROJECT.json` lists the hazards at their lines, with the properties that cover
them.

## 2. The modules

| Module | What it is |
|---|---|
| `PacketStream` | what the ring promises: a bounded FIFO of numbered items |
| `UnlockQueue` | the ring buffer, one action per load, copy or update of a thread |
| `ModuloLemmas` | facts about `%` (proved) |
| `UnlockQueueProofs` | the theorems about `UnlockQueue` |
| `PacketSort` | the arithmetic of frame starts and `postProc_packet_sort`, as operators |
| `UdpFrames` | network, receive thread and `udp_read_thread_get_frames` |
| `UdpFramesProofs` | the theorems about `UdpFrames` |
| `RealTimeController` | the controller, its threads, the request threads and the workers |
| `RealTimeControllerProofs` | the theorems about `RealTimeController` |
| `CaptureSession` | workers one after the other on one board and radar: commands, replies, receive thread, stop, kill |
| `CaptureSessionLemmas`, `CaptureSessionProofs` | the theorems about `CaptureSession` |
| `MmWaveLink` | the driver's path of a command, of an event and of the interrupt |
| `MmWaveLinkProofs` | the theorems about `MmWaveLink` |
| `Awr2243` | the sensor functions as programs, the event reader, the device |
| `Awr2243Proofs` | the theorems about `Awr2243` |
| `MC*` | the same for TLC, with the `.cfg` files |

A definition whose comment begins with "Variant:" is a plausible mistake in the
definition after it. No specification uses it; put in the place of that
definition it makes TLC report the property named in `PROJECT.json`, which shows
that the property depends on the code.

### UnlockQueue

Items are numbered in the order of their `Put`; `buf` holds a number, or `Torn`
(read while written), `Unset`, `Beyond` (past the array). `in` and `out` are the
unbounded counters; the code uses their difference as a `uint32_t` (`U`) and their
low bits (`% Size`), and both are what the model uses. `Put` is
`PutCheck` - `PutOverride` - `PutCopyBegin` - `PutCopyEnd` - `PutPublish`; `Get_wait`
is `GetCall`, polls of `PollLoad`/`PollTest`, then `Get`: `GetLoad`, `GetLen`,
`GetSpan`, `GetCopyBegin`, `GetAdvance`. C++ does not order the two loads of
`_in - _out`: `LoadFirst` takes either first. A copy takes two steps on each side;
a slot written between them makes the item read `Torn`. The loads are sequentially
consistent here; the release/acquire pairs of the code give the same order between
a published item and its reader.

The history variables `clean`, `from`, `skipped`, `delivered` say whether an
override disturbed the `Get_wait` in progress, where its copy began, and what
happened to every item.

### PacketSort and UdpFrames

A stream word is its position, so a result can be compared with the stream word
by word. `Put` and `Get_wait` are atomic; that is the FIFO `UnlockQueue`
implements until an override, and `ReceivePacket` adds the override as the loss
of the oldest packet (the torn reads it can cause are in `UnlockQueue` only). A
`Get_wait` that finds too few packets may time out at any moment. The buffer of
a call is new (zeros) or still holds the records of the call before: both are
what an uncleared allocation gives. `sort = True` is modelled. Duplicated
packets are not (the board is on a direct link).

### RealTimeController

A section under `_lock` or `_conn_lock` is one action, so is `start`, which holds
`_lock` throughout. The process model is `boot`, `connected`, `closing` (stdout
closed but `poll()` still None) and `dead`. Closing a socket while another
thread waits on it is nondeterministic: the wait goes on (Linux) or fails
(Windows). The worker may exit at any time. `kill` makes it exit.

History: `raced` (a stop has cleared another session's process), `settled` (a
stop has returned and no start came since), `asked` (a stop was under way since
the newest start), `calm` (the newest start found the older threads over).

### CaptureSession

`pc` walks through `run_hardware` (`After`); an exception goes to the `finally`
clause (`Raise`), one in there is swallowed. A command is a datagram in `wire`;
the FPGA takes it, and its reply goes through `back` into the socket's queue
`inq`, from which the worker takes the first, whatever it is. The timeout of one
second may come while the reply is under way. Every packet of a recording carries
its session's number; `kernel`, `ring` and `shown` are the sets of sessions whose
packets are in the data socket, in the ring and in the buffer taken last. `kill`
may come at any step once a stop was sent; the system closes the sockets and the
device goes on. `Bind` and `Sleep` carry the two assumptions on time: loading
NumPy takes longer than a reply on the cable (else it counts as a fault), and the
five seconds' sleep is longer than the FPGA needs for the requests before it.

Composition: `RealTimeController` says when a worker is told to stop or killed
and what the controller makes of it, `CaptureSession` what the worker does then
to the devices, `UdpFrames` what a `Get` returns.

### MmWaveLink

One thread executes commands (a command has one caller at a time: the lock of
the device sees to it), the polling thread turns the line into signals, each
signal becomes either the response a command waits for or a spawned reader
(`IrqSignal`, `CmdSpawn`). The polling thread acts on `checkIrqRes`, which is high at
its start and keeps its value when the chip's lock is not got within a second;
a chip that cannot be read counts as a low line (`IrqPoll`). An interrupt raised on
an old look (`stale`, a history variable) has somebody ask for a message that may
not be there: that read fails, and unmasks. The system may refuse a thread
(`MaxReaders`): the handler ignores it, the command returns `OSIF`. A response may say
that more chunks follow (`CmdMoreChunks`). `rlDriverWaitForResponse` then goes round
its loop, but `isCmdRespWaited` is cleared by now: no pass reads anything, each only
starts a reader if a message is pending, and those wait for the lock that the
command holds. The call returns when a thread is refused, otherwise never
(`CmdChunks`); on Windows, where `osiExecute` reports no refusal, never. This is what
`CommandReturns` and `EventDelivered` except by `Stuck`, with the lock kept by a command
whose sub-blocks cannot be appended (`CmdBad`). The two interrupt counters have the
range of the model (`CntMod`), sequence numbers too (`SeqMod`). A message can be
damaged in its header, its length or its checksum, a write or read can fail, a response can come
after its command was given up. The message layout is left out, the checks on
it are not. `ConfirmedExecuted` has two conditions. A command given up (`gaveUp`)
leaves the sequence number as it is, and its late response has the number of the
next command. And the number, which has four bits, comes round while a message
with it is still under way (`lapped`, a history variable): retries leave commands
and responses behind, one for each attempt that timed out, and when sixteen have
gathered an old response is taken for a new command's. `LapsWhenCrowded` says that
it takes as many.

### Awr2243

Every `MMWL_*` function is a sequence of steps (a command, a wait, a flag, the
board or link), the programs of the `MMWL_App_*` functions are put together of
them, and `AppStep` interprets the program of the call. Commands that are checked one
after the other and have no wait between them are one step. What a command does
while it is carried out is `MmWaveLink`; here it is executed, refused, lost or
answered late. The device (`Executed`, `Refuses`, `Announces`, `DevEvent`) is
external. A board reset takes longer than a reader of a link that was shut
(`Reset`).

The history variable `regular` says that nothing came late or was lost since the
reset, no sensor was started while transmitting, no power-off overtook an event,
and the reset found the started flag clear: then the flag follows the device. What
happens otherwise: after a power-off during transmission `isSensorStarted` stays
1 through the next init, and `waitSensorStop` then does not return; a second start
clears the flag, and a stop reports OK while the sensor transmits.

Of the results that later ones overwrite, one matters: when calibration data is to
be stored, `rlRfCalibDataStore`'s result takes the place of `rlRfInit`'s and of the
timeout of its wait, so that init reports OK on a device that is not calibrated.
`InitOkConfigured` excepts that case by name.

## 3. The runs

| Run | Question | Bounds |
|---|---|---|
| `unlock_queue` | invariants, `IInv`, refinement of `PacketStream`, `GetReturns` | 4 slots, blocks of 1-2 put and 0-3 taken, 7 items, one poll: the ring wraps, overruns, and blocks straddle its end; `_out` up to 2 ahead at a call |
| `unlock_queue_override` | violation of `ReadBeforeOutMoves` | 2 slots |
| `udp_frames` | contents, boundaries, skips and repeats of results | packets of 3 words, frames of 5 (so that every alignment occurs), results of one frame, 10 packets, 2 in flight: several results, with loss, overtaking, overrun, timeouts |
| `udp_header` | violation of `HeaderStripped` | 3 packets |
| `udp_wrap` | violation of `Aligned` | range of the counter 16, frame 5 |
| `controller` | `OneWorker`, `StopStops`, `CalmSession` | 2 request threads, 2 sessions: a start and a stop, or two stops, overlap, and threads of the first session outlive it |
| `controller_live` | `StopEndsWorker`, `ExitNoticed` | 1 request thread, 2 sessions |
| `capture_session` | `QuietAtEnd`, `OwnStream`, `FramesOwn`, `ReportTrue`, `StopEnds` | 2 workers, 2 faults in all: the second worker finds what the first left when it was killed or failed anywhere; both faults may fall in one session |
| `mmwavelink` | the link's invariants, `CommandReturns`, `EventDelivered` | 2 commands, 1 event, 1 retry, 1 waiting reader before a thread is refused, 1 fault (a transfer damaged or lost, or a look at the line missed), sequence numbers 0-1, counters 0-2: a late response meets the next command, an event meets a waiting command, an interrupt comes without a message, numbers and counters wrap |
| `awr2243` | what an OK means, `StartedAgrees`, `FreshStart`, `CallReturns`, `WaitSeesEnd` | 5 calls of 9 functions in any order, 3 configuration files, 1 fault or late event: init, frames, start, wait, start again; a second init with a reset that fails |
| `controller_stop` | violation of `StopMeansStopped` | as `controller` |
| `controller_socket` | violation of `KeepsItsSocket` | 1 request thread, 2 sessions |

Deadlock is not checked where a bound stops the model (`MaxIn`, `MaxSeq`); it is
checked for the controller. `CaptureSession`, `MmWaveLink` and `Awr2243` stop when
their workers, commands or calls are used up, `MmWaveLink` also when the lock is kept. The request threads are symmetric in the safety run.

Bounds: `MaxIn`, `MaxLead` (how far `_out` may be ahead of `_in` when a `Get_wait`
begins: each override adds to the lead, nothing in the code limits it, and past
the range of a `uint32_t` minus the ring the room is miscomputed), `MaxSeq`,
`MaxInFlight`, `MaxSessions`, `MaxCmds`, `MaxEvents`, `MaxReady`, `MaxReaders`, `MaxCalls`,
and `MaxFaults`. Without their `mishaps <= 1`, `QuietAtEnd` and `OwnStream` fail with two
faults in one session, `FramesOwn` and `ReportTrue` with three in all. Larger
instances of the safety properties, too slow for a run, were checked by hand
without an error: `CaptureSession` with `IInv` at 3 sessions and 2 faults and at 2
sessions and 3 faults, `MmWaveLink` with 2 callers, 2 faults (a missed look and a
damaged transfer in one behaviour), 2 waiting readers and 2 messages ready, `Awr2243` with `IInv` at 2
calls and 1 fault and at 3 calls and 2 faults.

### Fairness

`UnlockQueue`: a thread in the middle of a call goes on (weak fairness of its
steps); no call has to be made. `GetReturns` then rests on the count of polls
alone. `RealTimeController`: request threads and reader threads go on, a wait
with a timeout ends, and the system reaps a process that is ending. Nothing is
assumed of the worker, of `accept` or of `recv`. `CaptureSession`: the worker's
steps (each has a timeout), the arrival of what was sent. `MmWaveLink`: the threads
go on, locks included (weak fairness is enough: commands and events are bounded,
so a lock is free in the end, unless it is kept for good: `Stuck`); the looks at the
line that fail are bounded; nothing is assumed of the device. `Awr2243`: the
application and the reader thread go on, and the device ends what it has begun.

### What the violations show

1. `unlock_queue.h:45`: an override while a `Get` is under way.
2. `main.cpp:188`: the first packet's header is not skipped.
3. `main.cpp:316`: the byte position is a 32-bit product.
4. `realtime_controller.py:135`: stop forgets a newer worker.
5. `realtime_controller.py:179`: a late reader closes the next session's sockets.

The properties that hold say how far each goes. The ring's safety survives
overrides except for the `Get_wait` they disturb. Behind the first packet's
share a sorted frame is exact. The controller keeps its promises as long as no
stop finishes over another session, and a session is undisturbed when the
threads of the one before are over. A capture session survives any one fault; but
after a kill the first frames of the next session are the old stream's, without
any fault (`FramesOwn` without its condition fails).

## 4. The proofs

`UnlockQueueProofs` proves for every `Size`, `MaxPut <= Size`, `MaxGet`, `TimeoutMs`,
`MaxIn`, `MaxLead` and `Modulus > Size + MaxLead + MaxGet + MaxPut`
(`SizeAssumption`):

- `QueueInvariant`: `IInv` always holds; and as consequences `QueueTypeCorrect`,
  `QueueRoom`, `QueueCleanGet`, `QueueShortMeansTimeout`, `QueueAccounted`;
- `QueueImplementsStream`: the ring implements `PacketStream` under the mapping
  head = `_out`, tail = `_in`, overrun = an override has happened.

Why `IInv` is more than the properties: that a `Get_wait` returns the right items
depends on what is in the slots (`WindowInv`: the ring holds the last `Size` items
but those being overwritten), on the room the producer left (`RoomInv`, which
needs `LeadInv` so that the `uint32_t` difference is the true one), and on what
the consumer has loaded so far (`CleanInv`, one conjunct per program point).
`UndisturbedInv` connects these with the refinement. The step lemmas take one
action each; the arithmetic they need about slots is in `SourceIsSlot`, `WindowItem`
and `CleanSource`, which rest on `ModuloLemmas` (`%` of sums, of consecutive
numbers, and across the end of the ring).

`MmWaveLinkProofs` proves for every number of retries, commands, events and faults
and every range of the counters: `Invariance` (`IInv` always holds), and from it
`TypeCorrect`, `ReadsReady`, `MaskedForAMessage` and `NoneStranded`. `IInv` adds to the
properties how the two counters differ (`CountInv`), that the interrupt is masked from
its detection to the read it asks for, and with a message at the device unless it
was raised on an old look (`MaskInv`), who holds the lock at which
point (`LockInv`), and that every signal not yet answered has a command or a
reader on its way to it (`CoverInv`): no message is stranded because each step
hands that duty on.

`ConfirmedMeansExecuted` and `LapsOnlyCrowded` rest on `MatchInv` and `AgeInv` as well, for
every range of the sequence numbers. `MatchInv`: what is under way with the current
number is the current command's, and nothing has it between two commands (`OwnInv`);
a response under a command's identifier comes from its execution (`ExecInv`); so does
the message on which the command's verdict was OK (`VerdictInv`). `AgeInv` counts: a
message is at most as many numbers old as there are messages behind it, those lost
by faults included. It is inductive because a number is given out only after a
command with the last one went in behind the older messages (or was lost), and
messages leave at the front. `LapsWhenCrowded` is no property of a run; with `MatchInv`
and `AgeInv` it was checked by hand on an instance with 3 commands.

`UdpFramesProofs` proves for every size of packet, frame, result, buffer and queue,
and any number of packets sent and under way: `Invariance` and `TypeCorrect`, and
under `NoWrap` (neither the byte count nor the sequence numbers wrap)
`FramesAligned`, `TailIsExact`, `NonePacketTwice`, `CountsTell`, `OneSkippedAtMost`. `NoWrap` is
needed: the run `udp_wrap` shows what a wrap does to `Aligned`. `IInv` has three parts. `FrameInv`:
the first record holds the packet with the frame start and the counts are taken
from it, from `FindStart` on. `DistinctInv`: a packet is on its way, in the queue or
in a record, once. `OrderInv`: while packets arrive in order, `newest`, the records,
the queue and `last` follow one another. The lemmas on `PacketSort` give the
rest: a kept record is ahead of the first by its index although the index is a
`uint32_t` difference of possibly stale records (`KeptAhead`), so that its words
land where the stream has them (`SortedExact`); and as many distinct records as
places fill every place (in `CountsTell`, by a counting argument). `OneSkippedAtMost`
rests on `SkipInv` besides: while nothing is lost or dropped the queue is a run of
numbers that ends with `last`, the next packet is the one behind the last result's,
which begins before the end of the frame behind it (`PacketsCover`), and no packet
that is passed over has a frame boundary in it (`BoundaryAhead`). That the queue has
room for a packet is assumed (`QueueAssumption`): it follows from the definition of
`QueueSize` by powers of two, which the provers do not know; TLC evaluates it.

`RealTimeControllerProofs` proves for every set of request threads, every number
of sessions and every choice of the platform: `Invariance`, `TypeCorrect`,
`AtMostOneWorker`, `StoppedMeansNone`, `LeftAlone`. `IInv` adds who can touch what: a
session not begun has no process, threads or sockets (`FreshInv`); a connection
belongs to a worker past its start (`ConnInv`); a session's threads hold its own
sockets or a later session's, never an earlier one's (`ThreadInv`); a stop under way
has a process that was started, dead when the stop finishes (`CallInv`); in a calm
session the older threads are over and its own have no reason to end (`CalmInv`),
so that nothing is left that could disturb it.

`CaptureSessionProofs` proves for any number of sessions and of faults: `Invariance`,
`TypeCorrect`, `QuietWhenOver`, `StreamIsOwn`, `FramesAreOwn`, `ReportsAreTrue`. One fault
may fall anywhere, so `IInv` has to say what each place leaves. Without one, at most
one command is outstanding, and only while the worker waits for it (`StepInv`).
Requests are taken in the order they were sent, those of earlier sessions first
(`WireInv`): once the reset of the FPGA or the start of the recording was executed,
the recording is this session's or none (`RecordInv`), and up to one fault one of
the two was executed or is under way (`ResetInv`), which gives `OwnStream`. In the
cleanup that one fault either kept the radar on, and then the stop of the recording
is the only thing under way, or it is over and the radar is off (`QuietInv`), which
gives `QuietAtEnd`. A late reply is passed from command to command; what is
outstanding at the end of a clean session is at most one stop of the recording
(`FewInv`, `LastInv`, `LeftInv`), which the next session reads in place of its first
reply and discards (`FirstInv`), so that the replies it believes are its own
(`OwnInv`, `ReportInv`). `StreamInv` and `PacketInv` carry the packets over the sessions.
The two assumptions on time in `Bind` and `Sleep` are those of the model.

`Awr2243Proofs` proves for every set of configuration files and any number of calls
and of faults: `Invariance`, `TypeCorrect`, `StopIsQuiet`, `StartedIsTrue`,
`InitIsConfigured`, `StartIsFresh`. Two arguments carry it. The first is about the
flag: as long as nothing is lost or late, an event is pending wherever
`sensorStarted` and the frames of the device differ, and the end of the frames does
not overtake their start (`CalmInv`, `FlagInv`); only a start that still waits can
have its event to come, and only one (`TriggerInv`, `StartInv`). `StartedAgrees` is
that with nothing pending, `StopOkMeansQuiet` that at the end of the stop's wait
(`StopInv`). The second is about the program of an init, which is one of many,
depending on the file and the arguments. It is a path through named points
(`Leads`): each point says what the device has done when the program is there
(`Good`), whatever it answered, and `InitInv` says that what is left to do starts at
a point that is true. One lemma for each kind of step shows that the step leads from
point to point; one for each step of the device and the reader that it leaves the
points true. A device that still announces its boot is as the reset left it
(`BootInv`), which gives `FreshStart`: the wait for the power-up event, though it
cannot see whether the reset worked, cannot be met by an older boot's.
`InitOkConfigured` was false at first of files with calibration data to store, which
the model of the run did not have: the proof showed it, and the run has one now.

Only model-checked: liveness (`GetReturns`, `StopEndsWorker`, `ExitNoticed`,
`CommandReturns`, `EventDelivered`, `CallReturns`, `WaitSeesEnd`, `StopEnds`),
which is out of the reach of the provers used.

## 5. Plan

In this order, each with its runs, and a proof where one is named:

1. `UnlockQueue`, `PacketSort`, `UdpFrames`, `RealTimeController`, `CaptureSession`,
   `MmWaveLink`, `Awr2243` - done, their safety proved.
2. `ResultsStream`: bounded buffer, tail, marker; abstractly, a client sees a
   subsequence of the results, each once.
3. `AsyncRead`: second start, `udp_mutex`, the shared future; `SerialBuffer`:
   callback, read, reset, stop.
4. `GTrackList`, `GTrackUnit`: list operations against sequences, track states.

## 6. Not modelled

Floating-point signal processing and the tracker's filter; text parsing and
display; the layout and checksums of radar messages, the contents of the sensor's
configuration and the FTDI register code; the demonstration `MMWL_App` with its
dynamic chirps, test source and GPADC measurement; the firmware of the radar and
the FPGA (external: modelled from the commands and events the code exchanges with
them); the C++ destructor of the ring (its inverted test makes it delete nothing:
a leak, but no behaviour); the number of frames `setFrameCfg` sets; the readers and
the serial buffer of `main.cpp` that the service does not use; the result stream of
the WebSocket; the tracker's lists (sequential code); `status`, `get_logs`, which
read without changing anything.
