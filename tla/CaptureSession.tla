---------------------------- MODULE CaptureSession ----------------------------
(***************************************************************************)
(* realTimeProc_fastapi.py and the classes it drives: DCA1000 of adc.py    *)
(* (commands to the FPGA of the capture card, over UDP), TI of radars.py   *)
(* (commands to the radar, over a serial port) and the receive thread of   *)
(* main.cpp.  One worker after the other runs a capture session on the     *)
(* same card and radar, until the service says stop, closes the            *)
(* connection, kills the worker, or a step raises.                         *)
(*                                                                         *)
(* The Python code looks at no result of a command to the FPGA: what it    *)
(* reports is printed.  A reply is matched with its command by the command *)
(* code.  Packets are known by the session whose start of the recording    *)
(* they follow, and a queue of packets by the sessions in it; those of one *)
(* session move together.  The worker's exit code is left out, and so is   *)
(* the number of frames setFrameCfg sets.                                  *)
(***************************************************************************)
EXTENDS Naturals, Sequences

CONSTANTS
  MaxSessions, \* bound: workers started
  MaxFaults    \* bound: packets lost or late, commands refused, calls that raise

ASSUME BoundsAssumption == MaxSessions \in Nat /\ MaxFaults \in Nat

Sessions == 1..MaxSessions

VARIABLES
  session, \* the newest worker
  pc,      \* its next step, or "dead"
  waiting, \* it has sent the command of its step
  radar,   \* its variable radar is not None
  thread,  \* its receive thread runs
  sock,    \* its data and config sockets are open
  inq,     \* the replies in the config socket
  kernel, ring, \* the packets in the data socket and in the ring buffer
  shown,   \* those in the buffer it took last
  wire, back, \* requests and replies under way, in order
  on, rec, \* the device: the radar transmits; the session it records for, or 0
  ctl,     \* the connection to the service: "open" or "closed" by the service
  asked,   \* the service has sent a stop
  arrived, kept, \* the halves of that line to be read, and those in recv_buffer
  faults,  \* how much of the bound is used
  mishaps, \* history: faults in this session
  killed,  \* history: this worker was killed
  bound,   \* history: it got its sockets
  unclean, \* history: an earlier one was killed or met two faults
  did, reported \* history: the commands of this session the FPGA executed, and
                \*   those reported as a success

hostVars == <<radar, thread, sock>>
dataVars == <<kernel, ring, shown>>
netVars  == <<inq, wire, back>>
devVars  == <<on, rec>>
ctlVars  == <<ctl, asked, arrived, kept>>
histVars == <<killed, bound, unclean, did>>
flowVars == <<session, pc, waiting>>
vars == <<flowVars, hostVars, dataVars, netVars, devVars, ctlVars, faults,
          mishaps, histVars, reported>>

-----------------------------------------------------------------------------
(***************************************************************************)
(* The steps of run_hardware in order, and the commands among them.        *)
(***************************************************************************)
\* Variant: the FPGA is not reset.
AfterResetOfRadar == [resetRadar |-> "sleep", sleep |-> "openRadar"]

AfterReset ==
  [resetRadar |-> "resetFpga", resetFpga |-> "sleep", sleep |-> "openRadar"]

AfterOpening ==
  [starting |-> "bind", bind |-> "resetRadar", openRadar |-> "alive",
   configured |-> "recordStart", recordStart |-> "threadStart",
   threadStart |-> "sensorStart", sensorStart |-> "streaming",
   streaming |-> "poll", poll |-> "get", get |-> "send", send |-> "poll"]

\* DCA1000.configure
AfterConfigure ==
  [alive |-> "version", version |-> "configFpga", configFpga |-> "configRecord",
   configRecord |-> "configured"]

\* Variant: the sockets are closed before the receive thread is stopped.
AfterCleanupCloseFirst ==
  [stopSensor |-> "close", close |-> "threadStop", threadStop |-> "recordStop",
   recordStop |-> "dead"]

AfterCleanup ==
  [stopSensor |-> "threadStop", threadStop |-> "recordStop",
   recordStop |-> "close", close |-> "dead"]

Cleanup == DOMAIN AfterCleanup

Steps == DOMAIN AfterReset \cup DOMAIN AfterOpening \cup DOMAIN AfterConfigure
           \cup Cleanup

After ==
  [p \in Steps |-> CASE p \in DOMAIN AfterReset     -> AfterReset[p]
                     [] p \in DOMAIN AfterOpening   -> AfterOpening[p]
                     [] p \in DOMAIN AfterConfigure -> AfterConfigure[p]
                     [] p \in Cleanup              -> AfterCleanup[p]]

CmdOf ==
  [resetRadar |-> "RESET_AR_DEV", resetFpga |-> "RESET_FPGA",
   alive |-> "SYSTEM_CONNECT", version |-> "READ_FPGA_VERSION",
   configFpga |-> "CONFIG_FPGA_GEN", configRecord |-> "CONFIG_PACKET_DATA",
   recordStart |-> "RECORD_START", recordStop |-> "RECORD_STOP"]

\* The steps that send a line to the service.
Reports == {"starting", "configured", "streaming", "send"}

Cmds == {CmdOf[p] : p \in DOMAIN CmdOf}

Replies == [cmd : Cmds, ok : BOOLEAN]
Requests == [cmd : Cmds, by : Sessions]

Emitting == on /\ rec # 0

Init ==
  /\ session = 0 /\ pc = "dead" /\ waiting = FALSE
  /\ radar = FALSE /\ thread = FALSE /\ sock = FALSE
  /\ inq = <<>> /\ wire = <<>> /\ back = <<>>
  /\ kernel = {} /\ ring = {} /\ shown = {}
  /\ on = FALSE /\ rec = 0
  /\ ctl = "closed" /\ asked = FALSE /\ arrived = 0 /\ kept = 0
  /\ faults = 0 /\ mishaps = 0 /\ killed = FALSE /\ bound = FALSE
  /\ unclean = FALSE /\ did = {} /\ reported = {}

Fault ==
  /\ faults < MaxFaults
  /\ faults' = faults + 1 /\ mishaps' = mishaps + 1

NoFault == UNCHANGED <<faults, mishaps>>

GoOn == pc' = After[pc] /\ waiting' = FALSE /\ UNCHANGED session

\* Variant: there is no finally clause.
RaiseUnhandled ==
  /\ pc' = IF pc \in Cleanup THEN After[pc] ELSE "close"
  /\ waiting' = FALSE /\ UNCHANGED session

\* An exception goes to the finally clause; one in there is swallowed.
Raise ==
  /\ pc' = IF pc \in Cleanup THEN After[pc] ELSE "stopSensor"
  /\ waiting' = FALSE /\ UNCHANGED session

-----------------------------------------------------------------------------
(***************************************************************************)
(* The service starts, stops and kills workers.                            *)
(***************************************************************************)
StartWorker ==
  /\ pc = "dead" /\ session < MaxSessions
  /\ session' = session + 1 /\ pc' = "starting" /\ waiting' = FALSE
  /\ radar' = FALSE /\ shown' = {}
  /\ ctl' = "open" /\ asked' = FALSE /\ arrived' = 0 /\ kept' = 0
  /\ unclean' = (unclean \/ killed \/ mishaps > 1)
  /\ killed' = FALSE /\ bound' = FALSE /\ did' = {} /\ reported' = {}
  /\ mishaps' = 0
  /\ UNCHANGED <<thread, sock, kernel, ring, netVars, devVars, faults>>

SendStop ==
  /\ pc # "dead" /\ ctl = "open" /\ ~asked
  /\ asked' = TRUE
  /\ UNCHANGED <<flowVars, hostVars, dataVars, netVars, devVars, ctl, arrived,
                 kept, faults, mishaps, histVars, reported>>

\* The line comes in one piece or in two.  The worker looks for it when it
\* streams: an earlier arrival makes no difference.
StopArrives ==
  /\ pc \in {"poll", "get", "send"} /\ asked
  /\ \E n \in 1..(2 - arrived - kept) : arrived' = arrived + n
  /\ UNCHANGED <<flowVars, hostVars, dataVars, netVars, devVars, ctl, asked,
                 kept, faults, mishaps, histVars, reported>>

\* Likewise: no other step notices.
CloseControl ==
  /\ pc \in Reports \cup {"poll"} /\ ctl = "open"
  /\ ctl' = "closed"
  /\ UNCHANGED <<flowVars, hostVars, dataVars, netVars, devVars, asked, arrived,
                 kept, faults, mishaps, histVars, reported>>

\* The system closes the sockets; what the device does it goes on doing.
Kill ==
  /\ pc # "dead" /\ asked
  /\ pc' = "dead" /\ waiting' = FALSE
  /\ thread' = FALSE /\ sock' = FALSE
  /\ inq' = <<>> /\ kernel' = {} /\ ring' = {}
  /\ killed' = TRUE
  /\ UNCHANGED <<session, radar, shown, wire, back, devVars, ctlVars, faults,
                 mishaps, bound, unclean, did, reported>>

-----------------------------------------------------------------------------
(***************************************************************************)
(* Commands to the FPGA (_send_command).                                   *)
(***************************************************************************)
SendCommand(raises) ==
  /\ pc \in DOMAIN CmdOf /\ ~waiting
  /\ IF raises
     THEN Fault /\ Raise /\ UNCHANGED wire
     ELSE /\ NoFault
          /\ wire' = Append(wire, [cmd |-> CmdOf[pc], by |-> session])
          /\ waiting' = TRUE /\ UNCHANGED <<session, pc>>
  /\ UNCHANGED <<hostVars, dataVars, inq, back, devVars, ctlVars, histVars,
                 reported>>

\* Variant: the code of the reply is not looked at.
TakenForAny(r, c) == r.ok

TakenFor(r, c) == r.cmd = c /\ r.ok

\* The socket's first reply, whatever it is: a mismatch is printed.
ReceiveReply ==
  /\ waiting /\ inq # <<>>
  /\ inq' = Tail(inq)
  /\ reported' = reported \cup {c \in {CmdOf[pc]} : TakenFor(Head(inq), c)}
  /\ GoOn /\ NoFault
  /\ UNCHANGED <<hostVars, dataVars, wire, back, devVars, ctlVars, histVars>>

\* One second without a reply.
ReplyTimeout ==
  /\ waiting /\ inq = <<>>
  /\ IF wire = <<>> /\ back = <<>> THEN NoFault ELSE Fault
  /\ GoOn
  /\ UNCHANGED <<hostVars, dataVars, netVars, devVars, ctlVars, histVars, reported>>

-----------------------------------------------------------------------------
(***************************************************************************)
(* The other steps of the worker.                                          *)
(***************************************************************************)
\* DCA1000().  When it raises, radar and dca are None and nothing is cleaned
\* up.  Loading the libraries before takes longer than a reply does.
Bind(raises) ==
  /\ pc = "bind"
  /\ IF raises THEN Fault
     ELSE IF wire = <<>> /\ back = <<>> THEN NoFault ELSE Fault
  /\ sock' = ~raises /\ bound' = ~raises
  /\ pc' = IF raises THEN "dead" ELSE After[pc]
  /\ UNCHANGED <<session, waiting, radar, thread, dataVars, netVars, devVars,
                 ctlVars, killed, unclean, did, reported>>

\* Five seconds: the FPGA has taken the requests sent before.
Sleep ==
  /\ pc = "sleep" /\ wire = <<>>
  /\ GoOn /\ NoFault
  /\ UNCHANGED <<hostVars, dataVars, netVars, devVars, ctlVars, histVars, reported>>

\* TI(): the lines of the configuration file up to sensorStart, the first of
\* which is sensorStop.  It may raise before or after that line.
OpenRadar(raises) ==
  /\ pc = "openRadar"
  /\ IF raises THEN Fault /\ Raise /\ on' \in {on, FALSE} /\ UNCHANGED radar
               ELSE NoFault /\ GoOn /\ on' = FALSE /\ radar' = TRUE
  /\ UNCHANGED <<thread, sock, dataVars, netVars, rec, ctlVars, histVars, reported>>

ThreadStart(raises) ==
  /\ pc = "threadStart"
  /\ IF raises THEN Fault /\ Raise ELSE NoFault /\ GoOn
  /\ thread' = ~raises
  /\ UNCHANGED <<radar, sock, dataVars, netVars, devVars, ctlVars, histVars, reported>>

StartSensor(raises) ==
  /\ pc = "sensorStart"
  /\ IF raises THEN Fault /\ Raise ELSE NoFault /\ GoOn
  /\ on' = (on \/ ~raises)
  /\ UNCHANGED <<hostVars, dataVars, netVars, rec, ctlVars, histVars, reported>>

\* Variant: what was read of a line is not kept.
KeptAfterReadNone == 0

\* recv_buffer after a read: the stop is taken out when it is complete.
KeptAfterRead == (kept + arrived) % 2

\* _recv_control_messages, when there is something to read.
Poll ==
  /\ pc = "poll"
  /\ arrived' = 0 /\ kept' = KeptAfterRead
  /\ IF arrived > 0 THEN IF kept + arrived = 2 THEN Raise ELSE GoOn
                    ELSE IF ctl = "closed" THEN Raise ELSE GoOn
  /\ NoFault
  /\ UNCHANGED <<hostVars, dataVars, netVars, devVars, ctl, asked, histVars, reported>>

\* fastRead_in_Cpp_thread_get: what there is of the packets asked for when they
\* are there or the time is over.
Get ==
  /\ pc = "get"
  /\ \E taken \in SUBSET ring :
       shown' = taken /\ ring' = ring \ taken
  /\ GoOn /\ NoFault
  /\ UNCHANGED <<hostVars, kernel, netVars, devVars, ctlVars, histVars, reported>>

\* Sending to a connection that was closed raises, not always the first time.
\* The first report is sent before there is anything to clean up.
Report ==
  /\ pc \in Reports
  /\ \/ GoOn
     \/ ctl = "closed" /\ pc # "starting" /\ Raise
     \/ /\ ctl = "closed" /\ pc = "starting" /\ pc' = "dead"
        /\ UNCHANGED <<session, waiting>>
  /\ shown' = {} /\ NoFault
  /\ UNCHANGED <<hostVars, kernel, ring, netVars, devVars, ctlVars, histVars, reported>>

StopSensor(raises) ==
  /\ pc = "stopSensor"
  /\ IF raises THEN Fault ELSE NoFault
  /\ on' = (on /\ (raises \/ ~radar))
  /\ GoOn
  /\ UNCHANGED <<hostVars, dataVars, netVars, rec, ctlVars, histVars, reported>>

\* Stopping a thread never started raises: swallowed.
ThreadStop ==
  /\ pc = "threadStop"
  /\ thread' = FALSE /\ ring' = {}
  /\ GoOn /\ NoFault
  /\ UNCHANGED <<radar, sock, kernel, shown, netVars, devVars, ctlVars, histVars,
                 reported>>

Close ==
  /\ pc = "close"
  /\ sock' = FALSE /\ inq' = <<>> /\ kernel' = {}
  /\ GoOn /\ NoFault
  /\ UNCHANGED <<radar, thread, ring, shown, wire, back, devVars, ctlVars,
                 histVars, reported>>

WorkerStep ==
  \/ ReceiveReply \/ ReplyTimeout \/ Sleep \/ Poll \/ Get \/ Report
  \/ ThreadStop \/ Close
  \/ \E raises \in BOOLEAN :
       \/ SendCommand(raises) \/ Bind(raises) \/ OpenRadar(raises)
       \/ ThreadStart(raises) \/ StartSensor(raises) \/ StopSensor(raises)

-----------------------------------------------------------------------------
(***************************************************************************)
(* The receive thread, the device and the cable.                           *)
(***************************************************************************)
Pump ==
  /\ thread /\ sock
  /\ \E s \in kernel : ring' = ring \cup {s} /\ kernel' = kernel \ {s}
  /\ UNCHANGED <<flowVars, hostVars, shown, netVars, devVars, ctlVars, faults,
                 mishaps, histVars, reported>>

Emit ==
  /\ Emitting /\ sock /\ rec \notin kernel
  /\ kernel' = kernel \cup {rec}
  /\ UNCHANGED <<flowVars, hostVars, ring, shown, netVars, devVars, ctlVars,
                 faults, mishaps, histVars, reported>>

Answer(c, ok) == back' = Append(back, [cmd |-> c, ok |-> ok])

\* The FPGA takes a request, unless it was lost; it may refuse it.
TakeRequest(fate) ==
  /\ wire # <<>>
  /\ wire' = Tail(wire)
  /\ LET r == Head(wire)
     IN  CASE fate = "done" ->
                /\ NoFault /\ Answer(r.cmd, TRUE)
                /\ on'  = (on /\ r.cmd # "RESET_AR_DEV")
                /\ rec' = CASE r.cmd = "RECORD_START" -> r.by
                            [] r.cmd \in {"RECORD_STOP", "RESET_FPGA"} -> 0
                            [] OTHER -> rec
                /\ did' = did \cup {c \in {r.cmd} : r.by = session}
           [] fate = "refused" ->
                Fault /\ Answer(r.cmd, FALSE) /\ UNCHANGED <<devVars, did>>
           [] fate = "lost" -> Fault /\ UNCHANGED <<back, devVars, did>>
  /\ UNCHANGED <<flowVars, hostVars, dataVars, inq, ctlVars, killed, bound,
                 unclean, reported>>

ReplyArrives(lost) ==
  /\ back # <<>>
  /\ back' = Tail(back)
  /\ IF lost THEN Fault ELSE NoFault
  /\ inq' = IF sock /\ ~lost THEN Append(inq, Head(back)) ELSE inq
  /\ UNCHANGED <<flowVars, hostVars, dataVars, wire, devVars, ctlVars, histVars,
                 reported>>

NetStep ==
  \/ \E fate \in {"done", "refused", "lost"} : TakeRequest(fate)
  \/ \E lost \in BOOLEAN : ReplyArrives(lost)

Next ==
  \/ StartWorker \/ SendStop \/ StopArrives \/ CloseControl \/ Kill
  \/ WorkerStep \/ Pump \/ Emit \/ NetStep

Spec == Init /\ [][Next]_vars

\* The worker runs on: every one of its waits has a limit.  What was sent
\* arrives or is lost.
FairSpec == Spec /\ WF_vars(WorkerStep) /\ WF_vars(StopArrives) /\ WF_vars(NetStep)

-----------------------------------------------------------------------------
\* The receive thread reads a socket that is open: the number of one that was
\* closed may be another file's.
TypeOK ==
  /\ session \in 0..MaxSessions /\ pc \in Steps \cup {"dead"}
  /\ waiting \in BOOLEAN /\ radar \in BOOLEAN /\ thread \in BOOLEAN
  /\ sock \in BOOLEAN /\ on \in BOOLEAN /\ asked \in BOOLEAN
  /\ killed \in BOOLEAN /\ bound \in BOOLEAN /\ unclean \in BOOLEAN
  /\ inq \in Seq(Replies) /\ back \in Seq(Replies) /\ wire \in Seq(Requests)
  /\ kernel \subseteq Sessions /\ ring \subseteq Sessions
  /\ shown \subseteq Sessions /\ rec \in Sessions \cup {0}
  /\ ctl \in {"open", "closed"}
  /\ arrived \in 0..2 /\ kept \in 0..1
  /\ faults \in 0..MaxFaults /\ mishaps \in 0..faults
  /\ did \subseteq Cmds /\ reported \subseteq Cmds
  /\ thread => sock

\* The steps of a worker without sockets, and those that stream or make ready to.
Down == {"dead", "starting", "bind"}
Recording == {"threadStart", "sensorStart", "streaming", "poll", "get", "send"}
Configuring == {"alive", "version", "configFpga", "configRecord", "configured",
                "recordStart"}

\* The worker holds sockets from Bind to Close, and only then waits for replies.
SocketInv ==
  /\ pc \in Down => /\ ~sock /\ ~thread /\ ~waiting
                    /\ kernel = {} /\ ring = {} /\ inq = <<>>
  /\ pc \in {"recordStop", "close"} => ~thread /\ ring = {}
  /\ pc \notin Down => sock /\ bound /\ ~killed
  /\ pc \in {"starting", "bind"} => ~bound /\ ~killed
  /\ pc # "dead" => session # 0
  /\ waiting => pc \in DOMAIN CmdOf

\* The radar is known after openRadar; before, only a fault leads to the cleanup.
RadarInv ==
  /\ pc \in Configuring \cup Recording => radar
  /\ pc \in Cleanup => radar \/ mishaps # 0

\* Requests are under way in the order of the sessions.
WireInv ==
  \A i \in 1..Len(wire) :
    /\ wire[i].by <= session
    /\ \A k \in 1..Len(wire) : i < k => wire[i].by <= wire[k].by

Outstanding == Len(inq) + Len(back) + Len(wire)

\* Nothing is under way but the command that the worker waits for.
InStep == Outstanding <= IF waiting THEN 1 ELSE 0

\* A fault is over.
Recovered == mishaps = 1 /\ InStep

OwnRequest(r) == r.by = session
OwnReply(r) == r.ok => r.cmd \in did

AllOwn ==
  /\ \A i \in 1..Len(inq) : OwnReply(inq[i])
  /\ \A i \in 1..Len(back) : OwnReply(back[i])
  /\ \A i \in 1..Len(wire) : OwnRequest(wire[i])

\* Without a fault the worker and the FPGA are in step.
StepInv == pc \notin Down /\ mishaps = 0 => InStep /\ AllOwn

Promised(c) ==
  c \in did \/ \E i \in 1..Len(wire) : wire[i].cmd = c /\ wire[i].by = session

\* Once the reset of the FPGA or the start of the recording was executed, what
\* the FPGA records for is this session or nothing.
RecordInv ==
  "RESET_FPGA" \in did \/ "RECORD_START" \in did =>
    rec \in {0, session} /\ \A i \in 1..Len(wire) : OwnRequest(wire[i])

\* After the sleep no earlier request is left.
OwnWireInv ==
  pc \in {"openRadar"} \cup Configuring \cup Recording =>
    \A i \in 1..Len(wire) : OwnRequest(wire[i])

\* One of the two has been or will be executed, up to one fault.
ResetInv ==
  mishaps <= 1 =>
    /\ pc = "sleep" \/ (pc = "resetFpga" /\ waiting) =>
         Promised("RESET_FPGA") \/ Recovered
    /\ pc \in {"openRadar"} \cup Configuring => "RESET_FPGA" \in did \/ Recovered
    /\ pc = "recordStart" /\ waiting =>
         "RESET_FPGA" \in did \/ Promised("RECORD_START")
    /\ pc \in Recording => "RESET_FPGA" \in did \/ "RECORD_START" \in did

\* The last steps of a session that was not killed: the radar is off, or a fault
\* kept it on and the FPGA stops recording.
QuietInv ==
  mishaps <= 1 /\ on =>
    /\ pc \in Cleanup /\ ~radar => InStep
    /\ pc \in {"threadStop", "recordStop", "close"} => Recovered
    /\ pc = "recordStop" /\ waiting =>
         IF wire = <<>> THEN rec = 0 ELSE wire[1].cmd = "RECORD_STOP"
    /\ pc = "close" \/ (pc = "dead" /\ bound /\ ~killed) => wire = <<>> /\ rec = 0

Clean == ~unclean /\ mishaps <= 1

\* In a clean session what the card sends is the session's own.
StreamInv ==
  Clean /\ ~killed /\ on =>
    IF pc \in Down THEN rec = 0 /\ wire = <<>>
    ELSE rec \in {0, session} /\ \A i \in 1..Len(wire) : OwnRequest(wire[i])

\* And so is what there is of the packets.
PacketInv ==
  Clean =>
    kernel \subseteq {session} /\ ring \subseteq {session} /\ shown \subseteq {session}

IsStop(t) == t.cmd = "RECORD_STOP"

\* A clean session leaves at most one request or reply behind, of the stop of the
\* recording.
LeftInv ==
  Clean /\ ~killed /\ pc \in Down =>
    /\ Len(back) + Len(wire) <= 1
    /\ \A i \in 1..Len(back) : IsStop(back[i])
    /\ \A i \in 1..Len(wire) : IsStop(wire[i])

FewInv ==
  Clean /\ pc \notin Down => Outstanding <= mishaps + IF waiting THEN 1 ELSE 0

\* The one that was left is read in place of the first reply.
FirstInv ==
  Clean /\ pc = "resetRadar" =>
    /\ \A i \in 1..Len(inq) : OwnReply(inq[i]) \/ (i = 1 /\ IsStop(inq[i]))
    /\ \A i \in 1..Len(back) :
         OwnReply(back[i]) \/ (i = 1 /\ inq = <<>> /\ IsStop(back[i]))
    /\ \A i \in 1..Len(wire) :
         \/ OwnRequest(wire[i])
         \/ i = 1 /\ inq = <<>> /\ back = <<>> /\ IsStop(wire[i])

OwnInv == Clean /\ pc \notin Down \cup {"resetRadar"} => AllOwn

\* At the end of a session the last one is of the stop of the recording.
LastInv ==
  Clean /\ (pc = "close" \/ (pc = "recordStop" /\ waiting)) =>
    /\ wire # <<>> => IsStop(wire[Len(wire)])
    /\ wire = <<>> /\ back # <<>> => IsStop(back[Len(back)])
    /\ wire = <<>> /\ back = <<>> /\ inq # <<>> => IsStop(inq[Len(inq)])

ReportInv == Clean => reported \subseteq did

IInv ==
  /\ TypeOK /\ SocketInv /\ RadarInv /\ WireInv /\ StepInv /\ RecordInv
  /\ OwnWireInv /\ ResetInv /\ QuietInv /\ StreamInv /\ PacketInv /\ LeftInv
  /\ FewInv /\ FirstInv /\ OwnInv /\ LastInv /\ ReportInv

(***************************************************************************)
(* A worker that ended by itself leaves no stream behind, with one fault   *)
(* in its session wherever that was: a lost or refused command, a call     *)
(* that raised.  The cleanup stops the radar and the FPGA, and either stop *)
(* ends the stream: with a fault in the cleanup one of the two may be left *)
(* on.  (A worker that was killed leaves the stream running; so does one   *)
(* that could not open its sockets, if there was one.)                     *)
(***************************************************************************)
QuietAtEnd ==
  pc = "dead" /\ bound /\ ~killed /\ mishaps <= 1 /\ wire = <<>> => ~Emitting

(***************************************************************************)
(* While a session streams, the card sends packets of that session's       *)
(* recording only, with one fault in it and whatever the session before    *)
(* left running.                                                           *)
(***************************************************************************)
OwnStream ==
  pc \in {"streaming", "poll", "get", "send"} /\ mishaps <= 1 /\ Emitting =>
    rec = session

(***************************************************************************)
(* The frames a worker reports are its own session's, with one fault in it *)
(* at most, if no worker before it was killed or met two.  Nothing empties *)
(* the data socket between its opening and the start of the recording:     *)
(* that an earlier stream is over is all that keeps its packets out.       *)
(***************************************************************************)
FramesOwn == ~unclean /\ mishaps <= 1 => shown \subseteq {session}

(***************************************************************************)
(* A success that was reported is one: the FPGA executed the command, of   *)
(* this session, with one fault in it at most, if no worker before it was  *)
(* killed or met two.  A reply that comes late is read in place of a later *)
(* command's, and so on to the end of the session and, from the cable,     *)
(* into the next: it is the code in it that keeps it from being taken for  *)
(* that one's success.  A report is the status that is returned;           *)
(* stream_start prints its line whatever the status (adc.py:1092).         *)
(***************************************************************************)
ReportTrue == ~unclean /\ mishaps <= 1 => reported \subseteq did

(***************************************************************************)
(* A worker that was told to stop ends, however the line with the stop is  *)
(* cut, with the stream running or not and the device answering or not.    *)
(***************************************************************************)
StopEnds == asked ~> pc = "dead"

=============================================================================
