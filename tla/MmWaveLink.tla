---------------------------- MODULE MmWaveLink ----------------------------
(***************************************************************************)
(* The host's end of mmWaveLink (rl_driver.c) for one radar device behind  *)
(* the FTDI bridge (mmwl_port_ftdi.cpp): application threads send commands *)
(* and wait for their responses, a polling thread watches the host IRQ     *)
(* line, and threads spawned by the driver (osiExecute) read the messages  *)
(* no command is waiting for.  The message buffers, the SPI bus and most   *)
(* of the driver's fields are used under devMutex, so that one program     *)
(* point, pc, tells where the holder of devMutex is.                       *)
(***************************************************************************)
EXTENDS Integers, Sequences

CONSTANTS
    Callers,    \* application threads
    MsgIds,     \* message identifiers of the commands they send
    RetryCount, \* rl_driverData.retryCount: attempts after the first
    SeqMod,     \* range of b4SeqNum (16)
    CntMod,     \* range of rxIrqCnt and rxDoneCnt (256)
    MaxCmds,    \* bound: commands sent in all
    MaxEvents,  \* bound: asynchronous events the device sends
    MaxFaults,  \* bound: transfers corrupted or lost, and looks at the IRQ line
                \* that fail, in all
    MaxReaders, \* reader threads that wait before the system refuses another
    MaxReady    \* bound: messages the device has ready to be read; behind one,
                \* more make no difference to the host, which reads one per IRQ

ASSUME LinkAssumption ==
    /\ RetryCount \in Nat /\ MaxCmds \in Nat
    /\ MaxEvents \in Nat /\ MaxFaults \in Nat /\ MaxReady \in Nat
    /\ SeqMod \in Nat \ {0} /\ MaxReaders \in Nat \ {0}
    /\ CntMod \in Nat /\ CntMod > 2
    /\ {"none", "bad", "error"} \cap MsgIds = {}
    /\ {"free", "reader"} \cap Callers = {}

VARIABLES
    devMutex,        \* its holder: a caller, "reader", or "free"
    cmdSem,          \* the auto-reset event commands wait for
    isCmdRespWaited,
    rxIrqCnt, rxDoneCnt,
    cmdSeqNum,
    txMsg,           \* rl_txMsg: header of the command being sent
    got,             \* what rlDriverMsgRead left: class, return value, message
    pc,              \* program point of the holder of devMutex
    attempt,         \* rlDriverCmdWriter's retryCount
    retVal,
    readers,         \* spawned threads that have not got devMutex yet
    irqMasked,
    irqPc,           \* program point of the polling thread
    checkIrqRes,     \* its last look at the line: "OK" is high
    stale,           \* history: the IRQ is masked for an old look
    misses,          \* looks that failed so far
    request,         \* request[c]: the command c is calling with
    toDevice, toHost, \* SPI: commands to the device, its messages to the host
    cmds, events, faults,      \* how many so far
    executed, confirmed,       \* history: commands executed; whose answer matched
    handled, spoiled,          \* history: events handed over; corrupted
    gaveUp,          \* history: a command has ended without any response
    lapped,          \* history: a sequence number came round to a message that
                     \* was still under way
    unchecked        \* history: waiting ended without a look at pending messages

driver == <<devMutex, cmdSem, isCmdRespWaited, rxIrqCnt, rxDoneCnt, cmdSeqNum,
            txMsg, got>>
holder == <<pc, attempt, retVal>>
port == <<irqMasked, irqPc, checkIrqRes, stale, misses>>
spi == <<toDevice, toHost>>
history == <<executed, confirmed, handled, spoiled, gaveUp, lapped, unchecked>>
vars == <<driver, holder, readers, port, request, spi, cmds, events, faults, history>>

NoCmd == [n |-> 0, id |-> "none"]
NoMsg == [class |-> "MAX", id |-> "none", seq |-> 0, n |-> 0]
Nothing == [class |-> "MAX", ret |-> "OK", msg |-> NoMsg]

Init ==
    /\ devMutex = "free" /\ cmdSem = FALSE /\ isCmdRespWaited = FALSE
    /\ rxIrqCnt = 0 /\ rxDoneCnt = 0 /\ cmdSeqNum = 0
    /\ txMsg = [id |-> "none", seq |-> 0, n |-> 0]
    /\ got = Nothing
    /\ pc = "none" /\ attempt = 0 /\ retVal = "OK"
    /\ readers = 0 /\ irqMasked = FALSE /\ irqPc = "poll"
    /\ checkIrqRes = "OK" /\ stale = FALSE /\ misses = 0
    /\ request = [c \in Callers |-> NoCmd]
    /\ toDevice = <<>> /\ toHost = <<>>
    /\ cmds = 0 /\ events = 0 /\ faults = 0
    /\ executed = {} /\ confirmed = {} /\ handled = {} /\ spoiled = {}
    /\ gaveUp = FALSE /\ lapped = FALSE /\ unchecked = FALSE

\* Variant: compared by size, which is wrong once a counter has wrapped.
PendingBySize == rxIrqCnt > rxDoneCnt

\* RL_PENDING_RX_MSG.
Pending == rxIrqCnt # rxDoneCnt

\* Variant: the counters do not wrap.
NextCntWide(k) == k + 1

NextCnt(k) == IF k + 1 = CntMod THEN 0 ELSE k + 1

(***************************************************************************)
(* A command: rlDriverCmdInvoke, rlDriverCmdSendRetry, rlDriverCmdWriter.  *)
(***************************************************************************)

\* An application thread calls an API function; "bad" is a command whose
\* sub-blocks cannot be appended.
Call(c) ==
    /\ request[c] = NoCmd /\ cmds < MaxCmds
    /\ \E id \in MsgIds \cup {"bad"} : request' = [request EXCEPT ![c] = [n |-> cmds + 1, id |-> id]]
    /\ cmds' = cmds + 1
    /\ UNCHANGED <<driver, holder, readers, port, spi, events, faults, history>>

\* The lock is taken and the header filled in.
CmdLock(c) ==
    /\ request[c].id \in MsgIds /\ devMutex = "free"
    /\ devMutex' = c
    /\ txMsg' = [id |-> request[c].id, seq |-> cmdSeqNum % SeqMod,
                 n |-> request[c].n]
    /\ pc' = "send"
    /\ UNCHANGED <<cmdSem, isCmdRespWaited, rxIrqCnt, rxDoneCnt, cmdSeqNum, got,
                   attempt, retVal, readers, port, request, spi, cmds, events, faults, history>>

\* The sub-blocks cannot be appended: the call returns and keeps the lock (a
\* mutex no thread gets a second time, as on Linux).
CmdBad(c) ==
    /\ request[c].id = "bad" /\ devMutex = "free"
    /\ devMutex' = c
    /\ pc' = "leaked"
    /\ request' = [request EXCEPT ![c] = NoCmd]
    /\ UNCHANGED <<cmdSem, isCmdRespWaited, rxIrqCnt, rxDoneCnt, cmdSeqNum, txMsg, got,
                   attempt, retVal, readers, port, spi, cmds, events, faults, history>>

\* The head of the retry loop: from now on the response is waited for, and the
\* command is written (rlDriverMsgWrite).  The retry flag, which only the
\* device reads, is left out.
CmdSend ==
    /\ pc = "send"
    /\ attempt' = attempt + 1
    /\ isCmdRespWaited' = TRUE
    /\ \/ toDevice' = Append(toDevice, txMsg) /\ pc' = "wait" /\ UNCHANGED faults
       \/ /\ faults + misses < MaxFaults /\ faults' = faults + 1
          /\ pc' = "unsent" /\ UNCHANGED toDevice
    /\ retVal' = "OK"
    /\ UNCHANGED <<devMutex, cmdSem, rxIrqCnt, rxDoneCnt, cmdSeqNum, txMsg, got, readers, port,
                   request, toHost, cmds, events, history>>

\* The write has failed: the loop ends.
CmdUnsent ==
    /\ pc = "unsent"
    /\ isCmdRespWaited' = FALSE
    /\ unchecked' = TRUE /\ gaveUp' = TRUE
    /\ retVal' = "RADAR_IF" /\ pc' = "done"
    /\ UNCHANGED <<devMutex, cmdSem, rxIrqCnt, rxDoneCnt, cmdSeqNum, txMsg, got, attempt,
                   readers, port, request, spi, cmds, events, faults, executed, confirmed,
                   handled, spoiled, lapped>>

(***************************************************************************)
(* rlDriverMsgReadCmdCtx: read while something is pending, else wait.      *)
(***************************************************************************)

CmdPoll ==
    /\ pc = "wait"
    /\ pc' = IF Pending THEN "read" ELSE "sem"
    /\ UNCHANGED <<driver, attempt, retVal, readers, port, request, spi, cmds, events,
                   faults, history>>

CmdSemTaken ==
    /\ pc = "sem" /\ cmdSem = TRUE
    /\ cmdSem' = FALSE /\ pc' = "wait"
    /\ UNCHANGED <<devMutex, isCmdRespWaited, rxIrqCnt, rxDoneCnt, cmdSeqNum, txMsg, got,
                   attempt, retVal, readers, port, request, spi, cmds, events, faults,
                   history>>

\* ackTimeout has passed and the semaphore has not been signalled.
CmdTimeout ==
    /\ pc = "sem" /\ cmdSem = FALSE
    /\ isCmdRespWaited' = FALSE
    /\ retVal' = "RESP_TIMEOUT" /\ pc' = "spawn"
    /\ UNCHANGED <<devMutex, cmdSem, rxIrqCnt, rxDoneCnt, cmdSeqNum, txMsg, got, attempt,
                   readers, port, request, spi, cmds, events, faults, history>>

\* Variant: any response with the command's identifier is taken for its own.
VerdictNoSeq ==
    CASE got.ret # "OK" -> IF got.class = "ASYNC" /\ got.ret = "CRC" THEN "OK" ELSE got.ret
      [] got.class = "NACK" -> "NACK"
      [] got.class = "RSP" /\ got.msg.id # txMsg.id -> "MSGID"
      [] OTHER -> "OK"

\* What the message read says to the command that waits.
Verdict ==
    CASE got.ret # "OK" -> IF got.class = "ASYNC" /\ got.ret = "CRC" THEN "OK" ELSE got.ret
      [] got.class = "NACK" -> "NACK"
      [] got.class = "RSP" /\ got.msg.id # txMsg.id -> "MSGID"
      [] got.class = "RSP" /\ got.msg.seq # txMsg.seq -> "SEQ_NUM"
      [] OTHER -> "OK"

\* rlDriverMsgCmdReply, after its rlDriverMsgRead (MsgRead below).
CmdReply ==
    /\ pc = "reply"
    /\ rxDoneCnt' = NextCnt(rxDoneCnt)
    /\ LET ok == got.ret = "OK"
           last == ok /\ got.class \in {"RSP", "NACK"} IN
       /\ isCmdRespWaited' = IF last THEN FALSE ELSE isCmdRespWaited
       /\ cmdSem' = IF ok /\ got.class = "RSP" THEN FALSE ELSE cmdSem
       /\ retVal' = Verdict
       /\ pc' = IF last \/ Verdict # "OK" THEN "spawn" ELSE "wait"
       /\ handled' = IF ok /\ got.class = "ASYNC" THEN handled \cup {got.msg.n} ELSE handled
    /\ UNCHANGED <<devMutex, rxIrqCnt, cmdSeqNum, txMsg, got, attempt, readers, port, request,
                   spi, cmds, events, faults, executed, confirmed, spoiled, gaveUp,
                   lapped, unchecked>>

\* Variant: what is still pending is left to the next interrupt.
CmdSpawnNothing ==
    /\ pc = "spawn" /\ pc' = "result"
    /\ UNCHANGED <<driver, attempt, retVal, readers, port, request, spi, cmds, events, faults,
                   history>>

\* The end of rlDriverMsgReadCmdCtx: a thread for what is still pending.  When
\* the system refuses it (as only Linux's osiExecute tells), that is the result.
CmdSpawn ==
    /\ pc = "spawn"
    /\ IF Pending /\ isCmdRespWaited = FALSE
       THEN IF readers < MaxReaders THEN readers' = readers + 1 /\ UNCHANGED retVal
                                    ELSE retVal' = "OSIF" /\ UNCHANGED readers
       ELSE UNCHANGED <<readers, retVal>>
    /\ pc' = "result"
    /\ UNCHANGED <<driver, attempt, port, request, spi, cmds, events, faults, history>>

\* rlDriverWaitForResponse: the response says that more chunks follow.
CmdMoreChunks ==
    /\ pc = "result" /\ retVal = "OK"
    /\ pc' = "chunks"
    /\ UNCHANGED <<driver, attempt, retVal, readers, port, request, spi, cmds, events, faults,
                   history>>

\* They are not read: isCmdRespWaited is cleared, so that a pass of the loop
\* reads nothing, finds the number of chunks as it was, and starts a thread for
\* a message that is pending.  That thread waits for the lock the command has,
\* and the loop ends when the system refuses one.
CmdChunks ==
    /\ pc = "chunks" /\ Pending
    /\ IF readers < MaxReaders
       THEN readers' = readers + 1 /\ UNCHANGED <<pc, retVal>>
       ELSE retVal' = "OSIF" /\ pc' = "result" /\ UNCHANGED readers
    /\ UNCHANGED <<driver, attempt, port, request, spi, cmds, events, faults, history>>

\* rlDriverWaitForResponse returns: a response with another identifier is read
\* as an error report; what reads as its error is what the call returns, and
\* any other message has any word there.
Outcomes == IF retVal # "MSGID" THEN {retVal}
            ELSE IF got.msg.id = "error" THEN {"ERROR"} ELSE {"OK", "ERROR"}

NoResponse == {"CRC", "RESP_TIMEOUT"}

\* A command or a response with this sequence number has yet to be read.
UnderWay(seq) ==
    \/ \E i \in 1..Len(toDevice) : toDevice[i].seq = seq
    \/ \E i \in 1..Len(toHost) : toHost[i].class # "ASYNC" /\ toHost[i].seq = seq

\* The end of an attempt.
CmdResult(outcome) ==
    /\ pc = "result"
    /\ IF outcome \in NoResponse
       THEN UNCHANGED <<isCmdRespWaited, cmdSeqNum, txMsg, lapped, unchecked>>
       ELSE /\ isCmdRespWaited' = FALSE
            /\ unchecked' = IF isCmdRespWaited = TRUE THEN TRUE ELSE unchecked
            /\ cmdSeqNum' = (cmdSeqNum + 1) % SeqMod
            /\ lapped' = (lapped \/ UnderWay(cmdSeqNum'))
            /\ txMsg' = IF outcome = "NACK" THEN [txMsg EXCEPT !.seq = cmdSeqNum'] ELSE txMsg
    /\ pc' = IF outcome \in NoResponse \cup {"NACK"} /\ attempt < RetryCount + 1 THEN "send" ELSE "done"
    /\ retVal' = outcome
    /\ confirmed' = IF retVal = "OK" THEN confirmed \cup {txMsg.n} ELSE confirmed
    /\ UNCHANGED <<devMutex, cmdSem, rxIrqCnt, rxDoneCnt, got, attempt, readers, port, request, spi,
                   cmds, events, faults, executed, handled, spoiled, gaveUp>>

\* Variant: after a failed write the call returns without the unlock.
CmdReturnLocked(c) ==
    /\ pc = "done" /\ devMutex = c
    /\ isCmdRespWaited' = FALSE
    /\ unchecked' = IF isCmdRespWaited = TRUE THEN TRUE ELSE unchecked
    /\ gaveUp' = IF retVal \in NoResponse THEN TRUE ELSE gaveUp
    /\ devMutex' = (IF retVal = "RADAR_IF" THEN c ELSE "free") /\ pc' = "none" /\ got' = Nothing
    /\ attempt' = 0 /\ retVal' = "OK"
    /\ request' = [request EXCEPT ![c] = NoCmd]
    /\ UNCHANGED <<cmdSem, rxIrqCnt, rxDoneCnt, cmdSeqNum, txMsg, readers, port, spi, cmds,
                   events, faults, executed, confirmed, handled, spoiled, lapped>>

\* rlDriverCmdSendRetry and rlDriverCmdInvoke return.
CmdReturn(c) ==
    /\ pc = "done" /\ devMutex = c
    /\ isCmdRespWaited' = FALSE
    /\ unchecked' = IF isCmdRespWaited = TRUE THEN TRUE ELSE unchecked
    /\ gaveUp' = IF retVal \in NoResponse THEN TRUE ELSE gaveUp
    /\ devMutex' = "free" /\ pc' = "none" /\ got' = Nothing
    /\ attempt' = 0 /\ retVal' = "OK"
    /\ request' = [request EXCEPT ![c] = NoCmd]
    /\ UNCHANGED <<cmdSem, rxIrqCnt, rxDoneCnt, cmdSeqNum, txMsg, readers, port, spi, cmds, events, faults, executed, confirmed, handled, spoiled,
                   lapped>>

(***************************************************************************)
(* rlDriverMsgRead, by the command's thread or by a spawned one: the host  *)
(* asks for the message, the device lowers the IRQ line and sends it.  The *)
(* IRQ is unmasked in every case.                                          *)
(***************************************************************************)

\* Without a message the bus is idle, and the read ends with a failure.  A
\* transfer that fails may leave the message with the device (a line that
\* does not go down, a bus error before the message) or not (a bad checksum, a
\* length out of range).
MsgRead(from, to) ==
    /\ pc = from
    /\ pc' = to
    /\ irqMasked' = FALSE /\ stale' = FALSE
    /\ \/ /\ toHost # <<>>
          /\ \E ret \in {"OK"} \cup (IF faults + misses < MaxFaults THEN {"CRC"} ELSE {}) :
                /\ got' = [class |-> Head(toHost).class, ret |-> ret, msg |-> Head(toHost)]
                /\ faults' = IF ret = "CRC" THEN faults + 1 ELSE faults
                /\ spoiled' = IF ret = "CRC" /\ Head(toHost).class = "ASYNC"
                              THEN spoiled \cup {Head(toHost).n} ELSE spoiled
          /\ toHost' = Tail(toHost)
       \/ /\ got' = [Nothing EXCEPT !.ret = "FAILED"]
          /\ \/ toHost = <<>> /\ UNCHANGED <<toHost, spoiled, faults>>
             \/ /\ toHost # <<>> /\ faults + misses < MaxFaults /\ faults' = faults + 1
                /\ \/ UNCHANGED <<toHost, spoiled>>
                   \/ /\ toHost' = Tail(toHost)
                      /\ spoiled' = IF Head(toHost).class = "ASYNC"
                                    THEN spoiled \cup {Head(toHost).n} ELSE spoiled
    /\ UNCHANGED <<devMutex, cmdSem, isCmdRespWaited, rxIrqCnt, rxDoneCnt, cmdSeqNum, txMsg,
                   attempt, retVal, readers, irqPc, checkIrqRes, misses, request, toDevice, cmds,
                   events, executed, confirmed, handled, gaveUp, lapped, unchecked>>

CmdRead == MsgRead("read", "reply")
ReaderRead == MsgRead("rdRead", "rdProc")

(***************************************************************************)
(* rlDriverMsgReadSpawnCtx, in a thread of its own.                        *)
(***************************************************************************)

\* Variant: the message is read without another look at the counters.
ReaderLockReads ==
    /\ readers > 0 /\ devMutex = "free"
    /\ readers' = readers - 1
    /\ devMutex' = "reader" /\ pc' = "rdRead"
    /\ UNCHANGED <<cmdSem, isCmdRespWaited, rxIrqCnt, rxDoneCnt, cmdSeqNum, txMsg, got,
                   attempt, retVal, port, request, spi, cmds, events, faults, history>>

\* The lock is taken; if the message has been read meanwhile, that is all.
ReaderLock ==
    /\ readers > 0 /\ devMutex = "free"
    /\ readers' = readers - 1
    /\ IF Pending THEN devMutex' = "reader" /\ pc' = "rdRead" ELSE UNCHANGED <<devMutex, pc>>
    /\ UNCHANGED <<cmdSem, isCmdRespWaited, rxIrqCnt, rxDoneCnt, cmdSeqNum, txMsg, got,
                   attempt, retVal, port, request, spi, cmds, events, faults, history>>

\* rlDriverProcRdMsg: events are handed over, anything else is dropped.
ReaderProc ==
    /\ pc = "rdProc"
    /\ rxDoneCnt' = NextCnt(rxDoneCnt)
    /\ handled' = IF got.class = "ASYNC" /\ got.ret = "OK" THEN handled \cup {got.msg.n} ELSE handled
    /\ devMutex' = "free" /\ pc' = "none" /\ got' = Nothing
    /\ UNCHANGED <<cmdSem, isCmdRespWaited, rxIrqCnt, cmdSeqNum, txMsg, attempt,
                   retVal, readers, port, request, spi, cmds, events, faults,
                   executed, confirmed, spoiled, gaveUp, lapped, unchecked>>

(***************************************************************************)
(* The polling thread (rlsPollingThreadEntrySpi) and its handler           *)
(* rlDriverHostIrqHandler.  The line is high while the device has a        *)
(* message.                                                                *)
(***************************************************************************)

\* A look at the line.  When the chip cannot be read the line counts as low;
\* when its lock is not got within a second the last look counts, which at the
\* start is high.
IrqPoll ==
    /\ irqPc = "poll" /\ irqMasked = FALSE
    /\ \/ /\ checkIrqRes' = IF toHost # <<>> THEN "OK" ELSE "LOW"
          /\ UNCHANGED <<stale, misses>>
       \/ /\ faults + misses < MaxFaults /\ misses' = misses + 1
          /\ \/ checkIrqRes' = "LOW" /\ UNCHANGED stale
             \/ UNCHANGED checkIrqRes /\ stale' = (checkIrqRes = "OK")
    /\ IF checkIrqRes' = "OK" THEN irqMasked' = TRUE /\ irqPc' = "count"
                              ELSE UNCHANGED <<irqMasked, irqPc>>
    /\ UNCHANGED <<driver, holder, readers, request, spi, cmds, events, faults, history>>

IrqCount ==
    /\ irqPc = "count"
    /\ rxIrqCnt' = NextCnt(rxIrqCnt) /\ irqPc' = "test"
    /\ UNCHANGED <<devMutex, cmdSem, isCmdRespWaited, rxDoneCnt, cmdSeqNum, txMsg, got,
                   holder, readers, irqMasked, checkIrqRes, stale, misses, request, spi, cmds,
                   events, faults, history>>

\* Variant: the interrupt only wakes a command.
IrqSignalOnly ==
    /\ irqPc = "test" /\ irqPc' = "poll" /\ cmdSem' = TRUE
    /\ UNCHANGED <<devMutex, isCmdRespWaited, rxIrqCnt, rxDoneCnt, cmdSeqNum, txMsg, got,
                   holder, readers, irqMasked, checkIrqRes, stale, misses, request, spi, cmds,
                   events, faults, history>>

\* A thread that is refused is not noticed.
IrqSignal ==
    /\ irqPc = "test" /\ irqPc' = "poll"
    /\ IF isCmdRespWaited = TRUE
       THEN cmdSem' = TRUE /\ UNCHANGED readers
       ELSE readers' = (IF readers < MaxReaders THEN readers + 1 ELSE readers) /\ UNCHANGED cmdSem
    /\ UNCHANGED <<devMutex, isCmdRespWaited, rxIrqCnt, rxDoneCnt, cmdSeqNum, txMsg, got,
                   holder, irqMasked, checkIrqRes, stale, misses, request, spi, cmds, events,
                   faults, history>>

(***************************************************************************)
(* The device (external).  It answers a command with a response, with an   *)
(* error response, with a NACK when the command arrived damaged, or not at *)
(* all; it sends events of its own accord.                                 *)
(***************************************************************************)

DevAnswer ==
    /\ toDevice # <<>> /\ toDevice' = Tail(toDevice) /\ Len(toHost) < MaxReady
    /\ LET m == Head(toDevice)
           Rsp(id) == [class |-> "RSP", id |-> id, seq |-> m.seq, n |-> m.n] IN
       \/ /\ toHost' = Append(toHost, Rsp(m.id))
          /\ executed' = executed \cup {m.n}
          /\ UNCHANGED faults
       \/ toHost' = Append(toHost, Rsp("error")) /\ UNCHANGED <<executed, faults>>
       \/ /\ faults + misses < MaxFaults /\ faults' = faults + 1
          /\ toHost' \in {toHost, Append(toHost, [Rsp("none") EXCEPT !.class = "NACK"])}
          /\ UNCHANGED executed
    /\ UNCHANGED <<driver, holder, readers, port, request, cmds, events, confirmed, handled,
                   spoiled, gaveUp, lapped, unchecked>>

DevEvent ==
    /\ events < MaxEvents /\ Len(toHost) < MaxReady /\ events' = events + 1
    /\ toHost' = Append(toHost, [class |-> "ASYNC", id |-> "none", seq |-> 0, n |-> events'])
    /\ UNCHANGED <<driver, holder, readers, port, request, toDevice, cmds, faults, history>>

(***************************************************************************)
(* Specification.                                                          *)
(***************************************************************************)

Command == \/ CmdSend \/ CmdUnsent \/ CmdPoll \/ CmdSemTaken \/ CmdTimeout \/ CmdRead
           \/ CmdReply \/ CmdSpawn \/ CmdMoreChunks \/ CmdChunks
           \/ (\E o \in Outcomes : CmdResult(o)) \/ \E c \in Callers : CmdReturn(c)
Reader == ReaderLock \/ ReaderRead \/ ReaderProc
Irq == IrqPoll \/ IrqCount \/ IrqSignal

Next ==
    \/ \E c \in Callers : Call(c) \/ CmdLock(c) \/ CmdBad(c)
    \/ Command \/ Reader \/ Irq \/ DevAnswer \/ DevEvent

Spec == Init /\ [][Next]_vars

\* The threads go on; a wait for the semaphore is taken or times out; the
\* lock is given to those that wait.  Nothing is assumed of the device.
Fairness ==
    /\ WF_vars(Command) /\ WF_vars(Reader) /\ WF_vars(Irq)
    /\ \A c \in Callers : WF_vars(CmdLock(c) \/ CmdBad(c))

FairSpec == Spec /\ Fairness

-----------------------------------------------------------------------------
Commands == [n : Nat, id : MsgIds \cup {"none", "bad"}]
DevMsgs == [id : MsgIds \cup {"none"}, seq : 0..(SeqMod - 1), n : Nat]
HostMsgs == [class : {"RSP", "NACK", "ASYNC"}, id : MsgIds \cup {"none", "error"},
             seq : 0..(SeqMod - 1), n : Nat]
ReturnValues == {"OK", "CRC", "FAILED", "RADAR_IF", "RESP_TIMEOUT", "NACK", "MSGID", "SEQ_NUM",
                 "ERROR", "OSIF"}

TypeOK ==
    /\ devMutex \in Callers \cup {"free", "reader"}
    /\ cmdSem \in BOOLEAN /\ isCmdRespWaited \in BOOLEAN
    /\ rxIrqCnt \in 0..(CntMod - 1) /\ rxDoneCnt \in 0..(CntMod - 1)
    /\ cmdSeqNum \in 0..(SeqMod - 1) /\ txMsg \in DevMsgs
    /\ got \in [class : {"MAX", "RSP", "NACK", "ASYNC"}, ret : {"OK", "CRC", "FAILED"},
                msg : HostMsgs \cup {NoMsg}]
    /\ pc \in {"none", "send", "unsent", "wait", "sem", "read", "reply", "spawn", "result",
               "chunks", "done", "rdRead", "rdProc", "leaked"}
    /\ attempt \in Nat /\ retVal \in ReturnValues
    /\ readers \in 0..MaxReaders
    /\ irqMasked \in BOOLEAN /\ irqPc \in {"poll", "count", "test"}
    /\ checkIrqRes \in {"OK", "LOW"} /\ stale \in BOOLEAN /\ misses \in Nat
    /\ request \in [Callers -> Commands]
    /\ toDevice \in Seq(DevMsgs) /\ toHost \in Seq(HostMsgs)
    /\ cmds \in Nat /\ events \in Nat /\ faults \in Nat
    /\ executed \subseteq Nat /\ confirmed \subseteq Nat
    /\ handled \subseteq Nat /\ spoiled \subseteq Nat
    /\ gaveUp \in BOOLEAN /\ lapped \in BOOLEAN /\ unchecked \in BOOLEAN

(***************************************************************************)
(* Nobody asks the device for a message it does not have, but once for an  *)
(* interrupt that was raised on an old look at the line: the read of an    *)
(* idle bus fails and unmasks, and the next look tells.  Readers are       *)
(* spawned on the strength of a count that others may have worked off when *)
(* they get the lock.                                                      *)
(***************************************************************************)
ReadsOnlyWhenReady == pc \in {"read", "rdRead"} => toHost # <<>> \/ stale = TRUE

(***************************************************************************)
(* The host IRQ is never left masked without a message counted that        *)
(* somebody has yet to read: nothing else unmasks it, and the polling      *)
(* thread would never see a message again.  A failed read unmasks as well. *)
(***************************************************************************)
MaskMeansPending == irqMasked = TRUE => irqPc = "count" \/ Pending

(***************************************************************************)
(* A message the IRQ handler has counted has somebody to read it: the      *)
(* command that waits, or a spawned thread.  The handler decides by        *)
(* isCmdRespWaited without a lock, while the command's thread clears it.   *)
(***************************************************************************)
Quiet == devMutex = "free" /\ readers = 0 /\ irqPc = "poll"
NobodyStranded == Quiet /\ unchecked = FALSE => ~Pending

(***************************************************************************)
(* As long as no command has ended without a response, and no sequence     *)
(* number came round while a message with it was under way, a response     *)
(* accepted by identifier and sequence number is that command's own: the   *)
(* device has executed it.  Retries leave responses behind that answer     *)
(* nothing.                                                                *)
(***************************************************************************)
ConfirmedExecuted == ~gaveUp /\ ~lapped => confirmed \subseteq executed

(***************************************************************************)
(* A sequence number comes round to a message under way only when as many  *)
(* messages as there are numbers are under way, or were lost by a fault:   *)
(* each number but the last was taken by a command whose response was read *)
(* in its turn.                                                            *)
(***************************************************************************)
Crowded == Len(toDevice) + Len(toHost) + faults >= SeqMod

LapsWhenCrowded == [][lapped' => lapped \/ gaveUp \/ Crowded]_vars

\* What keeps the lock for good: a command with an over-long sub-block, whose
\* call has returned, and one whose response announces more chunks.
Stuck == pc \in {"leaked", "chunks"}

(***************************************************************************)
(* Every call returns, whatever the device does: answers, stays silent,    *)
(* refuses, sends damaged messages, or has none when it is asked for one.  *)
(* The exception is a response that announces more chunks: its call does   *)
(* not return unless the system refuses a thread, nor do those that wait   *)
(* for the lock, then or after a command that could not be put together.   *)
(***************************************************************************)
CommandReturns ==
    \A c \in Callers : []<>(request[c] = NoCmd) \/ <>[]Stuck

(***************************************************************************)
(* Every event the device sends reaches the application's handler, unless  *)
(* it was damaged on the way, or waiting ended without a look at what was  *)
(* pending (a failed write, a response that could not be read), or the     *)
(* lock is kept for good.                                                  *)
(***************************************************************************)
EventDelivered ==
    \A e \in 1..MaxEvents :
        (events >= e ~> e \in spoiled \cup handled \/ unchecked) \/ <>[]Stuck

-----------------------------------------------------------------------------
(***************************************************************************)
(* The inductive invariant behind the three safety properties above.  A    *)
(* message is unread when it is counted and rlDriverMsgRead has not        *)
(* returned from it: between that return and rxDoneCnt++ the counters      *)
(* still differ by the message read, and the IRQ is unmasked again.        *)
(***************************************************************************)
CommandPcs == {"send", "unsent", "wait", "sem", "read", "reply", "spawn", "result", "chunks",
               "done", "leaked"}
WaitingPcs == {"unsent", "wait", "sem", "read", "reply"}
Processing == pc \in {"reply", "rdProc"}
Unread == IF Processing THEN rxIrqCnt # NextCnt(rxDoneCnt) ELSE rxIrqCnt # rxDoneCnt

\* The counters differ by at most the message being processed and one more.
CountInv ==
    IF Processing THEN rxIrqCnt \in {NextCnt(rxDoneCnt), NextCnt(NextCnt(rxDoneCnt))}
                  ELSE rxIrqCnt \in {rxDoneCnt, NextCnt(rxDoneCnt)}

\* The IRQ is masked from its detection until its message has been read.
MaskInv ==
    /\ (irqMasked = TRUE) <=> irqPc = "count" \/ Unread
    /\ irqPc = "count" => ~Unread
    /\ irqMasked = TRUE /\ stale = FALSE => toHost # <<>>
    /\ pc \in {"read", "rdRead"} => Unread

\* The holder of the lock is where pc says; only a command is waited for.
LockInv ==
    /\ pc = "none" <=> devMutex = "free"
    /\ isCmdRespWaited = TRUE => pc \in CommandPcs
    /\ pc \in WaitingPcs => isCmdRespWaited = TRUE

\* Somebody is going to read a message that is unread.
CoverInv ==
    Unread => \/ irqPc = "test" \/ readers > 0 \/ pc \in {"rdRead", "spawn"}
              \/ isCmdRespWaited = TRUE \/ unchecked = TRUE

IInv == TypeOK /\ CountInv /\ MaskInv /\ LockInv /\ CoverInv

(***************************************************************************)
(* And the one behind ConfirmedExecuted.                                   *)
(***************************************************************************)
SentPcs == WaitingPcs \cup {"spawn", "result", "chunks"}

\* The command under way has the current number.
NumberInv ==
    pc \in SentPcs \cup {"send"} => txMsg.seq = cmdSeqNum /\ txMsg.id \in MsgIds

\* No two commands have had the same number at a time.
Distinct == ~gaveUp /\ ~lapped

\* A number is taken until its attempt ends with a response.
Taken == pc \in SentPcs \cup {"send"} \/ (pc = "done" /\ retVal \in NoResponse)

\* What has the current number is the current command's.
OwnInv ==
    Distinct =>
        /\ \A i \in 1..Len(toDevice) :
              toDevice[i].seq = cmdSeqNum => Taken /\ toDevice[i].n = txMsg.n
        /\ \A i \in 1..Len(toHost) :
              toHost[i].class # "ASYNC" /\ toHost[i].seq = cmdSeqNum =>
                  Taken /\ toHost[i].n = txMsg.n

\* A response under a command's identifier says that it was executed.
ExecInv ==
    \A i \in 1..Len(toHost) :
        toHost[i].class = "RSP" /\ toHost[i].id \in MsgIds => toHost[i].n \in executed

\* So does the message read, and the verdict on it.
VerdictInv ==
    Distinct =>
        /\ pc = "reply" /\ Verdict = "OK" /\ got.ret = "OK" /\ got.class = "RSP" =>
              txMsg.n \in executed
        /\ pc \in {"spawn", "result"} /\ retVal = "OK" => txMsg.n \in executed

MatchInv == NumberInv /\ OwnInv /\ ExecInv /\ VerdictInv /\ ConfirmedExecuted

\* How many numbers ago this one was given out, when now is the current one.
Age(seq, now) == IF seq <= now THEN now - seq ELSE now - seq + SeqMod

\* One number is given out for each message: a message is no older than the ones
\* behind it are many, but for faults and the number not yet sent.
Missing == IF pc \in SentPcs THEN faults ELSE faults + 1

AgeInv ==
    Distinct =>
        /\ \A i \in 1..Len(toDevice) :
              Age(toDevice[i].seq, cmdSeqNum) <= Len(toDevice) - i + Missing
        /\ \A i \in 1..Len(toHost) :
              toHost[i].class # "ASYNC" =>
                  Age(toHost[i].seq, cmdSeqNum) <= Len(toHost) - i + Len(toDevice) + Missing

=============================================================================
