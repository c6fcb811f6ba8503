-------------------------- MODULE MmWaveLinkProofs --------------------------
(***************************************************************************)
(* Type correctness, the safety of the interrupt and read counters, and    *)
(* the match of responses and commands of MmWaveLink, for any callers,     *)
(* retry count, counter ranges and bounds.                                 *)
(***************************************************************************)
EXTENDS MmWaveLink, ModuloLemmas, SequenceTheorems

LEMMA InitIInv == Init => IInv
<1> SUFFICES ASSUME Init PROVE IInv
  OBVIOUS
<1> USE LinkAssumption
<1>1. toDevice \in Seq(DevMsgs) /\ toHost \in Seq(HostMsgs)
  BY EmptySeq DEF Init
<1>2. request \in [Callers -> Commands] /\ txMsg \in DevMsgs
  BY DEF Init, NoCmd, Commands, DevMsgs
<1>3. got \in [class : {"MAX", "RSP", "NACK", "ASYNC"}, ret : {"OK", "CRC", "FAILED"},
               msg : HostMsgs \cup {NoMsg}]
  BY DEF Init, Nothing
<1>4. retVal \in ReturnValues
  BY DEF Init, ReturnValues
<1>5. devMutex \in Callers \cup {"free", "reader"} /\ pc = "none" /\ irqPc = "poll"
      /\ rxIrqCnt \in 0..(CntMod - 1) /\ rxDoneCnt \in 0..(CntMod - 1)
      /\ cmdSeqNum \in 0..(SeqMod - 1) /\ attempt \in Nat /\ readers \in 0..MaxReaders
      /\ cmds \in Nat /\ events \in Nat /\ faults \in Nat /\ misses \in Nat
      /\ checkIrqRes \in {"OK", "LOW"}
  BY DEF Init
<1>6. cmdSem \in BOOLEAN /\ isCmdRespWaited \in BOOLEAN /\ irqMasked \in BOOLEAN /\ stale \in BOOLEAN
      /\ gaveUp \in BOOLEAN /\ lapped \in BOOLEAN /\ unchecked \in BOOLEAN
      /\ executed \subseteq Nat /\ confirmed \subseteq Nat
      /\ handled \subseteq Nat /\ spoiled \subseteq Nat
  BY DEF Init
<1>7. TypeOK
  BY <1>1, <1>2, <1>3, <1>4, <1>5, <1>6 DEF TypeOK
<1>8. CountInv /\ MaskInv /\ LockInv /\ CoverInv
  BY DEF Init, CountInv, MaskInv, LockInv, CoverInv, Processing, Unread, CommandPcs, WaitingPcs
<1> QED
  BY <1>7, <1>8 DEF IInv

\* Counting a message stays within the counters' range and shows.
LEMMA NextCntFacts ==
  ASSUME NEW k \in 0..(CntMod - 1)
  PROVE  /\ NextCnt(k) \in 0..(CntMod - 1)
         /\ NextCnt(k) # k /\ NextCnt(NextCnt(k)) # k /\ NextCnt(NextCnt(k)) # NextCnt(k)
  BY LinkAssumption DEF NextCnt

(***************************************************************************)
(* Types, one action at a time.                                            *)
(***************************************************************************)
LEMMA MsgReadType ==
  ASSUME TypeOK, NEW from, NEW to \in {"reply", "rdProc"}, MsgRead(from, to)
  PROVE  TypeOK'
<1>1. toHost' \in Seq(HostMsgs) /\ spoiled' \subseteq Nat
  <2>1. toHost # <<>> => Tail(toHost) \in Seq(HostMsgs) /\ Head(toHost) \in HostMsgs
    BY HeadTailProperties DEF TypeOK
  <2> QED
    BY <2>1 DEF MsgRead, TypeOK, HostMsgs
<1>2. got' \in [class : {"MAX", "RSP", "NACK", "ASYNC"}, ret : {"OK", "CRC", "FAILED"},
                msg : HostMsgs \cup {NoMsg}]
  <2>1. toHost # <<>> => Head(toHost) \in HostMsgs
    BY HeadTailProperties DEF TypeOK
  <2>2. \A h \in HostMsgs : \A r \in {"OK", "CRC"} :
           [class |-> h.class, ret |-> r, msg |-> h]
             \in [class : {"MAX", "RSP", "NACK", "ASYNC"}, ret : {"OK", "CRC", "FAILED"},
                  msg : HostMsgs \cup {NoMsg}]
    BY DEF HostMsgs
  <2>3. [Nothing EXCEPT !.ret = "FAILED"]
             \in [class : {"MAX", "RSP", "NACK", "ASYNC"}, ret : {"OK", "CRC", "FAILED"},
                  msg : HostMsgs \cup {NoMsg}]
    BY DEF Nothing
  <2> QED
    BY <2>1, <2>2, <2>3 DEF MsgRead
<1>3. faults' \in Nat
  <2>1. faults' = faults \/ faults' = faults + 1
    BY Zenon DEF MsgRead
  <2> QED
    BY <2>1 DEF TypeOK
<1> QED
  BY <1>1, <1>2, <1>3, ZenonT(40) DEF MsgRead, TypeOK

LEMMA CommandType ==
  ASSUME TypeOK, Command
  PROVE  TypeOK'
<1> USE LinkAssumption DEF TypeOK, driver, port, spi, history
<1>1. CASE CmdSend
  <2>1. Append(toDevice, txMsg) \in Seq(DevMsgs)
    BY AppendProperties
  <2>2. toDevice' \in Seq(DevMsgs)
    BY <1>1, <2>1 DEF CmdSend
  <2>3. /\ attempt' \in Nat /\ faults' \in Nat /\ retVal' \in ReturnValues
        /\ isCmdRespWaited' \in BOOLEAN /\ pc' \in {"wait", "unsent"}
    BY <1>1 DEF CmdSend, ReturnValues
  <2>4. UNCHANGED <<devMutex, cmdSem, rxIrqCnt, rxDoneCnt, cmdSeqNum, txMsg, got, readers,
                irqMasked, irqPc, checkIrqRes, stale, misses, request, toHost, cmds, events, executed, confirmed,
                handled, spoiled, gaveUp, lapped, unchecked>>
    BY <1>1 DEF CmdSend
  <2> QED
    BY <2>2, <2>3, <2>4
<1>2. CASE CmdUnsent
  <2>1. /\ retVal' \in ReturnValues /\ isCmdRespWaited' \in BOOLEAN /\ pc' = "done"
        /\ unchecked' \in BOOLEAN /\ gaveUp' \in BOOLEAN
    BY <1>2 DEF CmdUnsent, ReturnValues
  <2>2. UNCHANGED <<devMutex, cmdSem, rxIrqCnt, rxDoneCnt, cmdSeqNum, txMsg, got, attempt,
                readers, irqMasked, irqPc, checkIrqRes, stale, misses, request, toDevice, toHost, cmds, events, faults,
                executed, confirmed, handled, spoiled, lapped>>
    BY <1>2 DEF CmdUnsent
  <2> QED
    BY <2>1, <2>2
<1>3. CASE CmdPoll
  <2>1. pc' \in {"read", "sem"}
    BY <1>3 DEF CmdPoll
  <2>2. UNCHANGED <<devMutex, cmdSem, isCmdRespWaited, rxIrqCnt, rxDoneCnt, cmdSeqNum, txMsg,
                got, attempt, retVal, readers, irqMasked, irqPc, checkIrqRes, stale, misses, request, toDevice, toHost,
                cmds, events, faults, executed, confirmed, handled, spoiled, gaveUp, lapped,
                unchecked>>
    BY <1>3 DEF CmdPoll
  <2> QED
    BY <2>1, <2>2
<1>4. CASE CmdSemTaken
  <2>1. cmdSem' \in BOOLEAN /\ pc' = "wait"
    BY <1>4 DEF CmdSemTaken
  <2>2. UNCHANGED <<devMutex, isCmdRespWaited, rxIrqCnt, rxDoneCnt, cmdSeqNum, txMsg, got,
                attempt, retVal, readers, irqMasked, irqPc, checkIrqRes, stale, misses, request, toDevice, toHost, cmds,
                events, faults, executed, confirmed, handled, spoiled, gaveUp, lapped,
                unchecked>>
    BY <1>4 DEF CmdSemTaken
  <2> QED
    BY <2>1, <2>2
<1>5. CASE CmdTimeout
  <2>1. retVal' \in ReturnValues /\ isCmdRespWaited' \in BOOLEAN /\ pc' = "spawn"
    BY <1>5 DEF CmdTimeout, ReturnValues
  <2>2. UNCHANGED <<devMutex, cmdSem, rxIrqCnt, rxDoneCnt, cmdSeqNum, txMsg, got, attempt,
                readers, irqMasked, irqPc, checkIrqRes, stale, misses, request, toDevice, toHost, cmds, events, faults,
                executed, confirmed, handled, spoiled, gaveUp, lapped, unchecked>>
    BY <1>5 DEF CmdTimeout
  <2> QED
    BY <2>1, <2>2
<1>6. CASE CmdRead
  BY <1>6, MsgReadType DEF CmdRead
<1>7. CASE CmdReply
  <2>1. Verdict \in ReturnValues /\ rxDoneCnt' \in 0..(CntMod - 1)
    BY <1>7, NextCntFacts DEF Verdict, CmdReply, ReturnValues
  <2>2. got.class = "ASYNC" /\ got.ret = "OK" => got.msg.n \in Nat
    BY DEF HostMsgs, NoMsg
  <2>3. isCmdRespWaited' \in BOOLEAN /\ cmdSem' \in BOOLEAN
    BY <1>7 DEF CmdReply
  <2>4. handled' \subseteq Nat /\ pc' \in {"spawn", "wait"}
    BY <1>7, <2>2 DEF CmdReply
  <2>5. retVal' \in ReturnValues
    BY <1>7, <2>1 DEF CmdReply
  <2>6. UNCHANGED <<devMutex, rxIrqCnt, cmdSeqNum, txMsg, got, attempt, readers, irqMasked, irqPc, checkIrqRes, stale, misses,
                    request, toDevice, toHost, cmds, events, faults, executed, confirmed,
                    spoiled, gaveUp, lapped, unchecked>>
    BY <1>7 DEF CmdReply
  <2> QED
    BY <2>1, <2>3, <2>4, <2>5, <2>6
<1>8. CASE CmdSpawn \/ CmdMoreChunks \/ CmdChunks
  <2>1. readers' \in 0..MaxReaders
    BY <1>8 DEF CmdSpawn, CmdMoreChunks, CmdChunks
  <2>2. retVal' \in ReturnValues /\ pc' \in {"result", "chunks"}
    BY <1>8 DEF CmdSpawn, CmdMoreChunks, CmdChunks, ReturnValues
  <2>3. UNCHANGED <<devMutex, cmdSem, isCmdRespWaited, rxIrqCnt, rxDoneCnt, cmdSeqNum, txMsg,
                got, attempt, irqMasked, irqPc, checkIrqRes, stale, misses, request, toDevice,
                toHost, cmds, events, faults, executed, confirmed, handled, spoiled, gaveUp,
                lapped, unchecked>>
    BY <1>8 DEF CmdSpawn, CmdMoreChunks, CmdChunks
  <2> QED
    BY <2>1, <2>2, <2>3
<1>9. ASSUME NEW outcome \in Outcomes, CmdResult(outcome)
      PROVE  TypeOK'
  <2>1. (cmdSeqNum + 1) % SeqMod \in 0..(SeqMod - 1)
    BY ModRange
  <2>2. cmdSeqNum' \in 0..(SeqMod - 1) /\ txMsg' \in DevMsgs /\ isCmdRespWaited' \in BOOLEAN
        /\ unchecked' \in BOOLEAN /\ lapped' \in BOOLEAN
    BY <1>9, <2>1 DEF CmdResult, DevMsgs
  <2>3. outcome \in ReturnValues
    BY <1>9 DEF Outcomes, ReturnValues
  <2>4. confirmed' \subseteq Nat
    BY <1>9 DEF CmdResult, DevMsgs
  <2>5. retVal' \in ReturnValues /\ pc' \in {"send", "done"}
    BY <1>9, <2>3 DEF CmdResult
  <2>6. UNCHANGED <<devMutex, cmdSem, rxIrqCnt, rxDoneCnt, got, attempt, readers, irqMasked, irqPc, checkIrqRes, stale, misses,
                    request, toDevice, toHost, cmds, events, faults, executed, handled, spoiled,
                    gaveUp>>
    BY <1>9 DEF CmdResult
  <2> QED
    BY <2>2, <2>4, <2>5, <2>6
<1>10. ASSUME NEW c \in Callers, CmdReturn(c)
       PROVE  TypeOK'
  <2>1. request' \in [Callers -> Commands]
    BY <1>10 DEF CmdReturn, NoCmd, Commands
  <2>2. retVal' \in ReturnValues /\ gaveUp' \in BOOLEAN /\ unchecked' \in BOOLEAN
    BY <1>10 DEF CmdReturn, ReturnValues
  <2> QED
    BY <1>10, <2>1, <2>2 DEF CmdReturn, Nothing
<1> QED
  BY <1>1, <1>2, <1>3, <1>4, <1>5, <1>6, <1>7, <1>8, <1>9, <1>10 DEF Command

LEMMA OthersType ==
  ASSUME TypeOK, Reader \/ Irq \/ DevAnswer \/ DevEvent
                 \/ \E c \in Callers : Call(c) \/ CmdLock(c) \/ CmdBad(c)
  PROVE  TypeOK'
<1> USE LinkAssumption DEF TypeOK, driver, holder, port, spi, history
<1>1. ASSUME NEW c \in Callers, Call(c)
      PROVE  TypeOK'
  BY <1>1 DEF Call, Commands
<1>2. ASSUME NEW c \in Callers, CmdLock(c)
      PROVE  TypeOK'
  <2>1. txMsg' \in DevMsgs
    BY <1>2, ModRange DEF CmdLock, DevMsgs, Commands
  <2> QED
    BY <1>2, <2>1 DEF CmdLock
<1>3. ASSUME NEW c \in Callers, CmdBad(c)
      PROVE  TypeOK'
  BY <1>3 DEF CmdBad, NoCmd, Commands
<1>4. CASE ReaderLock
  BY <1>4 DEF ReaderLock
<1>5. CASE ReaderRead
  BY <1>5, MsgReadType DEF ReaderRead
<1>6. CASE ReaderProc
  <2>1. got.class = "ASYNC" /\ got.ret = "OK" => got.msg.n \in Nat
    BY DEF HostMsgs, NoMsg
  <2>2. handled' \subseteq Nat /\ rxDoneCnt' \in 0..(CntMod - 1)
    BY <1>6, <2>1, NextCntFacts DEF ReaderProc
  <2>3. got' \in [class : {"MAX", "RSP", "NACK", "ASYNC"}, ret : {"OK", "CRC", "FAILED"},
                  msg : HostMsgs \cup {NoMsg}]
    BY <1>6 DEF ReaderProc, Nothing
  <2> QED
    BY <1>6, <2>2, <2>3 DEF ReaderProc
<1>7. CASE IrqPoll
  <2>1. irqPc' \in {"poll", "count"} /\ misses' \in Nat
    BY <1>7 DEF IrqPoll
  <2>2. irqMasked' \in BOOLEAN /\ stale' \in BOOLEAN /\ checkIrqRes' \in {"OK", "LOW"}
    BY <1>7, Zenon DEF IrqPoll
  <2>3. UNCHANGED <<devMutex, cmdSem, isCmdRespWaited, rxIrqCnt, rxDoneCnt, cmdSeqNum, txMsg, got, pc,
                attempt, retVal, readers, request, toDevice,
                toHost, cmds, events, faults, executed, confirmed, handled, spoiled, gaveUp,
                lapped, unchecked>>
    BY <1>7 DEF IrqPoll
  <2> QED
    BY <2>1, <2>2, <2>3
<1>8. CASE IrqCount
  <2>1. rxIrqCnt' \in 0..(CntMod - 1)
    BY <1>8, NextCntFacts DEF IrqCount
  <2> QED
    BY <1>8, <2>1 DEF IrqCount
<1>9. CASE IrqSignal
  <2>1. cmdSem' \in BOOLEAN /\ irqPc' = "poll"
    BY <1>9, Zenon DEF IrqSignal
  <2>3. readers' = readers \/ (readers < MaxReaders /\ readers' = readers + 1)
    BY <1>9, Zenon DEF IrqSignal
  <2>2. UNCHANGED <<devMutex, isCmdRespWaited, rxIrqCnt, rxDoneCnt, cmdSeqNum, txMsg, got, pc,
                attempt, retVal, irqMasked, checkIrqRes, stale, misses, request, toDevice,
                toHost, cmds, events, faults, executed, confirmed, handled, spoiled, gaveUp,
                lapped, unchecked>>
    BY <1>9 DEF IrqSignal
  <2>4. readers' \in 0..MaxReaders
    BY <2>3
  <2> QED
    BY <2>1, <2>2, <2>4
<1>10. CASE DevAnswer
  <2>1. Head(toDevice) \in DevMsgs /\ Tail(toDevice) \in Seq(DevMsgs)
    BY <1>10, HeadTailProperties DEF DevAnswer
  <2> DEFINE m == Head(toDevice)
             Rsp(id) == [class |-> "RSP", id |-> id, seq |-> m.seq, n |-> m.n]
  <2>2. Rsp(m.id) \in HostMsgs /\ Rsp("error") \in HostMsgs
        /\ [Rsp("none") EXCEPT !.class = "NACK"] \in HostMsgs
    BY <2>1 DEF HostMsgs, DevMsgs
  <2> HIDE DEF Rsp
  <2>3. Append(toHost, Rsp(m.id)) \in Seq(HostMsgs) /\ Append(toHost, Rsp("error")) \in Seq(HostMsgs)
        /\ Append(toHost, [Rsp("none") EXCEPT !.class = "NACK"]) \in Seq(HostMsgs)
    BY <2>2, AppendProperties
  <2>4. toHost' \in Seq(HostMsgs)
    BY <1>10, <2>3 DEF DevAnswer, Rsp
  <2>5. m.n \in Nat
    BY <2>1 DEF DevMsgs
  <2>6. executed' \subseteq Nat
    BY <1>10, <2>5 DEF DevAnswer
  <2>7. faults' \in Nat
    BY <1>10 DEF DevAnswer
  <2> QED
    BY <1>10, <2>1, <2>4, <2>6, <2>7 DEF DevAnswer
<1>11. CASE DevEvent
  <2>1. events' \in Nat
    BY <1>11 DEF DevEvent
  <2>2. [class |-> "ASYNC", id |-> "none", seq |-> 0, n |-> events'] \in HostMsgs
    BY <2>1 DEF HostMsgs
  <2>3. toHost' \in Seq(HostMsgs)
    BY <1>11, <2>2, AppendProperties DEF DevEvent
  <2> QED
    BY <1>11, <2>1, <2>3 DEF DevEvent
<1> QED
  BY <1>1, <1>2, <1>3, <1>4, <1>5, <1>6, <1>7, <1>8, <1>9, <1>10, <1>11 DEF Reader, Irq

LEMMA NextTypeOK ==
  ASSUME TypeOK, [Next]_vars
  PROVE  TypeOK'
<1>1. CASE Next
  BY <1>1, CommandType, OthersType DEF Next
<1>2. CASE UNCHANGED vars
  BY <1>2 DEF TypeOK, vars, driver, holder, port, spi, history
<1> QED
  BY <1>1, <1>2
(***************************************************************************)
(* The counters, the mask, the lock and who reads, one action at a time.   *)
(***************************************************************************)
Parts == CountInv /\ MaskInv /\ LockInv /\ CoverInv

LEMMA MsgReadParts ==
  ASSUME IInv, NEW from, NEW to, MsgRead(from, to),
         (from = "read" /\ to = "reply") \/ (from = "rdRead" /\ to = "rdProc")
  PROVE  Parts'
<1> USE DEF IInv, TypeOK, CountInv, MaskInv, LockInv, CoverInv, Parts, Processing,
            Unread, CommandPcs, WaitingPcs, driver, holder, port, spi, history
<1>1. rxIrqCnt = NextCnt(rxDoneCnt) /\ irqPc # "count"
  BY DEF MsgRead
<1> QED
  BY <1>1 DEF MsgRead

LEMMA CommandParts ==
  ASSUME IInv, Command
  PROVE  Parts'
<1>6. CASE CmdRead
  <2>1. MsgRead("read", "reply")
    BY <1>6 DEF CmdRead
  <2> QED
    BY <2>1, MsgReadParts, Zenon
<1> USE DEF IInv, TypeOK, CountInv, MaskInv, LockInv, CoverInv, Parts, Processing,
            Unread, CommandPcs, WaitingPcs, driver, holder, port, spi, history
<1>0. rxDoneCnt \in 0..(CntMod - 1)
  OBVIOUS
<1>1. CASE CmdSend
  BY <1>1 DEF CmdSend
<1>2. CASE CmdUnsent
  BY <1>2 DEF CmdUnsent
<1>3. CASE CmdPoll
  BY <1>3 DEF CmdPoll, Pending
<1>4. CASE CmdSemTaken
  BY <1>4 DEF CmdSemTaken
<1>5. CASE CmdTimeout
  BY <1>5 DEF CmdTimeout
<1>7. CASE CmdReply
  BY <1>0, <1>7, NextCntFacts DEF CmdReply
<1>8. CASE CmdSpawn
  <2>1. /\ pc = "spawn" /\ pc' = "result"
        /\ UNCHANGED <<devMutex, isCmdRespWaited, rxIrqCnt, rxDoneCnt, irqMasked, irqPc, stale,
                       toHost, unchecked>>
    BY <1>8 DEF CmdSpawn
  <2>2. rxIrqCnt # rxDoneCnt /\ isCmdRespWaited = FALSE => readers' > 0
    BY <1>8, LinkAssumption DEF CmdSpawn, Pending
  <2> QED
    BY <2>1, <2>2
<1>11. CASE CmdMoreChunks \/ CmdChunks
  <2>1. /\ pc \in {"result", "chunks"} /\ pc' \in {"result", "chunks"}
        /\ UNCHANGED <<devMutex, isCmdRespWaited, rxIrqCnt, rxDoneCnt, irqMasked, irqPc, stale,
                       toHost, unchecked>>
    BY <1>11 DEF CmdMoreChunks, CmdChunks
  <2>2. readers > 0 => readers' > 0
    BY <1>11 DEF CmdMoreChunks, CmdChunks
  <2> QED
    BY <2>1, <2>2
<1>9. ASSUME NEW outcome \in Outcomes, CmdResult(outcome)
      PROVE  Parts'
  BY <1>9 DEF CmdResult
<1>10. ASSUME NEW c \in Callers, CmdReturn(c)
       PROVE  Parts'
  BY <1>10 DEF CmdReturn
<1> QED
  BY <1>1, <1>2, <1>3, <1>4, <1>5, <1>6, <1>7, <1>8, <1>9, <1>10,
     <1>11
  DEF Command

LEMMA OthersParts ==
  ASSUME IInv, Reader \/ Irq \/ DevAnswer \/ DevEvent
               \/ \E c \in Callers : Call(c) \/ CmdLock(c) \/ CmdBad(c)
  PROVE  Parts'
<1> USE LinkAssumption DEF IInv, TypeOK, CountInv, MaskInv, LockInv, CoverInv, Parts, Processing,
            Unread, CommandPcs, WaitingPcs, driver, holder, port, spi, history
<1>0. rxDoneCnt \in 0..(CntMod - 1)
  OBVIOUS
<1>1. ASSUME NEW c \in Callers, Call(c)
      PROVE  Parts'
  BY <1>1 DEF Call
<1>2. ASSUME NEW c \in Callers, CmdLock(c)
      PROVE  Parts'
  BY <1>2 DEF CmdLock
<1>3. ASSUME NEW c \in Callers, CmdBad(c)
      PROVE  Parts'
  BY <1>3 DEF CmdBad
<1>4. CASE ReaderLock
  BY <1>4 DEF ReaderLock, Pending
<1>5. CASE ReaderRead
  BY <1>5, MsgReadParts DEF ReaderRead
<1>6. CASE ReaderProc
  BY <1>0, <1>6, NextCntFacts DEF ReaderProc
<1>7. CASE IrqPoll
  BY <1>7 DEF IrqPoll
<1>8. CASE IrqCount
  BY <1>0, <1>8, NextCntFacts DEF IrqCount
<1>9. CASE IrqSignal
  BY <1>9 DEF IrqSignal
<1>10. CASE DevAnswer
  BY <1>10 DEF DevAnswer
<1>11. CASE DevEvent
  <2>1. [class |-> "ASYNC", id |-> "none", seq |-> 0, n |-> events'] \in HostMsgs
    BY <1>11 DEF DevEvent, HostMsgs
  <2>2. toHost' # <<>>
    BY <1>11, <2>1, AppendProperties, SMTT(30) DEF DevEvent
  <2> QED
    BY <1>11, <2>2 DEF DevEvent
<1> QED
  BY <1>1, <1>2, <1>3, <1>4, <1>5, <1>6, <1>7, <1>8, <1>9, <1>10, <1>11 DEF Reader, Irq

LEMMA NextIInv == IInv /\ [Next]_vars => IInv'
<1> SUFFICES ASSUME IInv, [Next]_vars PROVE IInv'
  OBVIOUS
<1>1. TypeOK'
  BY NextTypeOK DEF IInv
<1>2. CASE Next
  BY <1>1, <1>2, CommandParts, OthersParts DEF Next, IInv, Parts
<1>3. CASE UNCHANGED vars
  BY <1>3 DEF vars, driver, holder, port, spi, history, IInv, TypeOK, CountInv, MaskInv, LockInv, CoverInv,
    Processing, Unread
<1> QED
  BY <1>2, <1>3

(***************************************************************************)
(* The theorems.                                                           *)
(***************************************************************************)

\* IInv is inductive: it holds in every state the driver can reach.
THEOREM Invariance == Spec => []IInv
<1>1. Init => IInv
  BY InitIInv
<1>2. IInv /\ [Next]_vars => IInv'
  BY NextIInv
<1> QED
  BY <1>1, <1>2, PTL DEF Spec

\* The variables keep their types (rl_driver.c's counters stay in range).
THEOREM TypeCorrect == Spec => []TypeOK
<1>1. IInv => TypeOK
  BY DEF IInv
<1> QED
  BY <1>1, Invariance, PTL

\* rlDriverMsgRead is only entered for a message the device has ready,
\* whichever thread enters it, or for an interrupt raised on an old look.
THEOREM ReadsReady == Spec => []ReadsOnlyWhenReady
<1>1. IInv => ReadsOnlyWhenReady
  BY DEF IInv, MaskInv, ReadsOnlyWhenReady
<1> QED
  BY <1>1, Invariance, PTL

\* The host IRQ is never left masked with nothing to read.
THEOREM MaskedForAMessage == Spec => []MaskMeansPending
<1>1. IInv => MaskMeansPending
  <2> SUFFICES ASSUME IInv, irqMasked = TRUE, irqPc # "count" PROVE Pending
    BY DEF MaskMeansPending
  <2>1. Unread /\ rxDoneCnt \in 0..(CntMod - 1)
    BY DEF IInv, MaskInv, TypeOK
  <2> QED
    BY <2>1, NextCntFacts DEF IInv, CountInv, Unread, Pending
<1> QED
  BY <1>1, Invariance, PTL

\* A counted message has a reader, unless waiting ended without a look.
THEOREM NoneStranded == Spec => []NobodyStranded
<1>1. IInv => NobodyStranded
  <2> SUFFICES ASSUME IInv, Quiet, unchecked = FALSE PROVE ~Pending
    BY DEF NobodyStranded
  <2>1. pc = "none" /\ isCmdRespWaited # TRUE
    BY DEF IInv, LockInv, Quiet, CommandPcs
  <2>2. ~(readers > 0) /\ irqPc # "test" /\ pc \notin {"rdRead", "spawn"}
    BY <2>1 DEF Quiet
  <2>3. ~Unread
    <3>1. CoverInv
      BY DEF IInv
    <3>2. unchecked # TRUE
      OBVIOUS
    <3> QED
      BY <2>1, <2>2, <3>1, <3>2 DEF CoverInv
  <2> QED
    BY <2>1, <2>3 DEF Unread, Pending, Processing
<1> QED
  BY <1>1, Invariance, PTL

(***************************************************************************)
(* Whose response is taken for whose.                                      *)
(***************************************************************************)
\* A message at the end of a queue, and one taken from its head.
LEMMA Pushed ==
  ASSUME NEW S, NEW s \in Seq(S), NEW x \in S
  PROVE  /\ Len(Append(s, x)) = Len(s) + 1 /\ Append(s, x)[Len(s) + 1] = x
         /\ \A i \in 1..Len(s) : Append(s, x)[i] = s[i]
  BY AppendProperties

LEMMA Popped ==
  ASSUME NEW S, NEW s \in Seq(S), s # <<>>
  PROVE  /\ Len(s) \in Nat \ {0} /\ Len(Tail(s)) = Len(s) - 1 /\ Head(s) = s[1]
         /\ \A i \in 1..Len(Tail(s)) : Tail(s)[i] = s[i + 1] /\ i + 1 \in 1..Len(s)
  BY HeadTailProperties

\* The last message of DevAnswer, of the command that it takes.
Answers(x) == /\ x \in HostMsgs /\ x.class \in {"RSP", "NACK"}
              /\ x.seq = toDevice[1].seq /\ x.n = toDevice[1].n

\* The device takes a command; it answers it or, by a fault, does not.
LEMMA DevAnswerEffect ==
  ASSUME TypeOK, DevAnswer
  PROVE  /\ Len(toDevice) \in Nat \ {0} /\ Len(toDevice') = Len(toDevice) - 1
         /\ \A i \in 1..Len(toDevice') : toDevice'[i] = toDevice[i + 1] /\ i + 1 \in 1..Len(toDevice)
         /\ executed \subseteq executed'
         /\ \/ toHost' = toHost /\ faults' = faults + 1
            \/ /\ Len(toHost') = Len(toHost) + 1 /\ faults' \in {faults, faults + 1}
               /\ \A i \in 1..Len(toHost) : toHost'[i] = toHost[i]
               /\ Answers(toHost'[Len(toHost) + 1])
               /\ LET x == toHost'[Len(toHost) + 1] IN
                  x.class = "RSP" /\ x.id \in MsgIds => x.n \in executed'
<1> DEFINE m == Head(toDevice)
           Rsp(id) == [class |-> "RSP", id |-> id, seq |-> m.seq, n |-> m.n]
           Nack == [Rsp("none") EXCEPT !.class = "NACK"]
<1>1. toDevice \in Seq(DevMsgs) /\ toDevice # <<>> /\ toHost \in Seq(HostMsgs)
  BY DEF TypeOK, DevAnswer
<1>2. /\ Len(toDevice) \in Nat \ {0} /\ Len(toDevice') = Len(toDevice) - 1
      /\ \A i \in 1..Len(toDevice') : toDevice'[i] = toDevice[i + 1] /\ i + 1 \in 1..Len(toDevice)
      /\ m = toDevice[1] /\ m \in DevMsgs
  BY <1>1, Popped DEF DevAnswer
<1>3. ASSUME NEW x \in HostMsgs, toHost' = Append(toHost, x)
      PROVE  /\ Len(toHost') = Len(toHost) + 1
             /\ \A i \in 1..Len(toHost) : toHost'[i] = toHost[i]
             /\ toHost'[Len(toHost) + 1] = x
  BY <1>1, <1>3, Pushed
<1>4. /\ Answers(Rsp(m.id)) /\ Answers(Rsp("error")) /\ Answers(Nack)
      /\ Rsp(m.id).n = m.n /\ Rsp("error").id = "error" /\ Nack.class = "NACK"
      /\ Rsp(m.id) \in HostMsgs /\ Rsp("error") \in HostMsgs /\ Nack \in HostMsgs
  BY <1>2 DEF Answers, HostMsgs, DevMsgs
<1>5. "error" \notin MsgIds
  BY LinkAssumption
<1>6. \/ toHost' = Append(toHost, Rsp(m.id)) /\ executed' = executed \cup {m.n} /\ faults' = faults
      \/ toHost' = Append(toHost, Rsp("error")) /\ executed' = executed /\ faults' = faults
      \/ toHost' = toHost /\ executed' = executed /\ faults' = faults + 1
      \/ toHost' = Append(toHost, Nack) /\ executed' = executed /\ faults' = faults + 1
  BY DEF DevAnswer
<1> HIDE DEF Rsp, Nack, m
<1>7. CASE toHost' = Append(toHost, Rsp(m.id)) /\ executed' = executed \cup {m.n} /\ faults' = faults
  BY <1>2, <1>3, <1>4, <1>7
<1>8. CASE toHost' = Append(toHost, Rsp("error")) /\ executed' = executed /\ faults' = faults
  BY <1>2, <1>3, <1>4, <1>5, <1>8
<1>9. CASE toHost' = toHost /\ executed' = executed /\ faults' = faults + 1
  BY <1>2, <1>9
<1>10. CASE toHost' = Append(toHost, Nack) /\ executed' = executed /\ faults' = faults + 1
  BY <1>2, <1>3, <1>4, <1>10
<1> QED
  BY <1>6, <1>7, <1>8, <1>9, <1>10

\* The sequence number after this one.
LEMMA NextNumber ==
  ASSUME TypeOK
  PROVE  (cmdSeqNum + 1) % SeqMod = IF cmdSeqNum + 1 = SeqMod THEN 0 ELSE cmdSeqNum + 1
<1>1. cmdSeqNum \in 0..(SeqMod - 1) /\ SeqMod \in Nat \ {0}
  BY LinkAssumption DEF TypeOK
<1> QED
  BY <1>1

\* The numbers and the queues of a state that has its types.
LEMMA Numbers ==
  ASSUME TypeOK
  PROVE  /\ SeqMod \in Nat \ {0} /\ cmdSeqNum \in 0..(SeqMod - 1) /\ faults \in Nat
         /\ Len(toDevice) \in Nat /\ Len(toHost) \in Nat
         /\ \A i \in 1..Len(toDevice) : toDevice[i].seq \in 0..(SeqMod - 1)
         /\ \A i \in 1..Len(toHost) : toHost[i].seq \in 0..(SeqMod - 1)
<1>1. \A i \in 1..Len(toDevice) : toDevice[i] \in DevMsgs
  BY ElementOfSeq DEF TypeOK
<1>2. \A i \in 1..Len(toHost) : toHost[i] \in HostMsgs
  BY ElementOfSeq DEF TypeOK
<1> QED
  BY <1>1, <1>2, LinkAssumption, LenProperties DEF TypeOK, DevMsgs, HostMsgs

\* Steps that read and write no message and keep the sequence number.
Silent == UNCHANGED <<toDevice, toHost, cmdSeqNum, executed, confirmed, lapped>>

LEMMA SilentMatch ==
  ASSUME TypeOK, MatchInv, Silent, gaveUp => gaveUp', NumberInv',
         Taken => gaveUp' \/ (Taken' /\ UNCHANGED txMsg), VerdictInv'
  PROVE  MatchInv'
<1> USE DEF MatchInv, Silent
<1>1. OwnInv'
  BY Zenon DEF OwnInv, Distinct
<1>2. ExecInv'
  BY DEF ExecInv
<1>3. ConfirmedExecuted'
  BY DEF ConfirmedExecuted
<1> QED
  BY <1>1, <1>2, <1>3

\* A command is written, or the write fails.
LEMMA SendMatch ==
  ASSUME TypeOK, MatchInv, CmdSend
  PROVE  MatchInv'
<1>1. /\ pc = "send" /\ pc' \in {"wait", "unsent"} /\ retVal' = "OK"
      /\ UNCHANGED <<cmdSeqNum, txMsg, toHost, executed, confirmed, gaveUp, lapped>>
  BY DEF CmdSend, history
<1>2. \/ toDevice' = toDevice
      \/ /\ Len(toDevice') = Len(toDevice) + 1 /\ toDevice'[Len(toDevice) + 1] = txMsg
         /\ \A i \in 1..Len(toDevice) : toDevice'[i] = toDevice[i]
  <2>1. toDevice \in Seq(DevMsgs) /\ txMsg \in DevMsgs
    BY DEF TypeOK
  <2>2. toDevice' = toDevice \/ toDevice' = Append(toDevice, txMsg)
    BY DEF CmdSend
  <2> QED
    BY <2>1, <2>2, Pushed
<1>3. Len(toDevice) \in Nat /\ Len(toHost) \in Nat
  BY Numbers
<1>4. NumberInv' /\ VerdictInv' /\ Taken /\ Taken'
  BY <1>1 DEF MatchInv, NumberInv, VerdictInv, SentPcs, WaitingPcs, Taken
<1>5. OwnInv'
  <2> SUFFICES ASSUME Distinct'
               PROVE  /\ \A i \in 1..Len(toDevice') :
                            toDevice'[i].seq = cmdSeqNum => toDevice'[i].n = txMsg.n
                      /\ \A i \in 1..Len(toHost) :
                            toHost[i].class # "ASYNC" /\ toHost[i].seq = cmdSeqNum =>
                                toHost[i].n = txMsg.n
    BY <1>1, <1>4 DEF OwnInv
  <2>1. Distinct /\ OwnInv
    BY <1>1 DEF Distinct, MatchInv
  <2> QED
    BY <1>2, <1>3, <2>1 DEF OwnInv
<1>6. ExecInv' /\ ConfirmedExecuted'
  BY <1>1 DEF MatchInv, ExecInv, ConfirmedExecuted
<1> QED
  BY <1>4, <1>5, <1>6 DEF MatchInv

\* A message is read, by the command that waits or by a reader.
LEMMA ReadMatch ==
  ASSUME TypeOK, MatchInv, CmdRead \/ ReaderRead
  PROVE  MatchInv'
<1>1. /\ (pc = "read" /\ pc' = "reply") \/ (pc = "rdRead" /\ pc' = "rdProc")
      /\ UNCHANGED <<cmdSeqNum, txMsg, toDevice, executed, confirmed, gaveUp, lapped, retVal>>
      /\ \/ /\ toHost # <<>> /\ toHost' = Tail(toHost)
            /\ got'.class = Head(toHost).class /\ got'.msg = Head(toHost)
         \/ got'.ret # "OK" /\ (toHost' = toHost \/ (toHost # <<>> /\ toHost' = Tail(toHost)))
  BY DEF CmdRead, ReaderRead, MsgRead, Nothing
<1>2. /\ Len(toHost) \in Nat
      /\ toHost # <<>> /\ toHost' = Tail(toHost) =>
           /\ Len(toHost') = Len(toHost) - 1 /\ 1 \in 1..Len(toHost) /\ Head(toHost) = toHost[1]
           /\ \A i \in 1..Len(toHost') : toHost'[i] = toHost[i + 1] /\ i + 1 \in 1..Len(toHost)
  <2>1. toHost \in Seq(HostMsgs) /\ Len(toHost) \in Nat
    BY Numbers DEF TypeOK
  <2> QED
    BY <2>1, Popped
<1>3. NumberInv' /\ (Taken <=> Taken')
  BY <1>1 DEF MatchInv, NumberInv, SentPcs, WaitingPcs, Taken
<1>4. ExecInv' /\ ConfirmedExecuted'
  BY <1>1, <1>2 DEF MatchInv, ExecInv, ConfirmedExecuted
<1>5. OwnInv'
  <2> SUFFICES ASSUME Distinct' PROVE OwnInv'
    BY DEF OwnInv
  <2>1. Distinct /\ OwnInv
    BY <1>1 DEF Distinct, MatchInv
  <2>2. \A i \in 1..Len(toHost') : \E k \in 1..Len(toHost) : toHost'[i] = toHost[k]
    BY <1>1, <1>2
  <2> QED
    BY <1>1, <1>3, <2>1, <2>2 DEF OwnInv
<1>6. VerdictInv'
  <2> SUFFICES ASSUME Distinct', pc' = "reply", Verdict' = "OK", got'.ret = "OK", got'.class = "RSP"
               PROVE  txMsg.n \in executed
    BY <1>1 DEF VerdictInv
  <2>1. Distinct /\ OwnInv /\ NumberInv /\ ExecInv
    BY <1>1 DEF Distinct, MatchInv
  <2>2. got'.msg.id = txMsg.id /\ got'.msg.seq = txMsg.seq
    BY <1>1 DEF Verdict
  <2>3. got'.msg = toHost[1] /\ toHost[1].class = "RSP" /\ 1 \in 1..Len(toHost)
    BY <1>1, <1>2
  <2>4. txMsg.seq = cmdSeqNum /\ txMsg.id \in MsgIds
    BY <1>1, <2>1 DEF NumberInv, SentPcs, WaitingPcs
  <2>5. toHost[1].n = txMsg.n /\ toHost[1].n \in executed
    BY <2>1, <2>2, <2>3, <2>4 DEF OwnInv, ExecInv
  <2> QED
    BY <2>5
<1> QED
  BY <1>3, <1>4, <1>5, <1>6 DEF MatchInv

\* An attempt ends: the next number has no message under way, or is marked.
LEMMA ResultMatch ==
  ASSUME TypeOK, MatchInv, NEW outcome \in Outcomes, CmdResult(outcome)
  PROVE  MatchInv'
<1>1. /\ pc = "result" /\ pc' \in {"send", "done"} /\ retVal' = outcome
      /\ UNCHANGED <<toDevice, toHost, executed, gaveUp>>
      /\ confirmed' = IF retVal = "OK" THEN confirmed \cup {txMsg.n} ELSE confirmed
  BY DEF CmdResult, spi
<1>2. txMsg.seq = cmdSeqNum /\ txMsg.id \in MsgIds
  BY <1>1 DEF MatchInv, NumberInv, SentPcs
<1>3. ExecInv' /\ VerdictInv'
  BY <1>1 DEF MatchInv, ExecInv, VerdictInv
<1>4. Distinct' => Distinct
  <2>1. lapped' = lapped \/ lapped' = (lapped \/ UnderWay(cmdSeqNum'))
    BY DEF CmdResult
  <2> QED
    BY <1>1, <2>1 DEF Distinct
<1>5. ConfirmedExecuted'
  BY <1>1, <1>4 DEF MatchInv, ConfirmedExecuted, VerdictInv, Distinct
<1>6. CASE outcome \in NoResponse
  <2>1. UNCHANGED <<cmdSeqNum, txMsg>> /\ Taken /\ Taken'
    BY <1>1, <1>6 DEF CmdResult, Taken, SentPcs
  <2>2. NumberInv'
    BY <1>2, <2>1 DEF NumberInv
  <2>3. OwnInv'
    BY <1>1, <1>4, <2>1 DEF MatchInv, OwnInv
  <2> QED
    BY <1>3, <1>5, <2>2, <2>3 DEF MatchInv
<1>7. CASE outcome \notin NoResponse
  <2>1. /\ lapped' = (lapped \/ UnderWay(cmdSeqNum'))
        /\ txMsg' = IF outcome = "NACK" THEN [txMsg EXCEPT !.seq = cmdSeqNum'] ELSE txMsg
        /\ pc' = "send" => outcome = "NACK"
    BY <1>7 DEF CmdResult
  <2>2. txMsg \in DevMsgs
    BY DEF TypeOK
  <2>3. NumberInv'
    BY <1>1, <1>2, <2>1, <2>2 DEF NumberInv, SentPcs, WaitingPcs, DevMsgs
  <2>4. Distinct' => ~UnderWay(cmdSeqNum')
    BY <2>1 DEF Distinct
  <2>5. OwnInv'
    BY <1>1, <2>4 DEF OwnInv, UnderWay
  <2> QED
    BY <1>3, <1>5, <2>3, <2>5 DEF MatchInv
<1> QED
  BY <1>6, <1>7

\* The device answers a command or sends an event.
LEMMA DeviceMatch ==
  ASSUME TypeOK, MatchInv, DevAnswer \/ DevEvent
  PROVE  MatchInv'
<1>1. UNCHANGED <<pc, retVal, got, cmdSeqNum, txMsg, confirmed, gaveUp, lapped>>
  BY DEF DevAnswer, DevEvent, driver, holder, history
<1>2. executed \subseteq executed'
  BY DevAnswerEffect DEF DevEvent, history
<1>3. NumberInv' /\ (Taken <=> Taken') /\ (Distinct <=> Distinct')
  BY <1>1 DEF MatchInv, NumberInv, Taken, Distinct
<1>4. VerdictInv'
  BY <1>1, <1>2 DEF MatchInv, VerdictInv, Distinct, Verdict
<1>5. ConfirmedExecuted'
  BY <1>1, <1>2 DEF MatchInv, ConfirmedExecuted
<1>6. CASE DevAnswer
  <2>1. ExecInv'
    <3>1. CASE toHost' = toHost
      BY <1>2, <3>1 DEF MatchInv, ExecInv
    <3>2. CASE toHost' # toHost
      <4>1. \A i \in 1..Len(toHost') :
               \/ i \in 1..Len(toHost) /\ toHost'[i] = toHost[i]
               \/ toHost'[i].class = "RSP" /\ toHost'[i].id \in MsgIds =>
                    toHost'[i].n \in executed'
        BY <1>6, <3>2, DevAnswerEffect, Numbers
      <4> QED
        BY <1>2, <4>1 DEF MatchInv, ExecInv
    <3> QED
      BY <3>1, <3>2
  <2>2. OwnInv'
    <3> SUFFICES ASSUME Distinct' PROVE OwnInv'
      BY DEF OwnInv
    <3>1. \A i \in 1..Len(toDevice') : \E k \in 1..Len(toDevice) : toDevice'[i] = toDevice[k]
      BY <1>6, DevAnswerEffect
    <3>2. \A i \in 1..Len(toHost') :
             \/ \E k \in 1..Len(toHost) : toHost'[i] = toHost[k]
             \/ 1 \in 1..Len(toDevice) /\ toHost'[i].seq = toDevice[1].seq /\ toHost'[i].n = toDevice[1].n
      BY <1>6, DevAnswerEffect, Numbers DEF Answers
    <3> QED
      BY <1>1, <1>3, <3>1, <3>2, ZenonT(40) DEF MatchInv, OwnInv
  <2> QED
    BY <1>3, <1>4, <1>5, <2>1, <2>2 DEF MatchInv
<1>7. CASE DevEvent
  <2>1. /\ toDevice' = toDevice /\ Len(toHost') = Len(toHost) + 1
        /\ toHost'[Len(toHost) + 1].class = "ASYNC"
        /\ \A i \in 1..Len(toHost) : toHost'[i] = toHost[i]
    <3>1. [class |-> "ASYNC", id |-> "none", seq |-> 0, n |-> events'] \in HostMsgs
      BY <1>7, LinkAssumption DEF DevEvent, TypeOK, HostMsgs
    <3> QED
      BY <1>7, <3>1, Pushed DEF DevEvent, TypeOK
  <2>2. \A i \in 1..Len(toHost') :
           toHost'[i].class = "ASYNC" \/ (i \in 1..Len(toHost) /\ toHost'[i] = toHost[i])
    BY <2>1, Numbers
  <2>3. ExecInv'
    BY <1>2, <2>2 DEF MatchInv, ExecInv
  <2>4. OwnInv'
    BY <1>1, <1>3, <2>1, <2>2 DEF MatchInv, OwnInv
  <2> QED
    BY <1>3, <1>4, <1>5, <2>3, <2>4 DEF MatchInv
<1> QED
  BY <1>6, <1>7

LEMMA MatchStep ==
  ASSUME IInv, MatchInv, Next
  PROVE  MatchInv'
<1>0. TypeOK
  BY DEF IInv
<1> USE DEF driver, holder, port, spi, history
<1> DEFINE Same == Silent /\ (gaveUp => gaveUp') /\ NumberInv' /\ VerdictInv'
                     /\ (Taken => gaveUp' \/ (Taken' /\ UNCHANGED txMsg))
<1>a. ASSUME Same PROVE MatchInv'
  BY <1>0, <1>a, SilentMatch
<1>b. ASSUME Silent, UNCHANGED <<pc, retVal, txMsg, got, gaveUp>> PROVE MatchInv'
  <2>1. NumberInv' /\ VerdictInv' /\ (Taken <=> Taken')
    BY <1>b DEF MatchInv, NumberInv, VerdictInv, Distinct, Verdict, Taken, Silent
  <2> QED
    BY <1>a, <1>b, <2>1
<1>c. ASSUME Silent, pc \notin SentPcs \cup {"send", "done"}, pc' \notin SentPcs \cup {"send"},
             UNCHANGED gaveUp
      PROVE  MatchInv'
  <2>1. NumberInv' /\ VerdictInv' /\ ~Taken
    BY <1>c DEF NumberInv, VerdictInv, Taken, SentPcs, WaitingPcs
  <2> QED
    BY <1>a, <1>c, <2>1
<1>1. ASSUME NEW c \in Callers, Call(c) PROVE MatchInv'
  BY <1>1, <1>b DEF Call, Silent
<1>2. ASSUME NEW c \in Callers, CmdLock(c) PROVE MatchInv'
  <2>1. pc = "none"
    BY <1>2 DEF CmdLock, IInv, LockInv
  <2>2. pc' = "send" /\ txMsg'.seq = cmdSeqNum % SeqMod /\ txMsg'.id \in MsgIds /\ Silent
        /\ UNCHANGED <<gaveUp, cmdSeqNum>>
    BY <1>2 DEF CmdLock, Silent
  <2>3. cmdSeqNum % SeqMod = cmdSeqNum
    BY <1>0, Numbers, ModSmall
  <2>4. NumberInv' /\ VerdictInv' /\ ~Taken
    BY <2>1, <2>2, <2>3 DEF NumberInv, VerdictInv, Taken, SentPcs, WaitingPcs
  <2> QED
    BY <1>a, <2>2, <2>4
<1>3. ASSUME NEW c \in Callers, CmdBad(c) PROVE MatchInv'
  <2>1. pc = "none" /\ pc' = "leaked" /\ Silent /\ UNCHANGED gaveUp
    BY <1>3 DEF CmdBad, IInv, LockInv, Silent
  <2> QED
    BY <1>c, <2>1 DEF SentPcs, WaitingPcs
<1>4. CASE CmdSend
  BY <1>0, <1>4, SendMatch
<1>5. CASE CmdUnsent
  <2>1. pc' = "done" /\ gaveUp' = TRUE /\ Silent
    BY <1>5 DEF CmdUnsent, Silent
  <2>2. NumberInv' /\ VerdictInv'
    BY <2>1 DEF NumberInv, VerdictInv, SentPcs, WaitingPcs
  <2> QED
    BY <1>a, <2>1, <2>2
<1>6. CASE CmdPoll \/ CmdSemTaken
  <2>1. /\ pc \in {"wait", "sem"} /\ pc' \in {"wait", "read", "sem"} /\ Silent
        /\ UNCHANGED <<gaveUp, txMsg>>
    BY <1>6 DEF CmdPoll, CmdSemTaken, Silent
  <2>2. NumberInv' /\ VerdictInv' /\ Taken'
    BY <2>1 DEF MatchInv, NumberInv, VerdictInv, Taken, SentPcs, WaitingPcs, Silent
  <2> QED
    BY <1>a, <2>1, <2>2
<1>7. CASE CmdTimeout
  <2>1. /\ pc = "sem" /\ pc' = "spawn" /\ retVal' = "RESP_TIMEOUT" /\ Silent
        /\ UNCHANGED <<gaveUp, txMsg>>
    BY <1>7 DEF CmdTimeout, Silent
  <2>2. NumberInv' /\ VerdictInv' /\ Taken'
    BY <2>1 DEF MatchInv, NumberInv, VerdictInv, Taken, SentPcs, WaitingPcs, Silent
  <2> QED
    BY <1>a, <2>1, <2>2
<1>8. CASE CmdRead \/ ReaderRead
  BY <1>0, <1>8, ReadMatch
<1>9. CASE CmdReply
  <2>1. /\ pc = "reply" /\ pc' \in {"spawn", "wait"} /\ retVal' = Verdict /\ Silent
        /\ UNCHANGED <<gaveUp, txMsg>>
        /\ pc' = "spawn" /\ Verdict = "OK" => got.ret = "OK" /\ got.class \in {"RSP", "NACK"}
    BY <1>9 DEF CmdReply, Silent
  <2>2. NumberInv' /\ Taken'
    BY <2>1 DEF MatchInv, NumberInv, Taken, SentPcs, WaitingPcs, Silent
  <2>3. Verdict = "OK" /\ got.ret = "OK" => got.class # "NACK"
    BY DEF Verdict
  <2>4. VerdictInv'
    BY <2>1, <2>3 DEF MatchInv, VerdictInv, Distinct, Silent
  <2> QED
    BY <1>a, <2>1, <2>2, <2>4
<1>10. CASE CmdSpawn \/ CmdMoreChunks \/ CmdChunks
  <2>1. /\ pc \in {"spawn", "result", "chunks"} /\ pc' \in {"result", "chunks"} /\ Silent
        /\ UNCHANGED <<gaveUp, txMsg>> /\ (pc' = "result" /\ retVal' = "OK" => pc = "spawn" /\ retVal = "OK")
    BY <1>10 DEF CmdSpawn, CmdMoreChunks, CmdChunks, Silent
  <2>2. NumberInv' /\ VerdictInv' /\ Taken'
    BY <2>1 DEF MatchInv, NumberInv, VerdictInv, Distinct, Taken, SentPcs, WaitingPcs, Silent
  <2> QED
    BY <1>a, <2>1, <2>2
<1>11. ASSUME NEW outcome \in Outcomes, CmdResult(outcome) PROVE MatchInv'
  BY <1>0, <1>11, ResultMatch
<1>12. ASSUME NEW c \in Callers, CmdReturn(c) PROVE MatchInv'
  <2>1. pc = "done" /\ pc' = "none" /\ Silent /\ (gaveUp => gaveUp')
        /\ (retVal \in NoResponse => gaveUp')
    BY <1>12 DEF CmdReturn, Silent
  <2>2. NumberInv' /\ VerdictInv' /\ (Taken => gaveUp')
    BY <2>1 DEF NumberInv, VerdictInv, Taken, SentPcs, WaitingPcs
  <2> QED
    BY <1>a, <2>1, <2>2
<1>13. CASE ReaderLock
  <2>1. pc = "none" /\ pc' \in {"none", "rdRead"} /\ Silent /\ UNCHANGED gaveUp
    BY <1>13 DEF ReaderLock, IInv, LockInv, Silent
  <2> QED
    BY <1>c, <2>1 DEF SentPcs, WaitingPcs
<1>14. CASE ReaderProc
  <2>1. pc = "rdProc" /\ pc' = "none" /\ Silent /\ UNCHANGED gaveUp
    BY <1>14 DEF ReaderProc, Silent
  <2> QED
    BY <1>c, <2>1 DEF SentPcs, WaitingPcs
<1>15. CASE Irq
  BY <1>15, <1>b DEF Irq, IrqPoll, IrqCount, IrqSignal, Silent
<1>16. CASE DevAnswer \/ DevEvent
  BY <1>0, <1>16, DeviceMatch
<1> QED
  BY <1>1, <1>2, <1>3, <1>4, <1>5, <1>6, <1>7, <1>8, <1>9, <1>10, <1>11, <1>12, <1>13, <1>14,
     <1>15, <1>16
  DEF Next, Command, Reader

(***************************************************************************)
(* How old a message under way can be.                                     *)
(***************************************************************************)
\* Each number given out ages what is under way, unless it is its own.
LEMMA AgeStep ==
  ASSUME TypeOK, NEW seq \in 0..(SeqMod - 1)
  PROVE  /\ Age(seq, cmdSeqNum) \in 0..(SeqMod - 1)
         /\ seq = cmdSeqNum => Age(seq, cmdSeqNum) = 0
         /\ LET next == (cmdSeqNum + 1) % SeqMod IN
            IF seq = next THEN Age(seq, cmdSeqNum) = SeqMod - 1
                          ELSE Age(seq, next) = Age(seq, cmdSeqNum) + 1
<1>1. SeqMod \in Nat \ {0} /\ cmdSeqNum \in 0..(SeqMod - 1)
  BY Numbers
<1> QED
  BY <1>1, NextNumber DEF Age

LEMMA MissingIs ==
  ASSUME TypeOK, TypeOK'
  PROVE  /\ Missing \in Nat /\ Missing' \in Nat
         /\ Missing = faults + 1 \/ (pc \in SentPcs /\ Missing = faults)
         /\ Missing' = faults' + 1 \/ (pc' \in SentPcs /\ Missing' = faults')
         /\ pc \in SentPcs => Missing = faults
         /\ pc' \in SentPcs => Missing' = faults'
<1>1. faults \in Nat /\ faults' \in Nat /\ SentPcs' = SentPcs
  BY DEF TypeOK, SentPcs, WaitingPcs
<1>2. /\ pc \in SentPcs => Missing = faults
      /\ pc \notin SentPcs => Missing = faults + 1
  BY Zenon DEF Missing
<1>3. /\ pc' \in SentPcs => Missing' = faults'
      /\ pc' \notin SentPcs => Missing' = faults' + 1
  BY <1>1, Zenon DEF Missing
<1> QED
  BY <1>1, <1>2, <1>3

\* What AgeInv says of the messages, in numbers.
LEMMA Ages ==
  ASSUME TypeOK, AgeInv, Distinct
  PROVE  /\ \A i \in 1..Len(toDevice) :
               /\ Age(toDevice[i].seq, cmdSeqNum) \in Nat
               /\ Age(toDevice[i].seq, cmdSeqNum) <= Len(toDevice) - i + Missing
         /\ \A i \in 1..Len(toHost) :
               toHost[i].class # "ASYNC" =>
                   /\ Age(toHost[i].seq, cmdSeqNum) \in Nat
                   /\ Age(toHost[i].seq, cmdSeqNum) <= Len(toHost) - i + Len(toDevice) + Missing
<1>1. \A seq \in 0..(SeqMod - 1) : Age(seq, cmdSeqNum) \in Nat
  BY Numbers, AgeStep
<1> QED
  BY <1>1, Numbers DEF AgeInv

\* Steps that keep the queues and the number, and lose nothing of the count.
LEMMA StillAge ==
  ASSUME TypeOK, TypeOK', AgeInv, UNCHANGED <<toDevice, toHost, cmdSeqNum>>, Distinct' => Distinct,
         Missing <= Missing'
  PROVE  AgeInv'
<1>1. Missing \in Nat /\ Missing' \in Nat
  BY MissingIs
<1>2. Len(toDevice) \in Nat /\ Len(toHost) \in Nat
  BY Numbers
<1> SUFFICES ASSUME Distinct' PROVE AgeInv'
  BY DEF AgeInv
<1> QED
  BY <1>1, <1>2, Ages, SMTT(30) DEF AgeInv

\* A command is written, or the write fails.
LEMMA SendAge ==
  ASSUME TypeOK, TypeOK', NumberInv, AgeInv, CmdSend
  PROVE  AgeInv'
<1> SUFFICES ASSUME Distinct' PROVE AgeInv'
  BY DEF AgeInv
<1>1. /\ pc = "send" /\ pc' \in {"wait", "unsent"} /\ toHost' = toHost
      /\ UNCHANGED <<cmdSeqNum, txMsg, gaveUp, lapped>>
      /\ \/ toDevice' = Append(toDevice, txMsg) /\ faults' = faults
         \/ toDevice' = toDevice /\ faults' = faults + 1
  BY DEF CmdSend, history
<1>2. Distinct /\ Len(toDevice) \in Nat /\ Len(toHost) \in Nat
  BY <1>1, Numbers DEF Distinct
<1>3. Missing = faults + 1 /\ Missing' = faults' /\ faults \in Nat
  BY <1>1, Numbers, MissingIs DEF SentPcs, WaitingPcs
<1>4. CASE toDevice' = toDevice
  BY <1>1, <1>2, <1>3, <1>4, Ages DEF AgeInv
<1>5. CASE toDevice' # toDevice
  <2>1. /\ Len(toDevice') = Len(toDevice) + 1 /\ toDevice'[Len(toDevice) + 1] = txMsg
        /\ \A i \in 1..Len(toDevice) : toDevice'[i] = toDevice[i]
    <3>1. toDevice \in Seq(DevMsgs) /\ txMsg \in DevMsgs /\ toDevice' = Append(toDevice, txMsg)
      BY <1>1, <1>5 DEF TypeOK
    <3> QED
      BY <3>1, Pushed
  <2>2. Age(txMsg.seq, cmdSeqNum) = 0
    BY <1>1, Numbers, AgeStep DEF NumberInv
  <2>3. ASSUME NEW i \in 1..Len(toDevice')
        PROVE  Age(toDevice'[i].seq, cmdSeqNum) <= Len(toDevice') - i + Missing'
    <3>1. CASE i = Len(toDevice) + 1
      BY <1>1, <1>2, <1>3, <1>5, <2>1, <2>2, <3>1
    <3>2. CASE i # Len(toDevice) + 1
      <4>1. i \in 1..Len(toDevice) /\ toDevice'[i] = toDevice[i]
        BY <1>2, <2>1, <3>2
      <4> QED
        BY <1>1, <1>2, <1>3, <1>5, <2>1, <4>1, Ages
    <3> QED
      BY <3>1, <3>2
  <2>4. ASSUME NEW i \in 1..Len(toHost), toHost[i].class # "ASYNC"
        PROVE  Age(toHost[i].seq, cmdSeqNum) <= Len(toHost) - i + Len(toDevice') + Missing'
    BY <1>1, <1>2, <1>3, <1>5, <2>1, <2>4, Ages, SMTT(30)
  <2> QED
    BY <1>1, <2>3, <2>4 DEF AgeInv
<1> QED
  BY <1>4, <1>5

\* A message is read: those behind it move up, or it stays with the device.
LEMMA ReadAge ==
  ASSUME TypeOK, TypeOK', AgeInv, CmdRead \/ ReaderRead
  PROVE  AgeInv'
<1> SUFFICES ASSUME Distinct' PROVE AgeInv'
  BY DEF AgeInv
<1>1. /\ (pc = "read" /\ pc' = "reply") \/ (pc = "rdRead" /\ pc' = "rdProc")
      /\ UNCHANGED <<cmdSeqNum, toDevice, gaveUp, lapped>>
      /\ faults' \in {faults, faults + 1}
      /\ toHost' = toHost \/ (toHost # <<>> /\ toHost' = Tail(toHost))
  BY DEF CmdRead, ReaderRead, MsgRead
<1>2. Distinct /\ Len(toDevice) \in Nat /\ Len(toHost) \in Nat /\ faults \in Nat
  BY <1>1, Numbers DEF Distinct
<1>3. Missing \in Nat /\ Missing' \in Nat /\ Missing <= Missing'
  BY <1>1, <1>2, MissingIs DEF SentPcs, WaitingPcs
<1>4. CASE toHost' = toHost
  BY <1>1, <1>2, <1>3, <1>4, Ages, SMTT(30) DEF AgeInv
<1>5. CASE toHost' # toHost
  <2>1. /\ Len(toHost') = Len(toHost) - 1
        /\ \A i \in 1..Len(toHost') : toHost'[i] = toHost[i + 1] /\ i + 1 \in 1..Len(toHost)
    <3>1. toHost \in Seq(HostMsgs) /\ toHost # <<>> /\ toHost' = Tail(toHost)
      BY <1>1, <1>5 DEF TypeOK
    <3> QED
      BY <3>1, Popped
  <2>2. ASSUME NEW i \in 1..Len(toHost'), toHost'[i].class # "ASYNC"
        PROVE  Age(toHost'[i].seq, cmdSeqNum) <= Len(toHost') - i + Len(toDevice) + Missing'
    <3>1. toHost'[i] = toHost[i + 1] /\ i + 1 \in 1..Len(toHost)
      BY <2>1
    <3>2. /\ Age(toHost'[i].seq, cmdSeqNum) \in Nat
          /\ Age(toHost'[i].seq, cmdSeqNum) <= Len(toHost) - (i + 1) + Len(toDevice) + Missing
      BY <1>2, <2>2, <3>1, Ages
    <3> QED
      BY <1>2, <1>3, <2>1, <3>2
  <2> QED
    BY <1>1, <1>2, <1>3, <2>2, Ages DEF AgeInv
<1> QED
  BY <1>4, <1>5

\* An attempt ends: with a response, a number is given out.
LEMMA ResultAge ==
  ASSUME TypeOK, TypeOK', AgeInv, NEW outcome \in Outcomes, CmdResult(outcome)
  PROVE  AgeInv'
<1> SUFFICES ASSUME Distinct' PROVE AgeInv'
  BY DEF AgeInv
<1>1. /\ pc = "result" /\ pc' \in {"send", "done"} /\ UNCHANGED <<toDevice, toHost, gaveUp, faults>>
      /\ \/ UNCHANGED <<cmdSeqNum, lapped>>
         \/ cmdSeqNum' = (cmdSeqNum + 1) % SeqMod /\ lapped' = (lapped \/ UnderWay(cmdSeqNum'))
  BY DEF CmdResult, spi
<1>2. Distinct /\ Len(toDevice) \in Nat /\ Len(toHost) \in Nat /\ faults \in Nat
  <2>1. lapped => lapped'
    BY <1>1
  <2>2. Distinct
    BY <1>1, <2>1 DEF Distinct
  <2> QED
    BY <2>2, Numbers
<1>3. Missing \in Nat /\ Missing' = Missing + 1
  BY <1>1, <1>2, MissingIs DEF SentPcs, WaitingPcs
<1>4. CASE UNCHANGED cmdSeqNum
  BY <1>1, <1>2, <1>3, <1>4, Ages DEF AgeInv
<1>5. CASE ~UNCHANGED cmdSeqNum
  <2>1. ~UnderWay(cmdSeqNum') /\ cmdSeqNum' = (cmdSeqNum + 1) % SeqMod
    BY <1>1, <1>5 DEF Distinct
  <2>2. \A seq \in 0..(SeqMod - 1) :
           seq # cmdSeqNum' => Age(seq, cmdSeqNum') = Age(seq, cmdSeqNum) + 1
    BY <2>1, AgeStep
  <2>3. ASSUME NEW i \in 1..Len(toDevice)
        PROVE  Age(toDevice[i].seq, cmdSeqNum') <= Len(toDevice) - i + Missing'
    <3>1. toDevice[i].seq # cmdSeqNum' /\ toDevice[i].seq \in 0..(SeqMod - 1)
      BY <2>1, Numbers DEF UnderWay
    <3> QED
      BY <1>2, <1>3, <2>2, <3>1, Ages
  <2>4. ASSUME NEW i \in 1..Len(toHost), toHost[i].class # "ASYNC"
        PROVE  Age(toHost[i].seq, cmdSeqNum') <= Len(toHost) - i + Len(toDevice) + Missing'
    <3>1. toHost[i].seq # cmdSeqNum' /\ toHost[i].seq \in 0..(SeqMod - 1)
      BY <2>1, <2>4, Numbers DEF UnderWay
    <3> QED
      BY <1>2, <1>3, <2>2, <2>4, <3>1, Ages
  <2> QED
    BY <1>1, <2>3, <2>4 DEF AgeInv
<1> QED
  BY <1>4, <1>5

\* The device takes a command and answers it, or sends an event.
LEMMA DeviceAge ==
  ASSUME TypeOK, TypeOK', AgeInv, DevAnswer \/ DevEvent
  PROVE  AgeInv'
<1> SUFFICES ASSUME Distinct' PROVE AgeInv'
  BY DEF AgeInv
<1>1. UNCHANGED <<pc, cmdSeqNum, gaveUp, lapped>>
  BY DEF DevAnswer, DevEvent, driver, holder, history
<1>2. Distinct /\ Len(toDevice) \in Nat /\ Len(toHost) \in Nat /\ faults \in Nat
  BY <1>1, Numbers DEF Distinct
<1>3. /\ Missing \in Nat /\ Missing' \in Nat /\ Missing <= Missing'
      /\ faults' = faults + 1 => Missing' = Missing + 1
  <2>1. faults' \in {faults, faults + 1}
    BY DevAnswerEffect DEF DevEvent
  <2>2. pc' \in SentPcs <=> pc \in SentPcs
    BY <1>1
  <2>3. CASE pc \in SentPcs
    BY <1>2, <2>1, <2>2, <2>3, MissingIs
  <2>4. CASE pc \notin SentPcs
    BY <1>2, <2>1, <2>2, <2>4, MissingIs
  <2> QED
    BY <2>3, <2>4
<1>4. CASE DevAnswer
  <2>1. ASSUME NEW i \in 1..Len(toDevice')
        PROVE  Age(toDevice'[i].seq, cmdSeqNum) <= Len(toDevice') - i + Missing'
    <3>1. /\ toDevice'[i] = toDevice[i + 1] /\ i + 1 \in 1..Len(toDevice)
          /\ Len(toDevice') = Len(toDevice) - 1
      BY <1>4, <2>1, DevAnswerEffect
    <3>2. /\ Age(toDevice'[i].seq, cmdSeqNum) \in Nat
          /\ Age(toDevice'[i].seq, cmdSeqNum) <= Len(toDevice) - (i + 1) + Missing
      BY <1>2, <3>1, Ages
    <3> QED
      BY <1>2, <1>3, <2>1, <3>1, <3>2, SMTT(30)
  <2>2. ASSUME NEW i \in 1..Len(toHost'), toHost'[i].class # "ASYNC"
        PROVE  Age(toHost'[i].seq, cmdSeqNum) <= Len(toHost') - i + Len(toDevice') + Missing'
    <3>1. CASE toHost' = toHost /\ faults' = faults + 1
      BY <1>2, <1>3, <1>4, <2>2, <3>1, DevAnswerEffect, Ages
    <3>2. CASE Len(toHost') = Len(toHost) + 1
      <4>1. Len(toDevice') = Len(toDevice) - 1 /\ 1 \in 1..Len(toDevice)
        BY <1>2, <1>4, DevAnswerEffect
      <4>4. toHost' # toHost
        BY <1>2, <3>2
      <4>5. /\ \A j \in 1..Len(toHost) : toHost'[j] = toHost[j]
            /\ toHost'[Len(toHost) + 1].seq = toDevice[1].seq
        BY <1>4, <4>4, DevAnswerEffect DEF Answers
      <4>2. CASE i = Len(toHost) + 1
        <5>1. /\ Age(toHost'[i].seq, cmdSeqNum) \in Nat
              /\ Age(toHost'[i].seq, cmdSeqNum) <= Len(toDevice) - 1 + Missing
          BY <1>2, <4>1, <4>2, <4>5, Ages
        <5> QED
          BY <1>2, <1>3, <3>2, <4>1, <4>2, <5>1
      <4>3. CASE i # Len(toHost) + 1
        <5>1. i \in 1..Len(toHost) /\ toHost'[i] = toHost[i]
          BY <1>2, <2>2, <3>2, <4>3, <4>5
        <5>2. /\ Age(toHost'[i].seq, cmdSeqNum) \in Nat
              /\ Age(toHost'[i].seq, cmdSeqNum) <= Len(toHost) - i + Len(toDevice) + Missing
          BY <1>2, <2>2, <5>1, Ages
        <5> QED
          BY <1>2, <1>3, <2>2, <3>2, <4>1, <5>1, <5>2
      <4> QED
        BY <4>2, <4>3
    <3> QED
      BY <1>2, <1>4, <3>1, <3>2, DevAnswerEffect
  <2> QED
    BY <1>1, <2>1, <2>2 DEF AgeInv
<1>5. CASE DevEvent
  <2>1. /\ toDevice' = toDevice /\ faults' = faults /\ Len(toHost') = Len(toHost) + 1
        /\ toHost'[Len(toHost) + 1].class = "ASYNC"
        /\ \A i \in 1..Len(toHost) : toHost'[i] = toHost[i]
    <3>1. [class |-> "ASYNC", id |-> "none", seq |-> 0, n |-> events'] \in HostMsgs
      BY <1>5, LinkAssumption DEF DevEvent, TypeOK, HostMsgs
    <3> QED
      BY <1>5, <3>1, Pushed DEF DevEvent, TypeOK
  <2>2. ASSUME NEW i \in 1..Len(toHost'), toHost'[i].class # "ASYNC"
        PROVE  Age(toHost'[i].seq, cmdSeqNum) <= Len(toHost') - i + Len(toDevice) + Missing'
    <3>1. i \in 1..Len(toHost) /\ toHost'[i] = toHost[i]
      BY <1>2, <2>1, <2>2
    <3>2. /\ Age(toHost'[i].seq, cmdSeqNum) \in Nat
          /\ Age(toHost'[i].seq, cmdSeqNum) <= Len(toHost) - i + Len(toDevice) + Missing
      BY <1>2, <2>2, <3>1, Ages
    <3> QED
      BY <1>2, <1>3, <2>1, <3>1, <3>2
  <2>3. ASSUME NEW i \in 1..Len(toDevice)
        PROVE  Age(toDevice[i].seq, cmdSeqNum) <= Len(toDevice) - i + Missing'
    BY <1>2, <1>3, <2>1, Ages
  <2> QED
    BY <1>1, <2>1, <2>2, <2>3 DEF AgeInv
<1> QED
  BY <1>4, <1>5

LEMMA AgeNext ==
  ASSUME IInv, TypeOK', MatchInv, AgeInv, Next
  PROVE  AgeInv'
<1>0. TypeOK /\ NumberInv /\ faults \in Nat
  BY Numbers DEF IInv, MatchInv
<1> USE DEF driver, holder, port, spi, history
<1>a. ASSUME UNCHANGED <<toDevice, toHost, cmdSeqNum, faults, lapped>>, gaveUp => gaveUp',
             pc' \in SentPcs => pc \in SentPcs
      PROVE  AgeInv'
  <2>1. Missing <= Missing'
    BY <1>0, <1>a, MissingIs
  <2>2. Distinct' => Distinct
    BY <1>a DEF Distinct
  <2> QED
    BY <1>0, <1>a, <2>1, <2>2, StillAge
<1>1. ASSUME NEW c \in Callers, Call(c) \/ CmdLock(c) \/ CmdBad(c) \/ CmdReturn(c) PROVE AgeInv'
  BY <1>1, <1>a DEF Call, CmdLock, CmdBad, CmdReturn, SentPcs, WaitingPcs
<1>2. CASE CmdSend
  BY <1>0, <1>2, SendAge
<1>9. CASE CmdUnsent
  BY <1>9, <1>a DEF CmdUnsent, SentPcs, WaitingPcs
<1>3. CASE \/ CmdPoll \/ CmdSemTaken \/ CmdTimeout \/ CmdReply \/ CmdSpawn
          \/ CmdMoreChunks \/ CmdChunks
  <2>1. UNCHANGED <<toDevice, toHost, cmdSeqNum, faults, lapped, gaveUp>>
    BY <1>3 DEF CmdPoll, CmdSemTaken, CmdTimeout, CmdReply, CmdSpawn, CmdMoreChunks, CmdChunks
  <2>2. pc \in SentPcs
    BY <1>3 DEF CmdPoll, CmdSemTaken, CmdTimeout, CmdReply, CmdSpawn, CmdMoreChunks, CmdChunks,
      SentPcs, WaitingPcs
  <2> QED
    BY <1>a, <2>1, <2>2
<1>4. CASE CmdRead \/ ReaderRead
  BY <1>0, <1>4, ReadAge
<1>5. ASSUME NEW outcome \in Outcomes, CmdResult(outcome) PROVE AgeInv'
  BY <1>0, <1>5, ResultAge
<1>6. CASE ReaderLock \/ ReaderProc
  BY <1>6, <1>a DEF ReaderLock, ReaderProc, SentPcs, WaitingPcs
<1>7. CASE Irq
  BY <1>7, <1>a DEF Irq, IrqPoll, IrqCount, IrqSignal
<1>8. CASE DevAnswer \/ DevEvent
  BY <1>0, <1>8, DeviceAge
<1> QED
  BY <1>1, <1>2, <1>3, <1>4, <1>5, <1>6, <1>7, <1>8, <1>9 DEF Next, Command, Reader

LEMMA InitMatch == Init => MatchInv /\ AgeInv
<1> SUFFICES ASSUME Init PROVE MatchInv /\ AgeInv
  OBVIOUS
<1>1. Len(toDevice) = 0 /\ Len(toHost) = 0 /\ pc = "none" /\ confirmed = {}
  BY DEF Init
<1> QED
  BY <1>1 DEF MatchInv, NumberInv, OwnInv, ExecInv, VerdictInv, ConfirmedExecuted, AgeInv, SentPcs,
    WaitingPcs

LEMMA NextMatch ==
  ASSUME IInv, IInv', MatchInv, AgeInv, [Next]_vars
  PROVE  MatchInv' /\ AgeInv'
<1>1. CASE Next
  BY <1>1, MatchStep, AgeNext DEF IInv
<1>2. CASE UNCHANGED vars
  <2>1. /\ UNCHANGED <<toDevice, toHost, cmdSeqNum, txMsg, got, pc, retVal>>
        /\ UNCHANGED <<executed, confirmed, gaveUp, lapped, faults>>
    BY <1>2 DEF vars, driver, holder, spi, history
  <2>2. MatchInv'
    BY <2>1 DEF MatchInv, NumberInv, OwnInv, ExecInv, VerdictInv, ConfirmedExecuted, Distinct, Taken,
      Verdict
  <2>3. AgeInv'
    BY <2>1 DEF AgeInv, Distinct, Missing
  <2> QED
    BY <2>2, <2>3
<1> QED
  BY <1>1, <1>2

LEMMA Matched == Spec => []IInv /\ [](MatchInv /\ AgeInv)
<1>1. IInv /\ IInv' /\ MatchInv /\ AgeInv /\ [Next]_vars => MatchInv' /\ AgeInv'
  BY NextMatch
<1> QED
  BY <1>1, InitMatch, Invariance, PTL DEF Spec

\* A number that comes round to a message under way finds the queues crowded.
LEMMA LapStep ==
  ASSUME IInv, AgeInv, [Next]_vars
  PROVE  [lapped' => lapped \/ gaveUp \/ Crowded]_vars
<1> SUFFICES ASSUME lapped', ~lapped, ~gaveUp, ~UNCHANGED vars PROVE Crowded
  OBVIOUS
<1>1. PICK outcome \in Outcomes : CmdResult(outcome)
  BY DEF Next, Command, Reader, Irq, Call, CmdLock, CmdBad, CmdSend, CmdUnsent, CmdPoll, CmdSemTaken,
    CmdTimeout, CmdRead, CmdReply, CmdSpawn, CmdMoreChunks, CmdChunks, CmdReturn, ReaderLock, ReaderRead, ReaderProc, MsgRead,
    IrqPoll, IrqCount, IrqSignal, DevAnswer, DevEvent, history
<1>2. pc = "result" /\ cmdSeqNum' = (cmdSeqNum + 1) % SeqMod /\ UnderWay(cmdSeqNum')
  BY <1>1 DEF CmdResult
<1>3. TypeOK /\ Distinct /\ faults \in Nat /\ SeqMod \in Nat
      /\ Len(toDevice) \in Nat /\ Len(toHost) \in Nat
  BY Numbers DEF IInv, Distinct
<1>4. Missing = faults
  BY <1>2, Zenon DEF Missing, SentPcs
<1>5. \A seq \in 0..(SeqMod - 1) : seq = cmdSeqNum' => Age(seq, cmdSeqNum) = SeqMod - 1
  BY <1>2, <1>3, AgeStep
<1>6. ASSUME NEW i \in 1..Len(toDevice), toDevice[i].seq = cmdSeqNum'
      PROVE  Crowded
  <2>1. Age(toDevice[i].seq, cmdSeqNum) = SeqMod - 1
    BY <1>3, <1>5, <1>6, Numbers
  <2>2. Age(toDevice[i].seq, cmdSeqNum) <= Len(toDevice) - i + faults
    BY <1>3, <1>4, Ages
  <2> QED
    BY <1>3, <1>6, <2>1, <2>2 DEF Crowded
<1>7. ASSUME NEW i \in 1..Len(toHost), toHost[i].class # "ASYNC", toHost[i].seq = cmdSeqNum'
      PROVE  Crowded
  <2>1. Age(toHost[i].seq, cmdSeqNum) = SeqMod - 1
    BY <1>3, <1>5, <1>7, Numbers
  <2>2. Age(toHost[i].seq, cmdSeqNum) <= Len(toHost) - i + Len(toDevice) + faults
    BY <1>3, <1>4, <1>7, Ages
  <2> QED
    BY <1>3, <1>7, <2>1, <2>2 DEF Crowded
<1> QED
  BY <1>2, <1>6, <1>7 DEF UnderWay

\* A response taken for a command's own says that the device has executed it,
\* as long as no command has ended without a response and no number came round
\* to a message under way.
THEOREM ConfirmedMeansExecuted == Spec => []ConfirmedExecuted
<1>1. MatchInv => ConfirmedExecuted
  BY DEF MatchInv
<1> QED
  BY <1>1, Matched, PTL

\* The second condition fails only when SeqMod messages, all those under way and
\* those lost by faults, have gathered.
THEOREM LapsOnlyCrowded == Spec => LapsWhenCrowded
<1>1. IInv /\ AgeInv /\ [Next]_vars => [lapped' => lapped \/ gaveUp \/ Crowded]_vars
  BY LapStep
<1> QED
  BY <1>1, Matched, PTL DEF Spec, LapsWhenCrowded
=============================================================================
