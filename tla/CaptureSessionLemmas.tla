------------------------- MODULE CaptureSessionLemmas -------------------------
(***************************************************************************)
(* What the steps of CaptureSession do to the requests and replies under   *)
(* way, and the parts of its invariant that hold whatever the faults: the  *)
(* types, the worker's sockets, the order of the requests, and that a      *)
(* session without a fault is in step with the FPGA.                       *)
(***************************************************************************)
EXTENDS CaptureSession, SequenceTheorems, TLAPS

\* The steps of a worker and the one that follows each.
LEMMA Table ==
  /\ After["starting"] = "bind" /\ After["bind"] = "resetRadar"
  /\ After["resetRadar"] = "resetFpga" /\ After["resetFpga"] = "sleep"
  /\ After["sleep"] = "openRadar" /\ After["openRadar"] = "alive"
  /\ After["alive"] = "version" /\ After["version"] = "configFpga"
  /\ After["configFpga"] = "configRecord" /\ After["configRecord"] = "configured"
  /\ After["configured"] = "recordStart" /\ After["recordStart"] = "threadStart"
  /\ After["threadStart"] = "sensorStart" /\ After["sensorStart"] = "streaming"
  /\ After["streaming"] = "poll" /\ After["poll"] = "get"
  /\ After["get"] = "send" /\ After["send"] = "poll"
  /\ After["stopSensor"] = "threadStop" /\ After["threadStop"] = "recordStop"
  /\ After["recordStop"] = "close" /\ After["close"] = "dead"
  /\ Cleanup = {"stopSensor", "threadStop", "recordStop", "close"}
  /\ Steps = {"starting", "bind", "resetRadar", "resetFpga", "sleep",
              "openRadar", "alive", "version", "configFpga", "configRecord",
              "configured", "recordStart", "threadStart", "sensorStart",
              "streaming", "poll", "get", "send", "stopSensor", "threadStop",
              "recordStop", "close"}
  BY DEF After, Steps, Cleanup, AfterReset, AfterOpening, AfterConfigure, AfterCleanup

\* The steps that send a command to the FPGA, and their commands.
LEMMA Commands ==
  /\ DOMAIN CmdOf = {"resetRadar", "resetFpga", "alive", "version", "configFpga",
                     "configRecord", "recordStart", "recordStop"}
  /\ CmdOf["resetRadar"] = "RESET_AR_DEV" /\ CmdOf["resetFpga"] = "RESET_FPGA"
  /\ CmdOf["alive"] = "SYSTEM_CONNECT" /\ CmdOf["version"] = "READ_FPGA_VERSION"
  /\ CmdOf["configFpga"] = "CONFIG_FPGA_GEN"
  /\ CmdOf["configRecord"] = "CONFIG_PACKET_DATA"
  /\ CmdOf["recordStart"] = "RECORD_START" /\ CmdOf["recordStop"] = "RECORD_STOP"
  /\ \A p \in DOMAIN CmdOf : CmdOf[p] \in Cmds
  BY DEF CmdOf, Cmds

\* The numbers and the sequences of a state that has its types.
LEMMA Numbers ==
  ASSUME TypeOK
  PROVE  /\ mishaps \in Nat /\ session \in Nat /\ rec \in Nat
         /\ wire \in Seq(Requests) /\ back \in Seq(Replies) /\ inq \in Seq(Replies)
         /\ Len(wire) \in Nat /\ Len(back) \in Nat /\ Len(inq) \in Nat
         /\ (wire = <<>> <=> Len(wire) = 0)
         /\ (back = <<>> <=> Len(back) = 0)
         /\ (inq = <<>> <=> Len(inq) = 0)
<1>1. /\ mishaps \in Nat /\ session \in Nat /\ rec \in Nat
      /\ wire \in Seq(Requests) /\ back \in Seq(Replies) /\ inq \in Seq(Replies)
  BY BoundsAssumption DEF TypeOK, Sessions
<1> QED
  BY <1>1, LenProperties, EmptySeq

\* A sequence with an element appended.
LEMMA Pushed ==
  ASSUME NEW S, NEW s \in Seq(S), NEW x \in S
  PROVE  /\ Append(s, x) \in Seq(S)
         /\ Len(s) \in Nat /\ Len(Append(s, x)) = Len(s) + 1
         /\ Append(s, x)[Len(s) + 1] = x
         /\ \A i \in 1..Len(s) : Append(s, x)[i] = s[i]
  BY AppendProperties, LenProperties

\* A sequence without its head.
LEMMA Popped ==
  ASSUME NEW S, NEW s \in Seq(S), s # <<>>
  PROVE  /\ Head(s) \in S /\ Tail(s) \in Seq(S) /\ Head(s) = s[1]
         /\ Len(s) \in Nat \ {0} /\ Len(Tail(s)) = Len(s) - 1
         /\ \A i \in 1..Len(Tail(s)) : i + 1 \in 1..Len(s) /\ Tail(s)[i] = s[i + 1]
<1>1. Len(s) \in Nat \ {0}
  BY LenProperties, EmptySeq
<1>2. /\ Head(s) \in S /\ Tail(s) \in Seq(S) /\ Head(s) = s[1]
      /\ Len(Tail(s)) = Len(s) - 1
      /\ \A i \in 1..Len(Tail(s)) : Tail(s)[i] = s[i + 1]
  BY HeadTailProperties
<1> QED
  BY <1>1, <1>2

\* How a bound on what is outstanding passes to the next state.
LEMMA AtMostNext ==
  \A a \in Int : \A b, m, n \in Nat :
    a <= b /\ b <= m + 1 /\ m <= n => a <= n + 1
  OBVIOUS

\* _send_command: the request is the last one under way.
LEMMA SendEffect ==
  ASSUME TypeOK, session # 0, SendCommand(FALSE)
  PROVE  /\ pc \in DOMAIN CmdOf /\ ~waiting /\ waiting' = TRUE
         /\ wire' \in Seq(Requests) /\ Len(wire') = Len(wire) + 1
         /\ wire'[Len(wire) + 1].cmd = CmdOf[pc]
         /\ wire'[Len(wire) + 1].by = session
         /\ \A i \in 1..Len(wire) : wire'[i] = wire[i]
         /\ UNCHANGED <<session, pc, faults, mishaps, hostVars, dataVars, inq, back,
                        devVars, ctlVars, histVars, reported>>
<1>1. [cmd |-> CmdOf[pc], by |-> session] \in Requests
  BY Commands DEF SendCommand, Requests, TypeOK, Sessions
<1>2. wire' = Append(wire, [cmd |-> CmdOf[pc], by |-> session])
  BY DEF SendCommand
<1>3. wire \in Seq(Requests)
  BY DEF TypeOK
<1> QED
  BY <1>1, <1>2, <1>3, Pushed DEF SendCommand, NoFault

\* The FPGA takes the first request; its answer is the last reply under way.
LEMMA TakeEffect ==
  ASSUME TypeOK, NEW fate \in {"done", "refused", "lost"}, TakeRequest(fate)
  PROVE  /\ Len(wire) \in Nat \ {0} /\ Len(wire') = Len(wire) - 1
         /\ wire[1] \in Requests /\ wire' \in Seq(Requests) /\ back' \in Seq(Replies)
         /\ \A i \in 1..Len(wire') : i + 1 \in 1..Len(wire) /\ wire'[i] = wire[i + 1]
         /\ IF fate = "lost" THEN back' = back
            ELSE /\ Len(back') = Len(back) + 1
                 /\ \A i \in 1..Len(back) : back'[i] = back[i]
                 /\ back'[Len(back) + 1].cmd = wire[1].cmd
                 /\ back'[Len(back) + 1].ok = (fate = "done")
         /\ IF fate = "done"
            THEN /\ UNCHANGED <<faults, mishaps>>
                 /\ on' = (on /\ wire[1].cmd # "RESET_AR_DEV")
                 /\ rec' = IF wire[1].cmd = "RECORD_START" THEN wire[1].by
                           ELSE IF wire[1].cmd \in {"RECORD_STOP", "RESET_FPGA"} THEN 0
                           ELSE rec
                 /\ did' = IF wire[1].by = session THEN did \cup {wire[1].cmd} ELSE did
            ELSE Fault /\ UNCHANGED <<on, rec, did>>
         /\ UNCHANGED <<flowVars, hostVars, dataVars, inq, ctlVars, killed, bound,
                        unclean, reported>>
<1>1. /\ wire \in Seq(Requests) /\ back \in Seq(Replies) /\ wire # <<>>
      /\ wire' = Tail(wire)
  BY DEF TypeOK, TakeRequest
<1>2. /\ Len(wire) \in Nat \ {0} /\ Len(wire') = Len(wire) - 1
      /\ wire[1] \in Requests /\ wire' \in Seq(Requests) /\ Head(wire) = wire[1]
      /\ \A i \in 1..Len(wire') : i + 1 \in 1..Len(wire) /\ wire'[i] = wire[i + 1]
  BY <1>1, Popped
<1>3. ASSUME NEW ok \in BOOLEAN, Answer(wire[1].cmd, ok)
      PROVE  /\ Len(back') = Len(back) + 1 /\ back' \in Seq(Replies)
             /\ \A i \in 1..Len(back) : back'[i] = back[i]
             /\ back'[Len(back) + 1].cmd = wire[1].cmd
             /\ back'[Len(back) + 1].ok = ok
  <2>1. [cmd |-> wire[1].cmd, ok |-> ok] \in Replies
    BY <1>2 DEF Requests, Replies
  <2> QED
    BY <1>1, <1>3, <2>1, Pushed DEF Answer
<1>4. CASE fate = "done"
  <2>1. Answer(wire[1].cmd, TRUE)
    BY <1>2, <1>4 DEF TakeRequest
  <2>2. /\ UNCHANGED <<faults, mishaps>>
        /\ on' = (on /\ wire[1].cmd # "RESET_AR_DEV")
        /\ rec' = IF wire[1].cmd = "RECORD_START" THEN wire[1].by
                  ELSE IF wire[1].cmd \in {"RECORD_STOP", "RESET_FPGA"} THEN 0
                  ELSE rec
        /\ did' = IF wire[1].by = session THEN did \cup {wire[1].cmd} ELSE did
    BY <1>2, <1>4 DEF TakeRequest, NoFault
  <2> QED
    BY <1>2, <1>3, <1>4, <2>1, <2>2 DEF TakeRequest
<1>5. CASE fate = "refused"
  <2>1. Answer(wire[1].cmd, FALSE) /\ Fault /\ UNCHANGED <<on, rec, did>>
    BY <1>2, <1>5 DEF TakeRequest, devVars
  <2> QED
    BY <1>2, <1>3, <1>5, <2>1 DEF TakeRequest
<1>6. CASE fate = "lost"
  BY <1>1, <1>2, <1>6 DEF TakeRequest, devVars
<1> QED
  BY <1>4, <1>5, <1>6

\* The first reply under way becomes the last in the socket, or is lost.
LEMMA ArriveEffect ==
  ASSUME TypeOK, NEW lost \in BOOLEAN, ReplyArrives(lost)
  PROVE  /\ Len(back) \in Nat \ {0} /\ Len(back') = Len(back) - 1
         /\ back[1] \in Replies /\ back' \in Seq(Replies) /\ inq' \in Seq(Replies)
         /\ \A i \in 1..Len(back') : i + 1 \in 1..Len(back) /\ back'[i] = back[i + 1]
         /\ IF sock /\ ~lost
            THEN /\ Len(inq') = Len(inq) + 1 /\ inq'[Len(inq) + 1] = back[1]
                 /\ \A i \in 1..Len(inq) : inq'[i] = inq[i]
            ELSE inq' = inq
         /\ IF lost THEN Fault ELSE UNCHANGED <<faults, mishaps>>
         /\ UNCHANGED <<flowVars, hostVars, dataVars, wire, devVars, ctlVars,
                        histVars, reported>>
<1>1. /\ back \in Seq(Replies) /\ inq \in Seq(Replies) /\ back # <<>>
      /\ back' = Tail(back)
  BY DEF TypeOK, ReplyArrives
<1>2. /\ Len(back) \in Nat \ {0} /\ Len(back') = Len(back) - 1
      /\ back[1] \in Replies /\ back' \in Seq(Replies) /\ Head(back) = back[1]
      /\ \A i \in 1..Len(back') : i + 1 \in 1..Len(back) /\ back'[i] = back[i + 1]
  BY <1>1, Popped
<1>3. inq' = IF sock /\ ~lost THEN Append(inq, back[1]) ELSE inq
  BY <1>2 DEF ReplyArrives
<1>4. /\ inq' \in Seq(Replies)
      /\ IF sock /\ ~lost
         THEN /\ Len(inq') = Len(inq) + 1 /\ inq'[Len(inq) + 1] = back[1]
              /\ \A i \in 1..Len(inq) : inq'[i] = inq[i]
         ELSE inq' = inq
  BY <1>1, <1>2, <1>3, Pushed
<1> QED
  BY <1>2, <1>4 DEF ReplyArrives, NoFault

\* The worker takes the first reply in the socket.
LEMMA ReceiveEffect ==
  ASSUME TypeOK, ReceiveReply
  PROVE  /\ waiting /\ Len(inq) \in Nat \ {0} /\ Len(inq') = Len(inq) - 1
         /\ inq[1] \in Replies /\ inq' \in Seq(Replies)
         /\ \A i \in 1..Len(inq') : i + 1 \in 1..Len(inq) /\ inq'[i] = inq[i + 1]
         /\ reported' = IF inq[1].cmd = CmdOf[pc] /\ inq[1].ok
                        THEN reported \cup {CmdOf[pc]} ELSE reported
         /\ GoOn
         /\ UNCHANGED <<faults, mishaps, hostVars, dataVars, wire, back, devVars,
                        ctlVars, histVars>>
<1>1. inq \in Seq(Replies) /\ inq # <<>> /\ inq' = Tail(inq)
  BY DEF TypeOK, ReceiveReply
<1>2. /\ Len(inq) \in Nat \ {0} /\ Len(inq') = Len(inq) - 1 /\ Head(inq) = inq[1]
      /\ inq[1] \in Replies /\ inq' \in Seq(Replies)
      /\ \A i \in 1..Len(inq') : i + 1 \in 1..Len(inq) /\ inq'[i] = inq[i + 1]
  BY <1>1, Popped
<1>3. reported' = IF inq[1].cmd = CmdOf[pc] /\ inq[1].ok
                  THEN reported \cup {CmdOf[pc]} ELSE reported
  BY <1>2 DEF ReceiveReply, TakenFor
<1> QED
  BY <1>2, <1>3 DEF ReceiveReply, NoFault

\* The steps of the worker that send and read no datagram and keep its sockets.
LocalStep(raises) ==
  \/ Sleep \/ OpenRadar(raises) \/ ThreadStart(raises) \/ StartSensor(raises)
  \/ Poll \/ Get \/ Report \/ StopSensor(raises) \/ ThreadStop

\* What none of them changes, and where they lead.
LEMMA LocalEffect ==
  ASSUME TypeOK, SocketInv, NEW raises \in BOOLEAN, LocalStep(raises)
  PROVE  /\ UNCHANGED <<inq, back, wire, did, session, waiting>> /\ waiting = FALSE
         /\ UNCHANGED <<killed, bound, unclean, rec, kernel, sock>>
         /\ mishaps' \in Nat /\ mishaps <= mishaps'
         /\ pc = "starting" <=> pc' \in Down
         /\ pc \notin DOMAIN CmdOf \cup {"bind", "dead"} /\ pc' \notin {"close", "resetRadar"}
<1> USE DEF hostVars, dataVars, netVars, devVars, ctlVars, histVars, 
              flowVars, GoOn, Fault, NoFault, Raise
<1>1. /\ pc \in {"sleep", "openRadar", "threadStart", "sensorStart", "poll", "get",
                 "stopSensor", "threadStop"} \cup Reports
      /\ UNCHANGED <<inq, back, wire, did, session>>
      /\ UNCHANGED <<killed, bound, unclean, rec, kernel, sock>>
      /\ waiting' = FALSE \/ UNCHANGED waiting
      /\ mishaps' = mishaps \/ mishaps' = mishaps + 1
      /\ \/ pc' = After[pc]
         \/ pc' = IF pc \in Cleanup THEN After[pc] ELSE "stopSensor"
         \/ pc = "starting" /\ pc' = "dead"
      /\ pc = "starting" => pc' \in {After[pc], "dead"}
  <2>1. CASE Sleep \/ ThreadStop \/ Get
    BY <2>1 DEF Sleep, ThreadStop, Get
  <2>2. CASE OpenRadar(raises)
    BY <2>2 DEF OpenRadar
  <2>3. CASE ThreadStart(raises) \/ StartSensor(raises) \/ StopSensor(raises)
    BY <2>3 DEF ThreadStart, StartSensor, StopSensor
  <2>4. CASE Poll
    BY <2>4 DEF Poll
  <2>5. CASE Report
    BY <2>5 DEF Report
  <2> QED
    BY <2>1, <2>2, <2>3, <2>4, <2>5 DEF LocalStep
<1>2. pc \notin DOMAIN CmdOf /\ pc \notin {"bind", "dead"} /\ pc' \notin {"close", "resetRadar"}
  BY <1>1, Table, Commands DEF Reports
<1>3. waiting = FALSE
  BY <1>2 DEF SocketInv, TypeOK
<1>5. mishaps' \in Nat /\ mishaps <= mishaps'
  BY <1>1, Numbers
<1>4. pc = "starting" <=> pc' \in Down
  BY <1>1, Table DEF Reports, Down
<1> QED
  BY <1>1, <1>2, <1>3, <1>4, <1>5

\* What is outstanding, as a number.
LEMMA Count ==
  ASSUME TypeOK
  PROVE  /\ Outstanding \in Nat
         /\ Outstanding = 0 <=> inq = <<>> /\ back = <<>> /\ wire = <<>>
  BY Numbers DEF Outstanding

\* Nothing outstanding is all the session's own.
LEMMA EmptyOwn ==
  ASSUME TypeOK, Outstanding = 0
  PROVE  AllOwn
  BY Count, Numbers DEF AllOwn

\* A command sent is one more outstanding, and the session's own.
LEMMA SendMoves ==
  ASSUME TypeOK, session # 0, SendCommand(FALSE)
  PROVE  Outstanding' = Outstanding + 1 /\ (AllOwn => AllOwn')
<1>1. /\ Len(wire') = Len(wire) + 1 /\ wire'[Len(wire) + 1].by = session
      /\ \A i \in 1..Len(wire) : wire'[i] = wire[i]
      /\ UNCHANGED <<inq, back, did, session>>
  BY SendEffect DEF histVars
<1> QED
  BY <1>1, Numbers DEF Outstanding, AllOwn, OwnRequest, OwnReply

\* Taking a request keeps what is outstanding, or loses it.
LEMMA TakeMoves ==
  ASSUME TypeOK, NEW fate \in {"done", "refused", "lost"}, TakeRequest(fate)
  PROVE  /\ Outstanding' = IF fate = "lost" THEN Outstanding - 1 ELSE Outstanding
         /\ AllOwn => AllOwn'
<1>1. /\ Len(wire) \in Nat \ {0} /\ Len(wire') = Len(wire) - 1
      /\ \A i \in 1..Len(wire') : i + 1 \in 1..Len(wire) /\ wire'[i] = wire[i + 1]
      /\ IF fate = "lost" THEN back' = back
         ELSE /\ Len(back') = Len(back) + 1
              /\ \A i \in 1..Len(back) : back'[i] = back[i]
              /\ back'[Len(back) + 1].cmd = wire[1].cmd
              /\ back'[Len(back) + 1].ok => fate = "done"
      /\ did' = IF fate = "done" /\ wire[1].by = session
                THEN did \cup {wire[1].cmd} ELSE did
      /\ UNCHANGED <<inq, session>>
  BY TakeEffect DEF flowVars
<1>2. Outstanding' = IF fate = "lost" THEN Outstanding - 1 ELSE Outstanding
  <2>1. Len(inq) \in Nat /\ Len(back) \in Nat /\ Len(wire) \in Nat
    BY Numbers
  <2>2. /\ Len(wire') = Len(wire) - 1 /\ Len(inq') = Len(inq)
        /\ Len(back') = IF fate = "lost" THEN Len(back) ELSE Len(back) + 1
    BY <1>1
  <2> QED
    BY <2>1, <2>2 DEF Outstanding
<1>3. ASSUME AllOwn PROVE AllOwn'
  <2>0. Len(back) \in Nat /\ Len(back') = IF fate = "lost" THEN Len(back) ELSE Len(back) + 1
    BY <1>1, Numbers
  <2>1. \A i \in 1..Len(wire') : OwnRequest(wire[i])'
    BY <1>1, <1>3 DEF AllOwn, OwnRequest
  <2>2. did \subseteq did'
    BY <1>1
  <2>3. \A i \in 1..Len(inq') : OwnReply(inq[i])'
    BY <1>1, <1>3, <2>2 DEF AllOwn, OwnReply
  <2>4. \A i \in 1..Len(back) : OwnReply(back[i])'
    <3>1. ASSUME NEW i \in 1..Len(back), fate # "lost" PROVE OwnReply(back[i])'
      BY <1>1, <1>3, <2>2, <3>1 DEF AllOwn, OwnReply
    <3>2. ASSUME NEW i \in 1..Len(back), fate = "lost" PROVE OwnReply(back[i])'
      BY <1>1, <1>3, <2>2, <3>2 DEF AllOwn, OwnReply
    <3> QED
      BY <3>1, <3>2
  <2>5. fate # "lost" => OwnReply(back[Len(back)])'
    <3>1. wire[1].by = session
      BY <1>1, <1>3 DEF AllOwn, OwnRequest
    <3>2. fate # "lost" /\ back'[Len(back) + 1].ok =>
            back'[Len(back) + 1].cmd \in did'
      BY <1>1, <3>1
    <3> QED
      BY <2>0, <3>2 DEF OwnReply
  <2>6. \A i \in 1..Len(back') : OwnReply(back[i])'
    BY <2>0, <2>4, <2>5 DEF OwnReply
  <2> QED
    BY <2>1, <2>3, <2>6 DEF AllOwn
<1> QED
  BY <1>2, <1>3

\* The arrival of a reply keeps what is outstanding, or loses it.
LEMMA ArriveMoves ==
  ASSUME TypeOK, NEW lost \in BOOLEAN, ReplyArrives(lost)
  PROVE  /\ Outstanding' = IF sock /\ ~lost THEN Outstanding ELSE Outstanding - 1
         /\ AllOwn => AllOwn'
<1>1. /\ Len(back) \in Nat \ {0} /\ Len(back') = Len(back) - 1
      /\ \A i \in 1..Len(back') : i + 1 \in 1..Len(back) /\ back'[i] = back[i + 1]
      /\ IF sock /\ ~lost
         THEN /\ Len(inq') = Len(inq) + 1 /\ inq'[Len(inq) + 1] = back[1]
              /\ \A i \in 1..Len(inq) : inq'[i] = inq[i]
         ELSE inq' = inq
      /\ UNCHANGED <<wire, session, did>>
  BY ArriveEffect DEF flowVars, histVars
<1>2. Outstanding' = IF sock /\ ~lost THEN Outstanding ELSE Outstanding - 1
  <2>1. Len(inq) \in Nat /\ Len(back) \in Nat /\ Len(wire) \in Nat
    BY Numbers
  <2> QED
    <3>1. /\ Len(back') = Len(back) - 1 /\ Len(wire') = Len(wire)
          /\ Len(inq') = IF sock /\ ~lost THEN Len(inq) + 1 ELSE Len(inq)
      BY <1>1
    <3> QED
      BY <2>1, <3>1 DEF Outstanding
<1>3. ASSUME AllOwn PROVE AllOwn'
  <2>1. \A i \in 1..Len(back') : OwnReply(back[i])'
    BY <1>1, <1>3 DEF AllOwn, OwnReply
  <2>2. \A i \in 1..Len(inq') : OwnReply(inq[i])'
    <3>1. CASE sock /\ ~lost
      BY <1>1, <1>3, <3>1, Numbers, SMTT(30) DEF AllOwn, OwnReply
    <3>2. CASE ~(sock /\ ~lost)
      BY <1>1, <1>3, <3>2 DEF AllOwn, OwnReply
    <3> QED
      BY <3>1, <3>2
  <2>3. \A i \in 1..Len(wire') : OwnRequest(wire[i])'
    BY <1>1, <1>3 DEF AllOwn, OwnRequest
  <2> QED
    BY <2>1, <2>2, <2>3 DEF AllOwn
<1> QED
  BY <1>2, <1>3

\* Reading a reply is one less outstanding.
LEMMA ReceiveMoves ==
  ASSUME TypeOK, ReceiveReply
  PROVE  Outstanding' = Outstanding - 1 /\ (AllOwn => AllOwn')
<1>1. /\ Len(inq) \in Nat \ {0} /\ Len(inq') = Len(inq) - 1
      /\ \A i \in 1..Len(inq') : i + 1 \in 1..Len(inq) /\ inq'[i] = inq[i + 1]
      /\ UNCHANGED <<wire, back, session, did>>
  BY ReceiveEffect DEF histVars, GoOn
<1>2. Outstanding' = Outstanding - 1
  <2>1. Len(inq) \in Nat /\ Len(back) \in Nat /\ Len(wire) \in Nat
    BY Numbers
  <2> QED
    BY <1>1, <2>1 DEF Outstanding
<1>3. AllOwn => AllOwn'
  BY <1>1 DEF AllOwn, OwnRequest, OwnReply
<1> QED
  BY <1>2, <1>3

\* Which steps lead to the end of a session.
LEMMA Ends ==
  /\ "dead" \notin Cleanup /\ "starting" \notin Cleanup /\ "bind" \notin Cleanup
  /\ "resetRadar" \notin Cleanup
  /\ {"threadStop", "recordStop", "close"} \subseteq Cleanup
  /\ \A p \in DOMAIN CmdOf :
       /\ p = "recordStop" \/ After[p] \notin Cleanup \cup {"dead"}
       /\ p \in Cleanup => p = "recordStop"
       /\ p \notin Down
  BY Table, Commands DEF Down

\* Which steps lead to those that ResetInv is about.
LEMMA Ways ==
  /\ After["resetRadar"] # "sleep" /\ After["sleep"] = "openRadar"
  /\ \A p \in DOMAIN CmdOf :
       /\ After[p] = "sleep" => p = "resetFpga"
       /\ After[p] \in {"openRadar"} \cup Configuring => p \in Configuring
       /\ After[p] \in Recording => p = "recordStart"
  /\ \A p \in {"dead", "starting", "bind", "resetRadar", "close", "stopSensor",
               "threadStop", "recordStop"} :
       p # "sleep" /\ p # "resetFpga" /\ p # "recordStart" /\ p \notin Recording
         /\ p \notin {"openRadar"} \cup Configuring
  /\ "recordStart" \in Configuring
  /\ "resetFpga" \notin Configuring /\ "sleep" \notin Configuring
  /\ \A p \in Recording : p \notin DOMAIN CmdOf
  BY Table, Commands DEF Configuring, Recording

\* A session that is clean after a step was clean before it.
LEMMA CleanStep ==
  ASSUME TypeOK, mishaps <= mishaps', mishaps' \in Nat, UNCHANGED unclean
  PROVE  Clean' => Clean
  BY Numbers DEF Clean

\* A command under way is executed or stays under way, unless there is a fault.
LEMMA PromiseKept ==
  ASSUME TypeOK, NEW c, Promised(c), UNCHANGED session,
         \/ UNCHANGED <<wire, did>>
         \/ session # 0 /\ SendCommand(FALSE)
         \/ TakeRequest("done")
  PROVE  Promised(c)'
<1>1. CASE UNCHANGED <<wire, did>>
  BY <1>1 DEF Promised
<1>2. CASE session # 0 /\ SendCommand(FALSE)
  <2>1. /\ Len(wire') = Len(wire) + 1 /\ \A i \in 1..Len(wire) : wire'[i] = wire[i]
        /\ UNCHANGED did
    BY <1>2, SendEffect DEF histVars
  <2> QED
    BY <2>1, Numbers DEF Promised
<1>3. CASE TakeRequest("done")
  <2>1. /\ Len(wire) \in Nat \ {0} /\ Len(wire') = Len(wire) - 1
        /\ \A i \in 1..Len(wire') : wire'[i] = wire[i + 1]
        /\ did' = IF wire[1].by = session THEN did \cup {wire[1].cmd} ELSE did
    BY <1>3, TakeEffect
  <2>2. CASE c \in did
    BY <2>1, <2>2 DEF Promised
  <2>3. ASSUME NEW i \in 1..Len(wire), wire[i].cmd = c /\ wire[i].by = session
        PROVE  Promised(c)'
    <3>1. CASE i = 1
      BY <2>1, <2>3, <3>1 DEF Promised
    <3>2. CASE i # 1
      <4>1. i - 1 \in 1..Len(wire') /\ wire'[i - 1] = wire[i]
        BY <2>1, <3>2
      <4> QED
        BY <2>3, <4>1 DEF Promised
    <3> QED
      BY <3>1, <3>2
  <2> QED
    BY <2>2, <2>3 DEF Promised
<1> QED
  BY <1>1, <1>2, <1>3

\* Every step keeps the types.
LEMMA TypeStep ==
  ASSUME TypeOK, SocketInv, Next
  PROVE  TypeOK'
<1>a. ASSUME Fault \/ NoFault
      PROVE  faults' \in 0..MaxFaults /\ mishaps' \in 0..faults'
  BY <1>a, BoundsAssumption DEF TypeOK, Fault, NoFault
<1>b. /\ \A p \in Steps : After[p] \in Steps \cup {"dead"}
      /\ Cleanup \subseteq Steps /\ {"starting", "stopSensor"} \subseteq Steps
      /\ DOMAIN CmdOf \subseteq Steps
  BY Table, Commands
<1>c. ASSUME pc # "dead", GoOn \/ Raise
      PROVE  pc' \in Steps \cup {"dead"} /\ waiting' \in BOOLEAN /\ session' = session
  BY <1>b, <1>c DEF TypeOK, GoOn, Raise
<1> USE DEF hostVars, dataVars, netVars, devVars, ctlVars, histVars, flowVars
<1>1. ASSUME StartWorker PROVE TypeOK'
  <2>1. session' \in 0..MaxSessions /\ pc' \in Steps
    BY <1>1, <1>b, BoundsAssumption DEF TypeOK, StartWorker
  <2>2. unclean' \in BOOLEAN
    BY <1>1 DEF TypeOK, StartWorker
  <2>3. mishaps' \in 0..faults' /\ faults' \in 0..MaxFaults
    BY <1>1 DEF TypeOK, StartWorker
  <2>4. kept' \in 0..1 /\ arrived' \in 0..2 /\ ctl' \in {"open", "closed"}
    BY <1>1 DEF StartWorker
  <2> QED
    BY <1>1, <2>1, <2>2, <2>3, <2>4 DEF TypeOK, StartWorker
<1>2. ASSUME SendStop PROVE TypeOK'
  BY <1>2 DEF TypeOK, SendStop
<1>3. ASSUME StopArrives PROVE TypeOK'
  BY <1>3 DEF TypeOK, StopArrives
<1>4. ASSUME CloseControl PROVE TypeOK'
  BY <1>4 DEF TypeOK, CloseControl
<1>5. ASSUME Kill PROVE TypeOK'
  BY <1>5, EmptySeq DEF TypeOK, Kill
<1>6. ASSUME NEW raises \in BOOLEAN, SendCommand(raises) PROVE TypeOK'
  <2>1. CASE raises
    BY <1>6, <2>1, <1>a, <1>c, Commands DEF TypeOK, SocketInv, SendCommand
  <2>2. CASE ~raises
    <3>1. SendCommand(FALSE) /\ session # 0
      BY <1>6, <2>2, Commands DEF SendCommand, SocketInv
    <3>2. /\ wire' \in Seq(Requests) /\ waiting' = TRUE
          /\ UNCHANGED <<session, pc, faults, mishaps, hostVars, dataVars, inq, back,
                         devVars, ctlVars, histVars, reported>>
      BY <3>1, SendEffect
    <3> QED
      BY <3>2 DEF TypeOK
  <2> QED
    BY <2>1, <2>2
<1>7. ASSUME ReceiveReply PROVE TypeOK'
  <2>1. /\ inq' \in Seq(Replies) /\ reported' \subseteq Cmds /\ GoOn /\ NoFault
        /\ pc # "dead"
    BY <1>7, ReceiveEffect, Commands DEF TypeOK, SocketInv, NoFault
  <2> QED
    BY <1>7, <2>1, <1>a, <1>c DEF TypeOK, ReceiveReply
<1>8. ASSUME ReplyTimeout PROVE TypeOK'
  BY <1>8, <1>a, <1>b, <1>c, Commands DEF TypeOK, ReplyTimeout, SocketInv
<1>9. ASSUME NEW raises \in BOOLEAN, Bind(raises) PROVE TypeOK'
  BY <1>9, <1>a, <1>b, <1>c DEF TypeOK, Bind, SocketInv
<1>10. ASSUME Sleep PROVE TypeOK'
  BY <1>10, <1>a, <1>b, <1>c DEF TypeOK, Sleep
<1>11. ASSUME NEW raises \in BOOLEAN, OpenRadar(raises) PROVE TypeOK'
  BY <1>11, <1>a, <1>b, <1>c, ZenonT(40) DEF TypeOK, OpenRadar
<1>12. ASSUME NEW raises \in BOOLEAN, ThreadStart(raises) PROVE TypeOK'
  <2>1. pc' \in Steps \cup {"dead"} /\ waiting' \in BOOLEAN /\ session' = session
    BY <1>12, <1>c DEF ThreadStart
  <2>2. faults' \in 0..MaxFaults /\ mishaps' \in 0..faults'
    BY <1>12, <1>a DEF ThreadStart
  <2>3. thread' \in BOOLEAN /\ sock
    BY <1>12 DEF ThreadStart, SocketInv, Down
  <2> QED
    BY <1>12, <2>1, <2>2, <2>3 DEF TypeOK, ThreadStart
<1>13. ASSUME NEW raises \in BOOLEAN, StartSensor(raises) PROVE TypeOK'
  BY <1>13, <1>a, <1>b, <1>c DEF TypeOK, StartSensor
<1>14. ASSUME Poll PROVE TypeOK'
  BY <1>14, <1>a, <1>b, <1>c DEF TypeOK, Poll, KeptAfterRead
<1>15. ASSUME Get PROVE TypeOK'
  BY <1>15, <1>a, <1>b, <1>c DEF TypeOK, Get
<1>16. ASSUME Report PROVE TypeOK'
  BY <1>16, <1>a, <1>b, <1>c DEF TypeOK, Report, Reports
<1>17. ASSUME NEW raises \in BOOLEAN, StopSensor(raises) PROVE TypeOK'
  BY <1>17, <1>a, <1>b, <1>c DEF TypeOK, StopSensor
<1>18. ASSUME ThreadStop PROVE TypeOK'
  BY <1>18, <1>a, <1>b, <1>c DEF TypeOK, ThreadStop, SocketInv
<1>19. ASSUME Close PROVE TypeOK'
  BY <1>19, <1>a, <1>b, <1>c, EmptySeq DEF TypeOK, Close, SocketInv
<1>20. ASSUME Pump PROVE TypeOK'
  BY <1>20 DEF TypeOK, Pump, Sessions, SocketInv
<1>21. ASSUME Emit PROVE TypeOK'
  BY <1>21 DEF TypeOK, Emit, Emitting
<1>22. ASSUME NEW fate \in {"done", "refused", "lost"}, TakeRequest(fate) PROVE TypeOK'
  <2>1. /\ wire' \in Seq(Requests) /\ back' \in Seq(Replies)
        /\ wire[1] \in Requests /\ (Fault \/ NoFault)
    BY <1>22, TakeEffect DEF NoFault
  <2>2. on' \in BOOLEAN
    BY <1>22, TakeEffect DEF TypeOK
  <2>3. wire[1].cmd \in Cmds /\ wire[1].by \in Sessions
    BY <2>1 DEF Requests
  <2>4. rec \in Sessions \cup {0} /\ did \subseteq Cmds
    BY DEF TypeOK
  <2>5. \/ UNCHANGED <<rec, did>>
        \/ /\ rec' \in {wire[1].by, 0, rec}
           /\ did' \in {did \cup {wire[1].cmd}, did}
    <3>1. CASE fate = "done"
      BY <1>22, <3>1, TakeEffect
    <3>2. CASE fate # "done"
      BY <1>22, <3>2, TakeEffect
    <3> QED
      BY <3>1, <3>2
  <2>6. rec' \in Sessions \cup {0} /\ did' \subseteq Cmds
    BY <2>3, <2>4, <2>5
  <2> QED
    BY <1>22, <2>1, <2>2, <2>6, <1>a DEF TypeOK, TakeRequest
<1>23. ASSUME NEW lost \in BOOLEAN, ReplyArrives(lost) PROVE TypeOK'
  <2>1. inq' \in Seq(Replies) /\ back' \in Seq(Replies) /\ (Fault \/ NoFault)
    BY <1>23, ArriveEffect DEF NoFault
  <2> QED
    BY <1>23, <2>1, <1>a DEF TypeOK, ReplyArrives
<1> QED
  BY <1>1, <1>2, <1>3, <1>4, <1>5, <1>6, <1>7, <1>8, <1>9, <1>10, <1>11, <1>12,
     <1>13, <1>14, <1>15, <1>16, <1>17, <1>18, <1>19, <1>20, <1>21, <1>22,
     <1>23
  DEF Next, WorkerStep, NetStep

\* Every step keeps the worker's sockets, its thread and what they hold in line
\* with where it is.
LEMMA SocketStep ==
  ASSUME TypeOK, SocketInv, Next
  PROVE  SocketInv'
<1> USE DEF hostVars, dataVars, netVars, devVars, ctlVars, histVars, flowVars
<1>1. ASSUME StartWorker PROVE SocketInv'
  BY <1>1, Numbers DEF SocketInv, Down, StartWorker
<1>2. ASSUME SendStop PROVE SocketInv'
  BY <1>2 DEF SocketInv, Down, SendStop
<1>3. ASSUME StopArrives PROVE SocketInv'
  BY <1>3 DEF SocketInv, Down, StopArrives
<1>4. ASSUME CloseControl PROVE SocketInv'
  BY <1>4 DEF SocketInv, Down, Reports, CloseControl
<1>5. ASSUME Kill PROVE SocketInv'
  BY <1>5 DEF SocketInv, Down, Kill
<1>6. ASSUME NEW raises \in BOOLEAN, SendCommand(raises) PROVE SocketInv'
  BY <1>6, Table, Commands DEF SocketInv, Down, Raise, SendCommand
<1>7. ASSUME ReceiveReply PROVE SocketInv'
  BY <1>7, Table, Commands DEF SocketInv, Down, GoOn, ReceiveReply
<1>8. ASSUME ReplyTimeout PROVE SocketInv'
  BY <1>8, Table, Commands DEF SocketInv, Down, GoOn, ReplyTimeout
<1>9. ASSUME NEW raises \in BOOLEAN, Bind(raises) PROVE SocketInv'
  BY <1>9, Table, Commands DEF SocketInv, Down, Bind
<1>10. ASSUME Sleep PROVE SocketInv'
  BY <1>10, Table, Commands DEF SocketInv, Down, GoOn, Sleep
<1>11. ASSUME NEW raises \in BOOLEAN, OpenRadar(raises) PROVE SocketInv'
  BY <1>11, Table, Commands, ZenonT(40) DEF SocketInv, Down, GoOn, Raise, OpenRadar
<1>12. ASSUME NEW raises \in BOOLEAN, ThreadStart(raises) PROVE SocketInv'
  BY <1>12, Table, Commands DEF SocketInv, Down, GoOn, Raise, ThreadStart
<1>13. ASSUME NEW raises \in BOOLEAN, StartSensor(raises) PROVE SocketInv'
  BY <1>13, Table, Commands DEF SocketInv, Down, GoOn, Raise, StartSensor
<1>14. ASSUME Poll PROVE SocketInv'
  BY <1>14, Table, Commands DEF SocketInv, Down, GoOn, Raise, Poll
<1>15. ASSUME Get PROVE SocketInv'
  BY <1>15, Table, Commands DEF SocketInv, Down, GoOn, Get
<1>16. ASSUME Report PROVE SocketInv'
  BY <1>16, Table, Commands DEF SocketInv, Down, GoOn, Raise, Reports, Report
<1>17. ASSUME NEW raises \in BOOLEAN, StopSensor(raises) PROVE SocketInv'
  BY <1>17, Table, Commands DEF SocketInv, Down, GoOn, StopSensor
<1>18. ASSUME ThreadStop PROVE SocketInv'
  BY <1>18, Table, Commands DEF SocketInv, Down, GoOn, ThreadStop
<1>19. ASSUME Close PROVE SocketInv'
  BY <1>19, Table, Commands DEF SocketInv, Down, GoOn, Close
<1>20. ASSUME Pump PROVE SocketInv'
  BY <1>20 DEF SocketInv, Down, Pump
<1>21. ASSUME Emit PROVE SocketInv'
  BY <1>21 DEF SocketInv, Down, Emit
<1>22. ASSUME NEW fate \in {"done", "refused", "lost"}, TakeRequest(fate)
      PROVE  SocketInv'
  BY <1>22 DEF SocketInv, Down, TakeRequest
<1>23. ASSUME NEW lost \in BOOLEAN, ReplyArrives(lost) PROVE SocketInv'
  BY <1>23 DEF SocketInv, Down, ReplyArrives
<1> QED
  BY <1>1, <1>2, <1>3, <1>4, <1>5, <1>6, <1>7, <1>8, <1>9, <1>10, <1>11, <1>12,
     <1>13, <1>14, <1>15, <1>16, <1>17, <1>18, <1>19, <1>20, <1>21, <1>22,
     <1>23
  DEF Next, WorkerStep, NetStep

\* Every step keeps the radar known from openRadar on.
LEMMA RadarStep ==
  ASSUME TypeOK, SocketInv, RadarInv, Next
  PROVE  RadarInv'
<1>a. mishaps \in Nat
  BY Numbers
<1>b. ASSUME UNCHANGED <<pc, radar>>, mishaps' = mishaps \/ mishaps' = mishaps + 1
      PROVE  RadarInv'
  BY <1>a, <1>b DEF RadarInv
<1>c. waiting => pc \in DOMAIN CmdOf
  BY DEF SocketInv
<1> USE DEF hostVars, dataVars, netVars, devVars, ctlVars, histVars, flowVars
<1>1. ASSUME StartWorker PROVE RadarInv'
  BY <1>1, Table DEF RadarInv, Configuring, Recording, StartWorker
<1>2. ASSUME SendStop PROVE RadarInv'
  BY <1>2, <1>b DEF RadarInv, Configuring, Recording, SendStop
<1>3. ASSUME StopArrives PROVE RadarInv'
  BY <1>3, <1>b DEF RadarInv, Configuring, Recording, StopArrives
<1>4. ASSUME CloseControl PROVE RadarInv'
  BY <1>4, <1>b DEF RadarInv, Reports, Configuring, Recording, CloseControl
<1>5. ASSUME Kill PROVE RadarInv'
  BY <1>5, Table DEF RadarInv, Kill, Configuring, Recording
<1>6. ASSUME NEW raises \in BOOLEAN, SendCommand(raises) PROVE RadarInv'
  BY <1>6, <1>a, <1>c, Table, Commands
    DEF RadarInv, Raise, Fault, NoFault, Configuring, Recording, SendCommand
<1>7. ASSUME ReceiveReply PROVE RadarInv'
  BY <1>7, <1>a, <1>c, Table, Commands
    DEF RadarInv, GoOn, NoFault, Configuring, Recording, ReceiveReply
<1>8. ASSUME ReplyTimeout PROVE RadarInv'
  BY <1>8, <1>a, <1>c, Table, Commands
    DEF RadarInv, GoOn, Fault, NoFault, Configuring, Recording, ReplyTimeout
<1>9. ASSUME NEW raises \in BOOLEAN, Bind(raises) PROVE RadarInv'
  BY <1>9, <1>a, <1>c, Table, Commands
    DEF RadarInv, Fault, NoFault, Configuring, Recording, Bind
<1>10. ASSUME Sleep PROVE RadarInv'
  BY <1>10, <1>a, <1>c, Table, Commands
    DEF RadarInv, GoOn, NoFault, Configuring, Recording, Sleep
<1>11. ASSUME NEW raises \in BOOLEAN, OpenRadar(raises) PROVE RadarInv'
  <2>1. CASE raises
    BY <1>11, <2>1, <1>a, Table
      DEF RadarInv, OpenRadar, Raise, Fault, Configuring, Recording
  <2>2. CASE ~raises
    BY <1>11, <2>2, Table DEF RadarInv, OpenRadar, GoOn, Configuring, Recording
  <2> QED
    BY <2>1, <2>2
<1>12. ASSUME NEW raises \in BOOLEAN, ThreadStart(raises) PROVE RadarInv'
  BY <1>12, <1>a, <1>c, Table, Commands
    DEF RadarInv, GoOn, Raise, Fault, NoFault, Configuring, Recording, ThreadStart
<1>13. ASSUME NEW raises \in BOOLEAN, StartSensor(raises) PROVE RadarInv'
  BY <1>13, <1>a, <1>c, Table, Commands
    DEF RadarInv, GoOn, Raise, Fault, NoFault, Configuring, Recording, StartSensor
<1>14. ASSUME Poll PROVE RadarInv'
  BY <1>14, <1>a, <1>c, Table, Commands
    DEF RadarInv, GoOn, Raise, NoFault, Configuring, Recording, Poll
<1>15. ASSUME Get PROVE RadarInv'
  BY <1>15, <1>a, <1>c, Table, Commands
    DEF RadarInv, GoOn, NoFault, Configuring, Recording, Get
<1>16. ASSUME Report PROVE RadarInv'
  BY <1>16, <1>a, <1>c, Table, Commands
    DEF RadarInv, GoOn, Raise, Reports, NoFault, Configuring, Recording, Report
<1>17. ASSUME NEW raises \in BOOLEAN, StopSensor(raises) PROVE RadarInv'
  BY <1>17, <1>a, <1>c, Table, Commands
    DEF RadarInv, GoOn, Fault, NoFault, Configuring, Recording, StopSensor
<1>18. ASSUME ThreadStop PROVE RadarInv'
  BY <1>18, <1>a, <1>c, Table, Commands
    DEF RadarInv, GoOn, NoFault, Configuring, Recording, ThreadStop
<1>19. ASSUME Close PROVE RadarInv'
  BY <1>19, <1>a, <1>c, Table, Commands
    DEF RadarInv, GoOn, NoFault, Configuring, Recording, Close
<1>20. ASSUME Pump PROVE RadarInv'
  BY <1>20, <1>b DEF RadarInv, Configuring, Recording, Pump
<1>21. ASSUME Emit PROVE RadarInv'
  BY <1>21, <1>b DEF RadarInv, Configuring, Recording, Emit
<1>22. ASSUME NEW fate \in {"done", "refused", "lost"}, TakeRequest(fate)
      PROVE  RadarInv'
  <2>1. mishaps' = mishaps \/ mishaps' = mishaps + 1
    BY <1>22, TakeEffect DEF Fault
  <2> QED
    BY <1>22, <1>b, <2>1 DEF TakeRequest
<1>23. ASSUME NEW lost \in BOOLEAN, ReplyArrives(lost) PROVE RadarInv'
  <2>1. mishaps' = mishaps \/ mishaps' = mishaps + 1
    BY <1>23, ArriveEffect DEF Fault
  <2> QED
    BY <1>23, <1>b, <2>1 DEF ReplyArrives
<1> QED
  BY <1>1, <1>2, <1>3, <1>4, <1>5, <1>6, <1>7, <1>8, <1>9, <1>10, <1>11, <1>12,
     <1>13, <1>14, <1>15, <1>16, <1>17, <1>18, <1>19, <1>20, <1>21, <1>22,
     <1>23
  DEF Next, WorkerStep, NetStep

\* Every step keeps the requests in the order of the sessions.
LEMMA WireStep ==
  ASSUME TypeOK, SocketInv, WireInv, Next
  PROVE  WireInv'
<1>1. \A i \in 1..Len(wire) : wire[i] \in Requests /\ wire[i].by \in Nat
  <2>1. \A i \in 1..Len(wire) : wire[i] \in Requests
    BY Numbers, ElementOfSeq
  <2> QED
    BY <2>1, BoundsAssumption DEF Requests, Sessions
<1>2. ASSUME StartWorker PROVE WireInv'
  BY <1>1, <1>2, Numbers DEF WireInv, StartWorker, netVars
<1>3. ASSUME SendCommand(FALSE) PROVE WireInv'
  <2>1. session # 0
    BY <1>3, Commands DEF SocketInv, SendCommand
  <2>2. /\ Len(wire') = Len(wire) + 1 /\ wire'[Len(wire) + 1].by = session
        /\ \A i \in 1..Len(wire) : wire'[i] = wire[i]
        /\ session' = session
    BY <1>3, <2>1, SendEffect
  <2>3. /\ Len(wire) \in Nat /\ session \in Nat
        /\ \A i \in 1..Len(wire) : wire[i].by <= session
        /\ \A i \in 1..Len(wire) : \A k \in 1..Len(wire) :
             i < k => wire[i].by <= wire[k].by
    BY Numbers DEF WireInv
  <2>4. ASSUME NEW i \in 1..Len(wire') PROVE wire'[i].by <= session'
    BY <1>1, <2>2, <2>3, <2>4
  <2>5. ASSUME NEW i \in 1..Len(wire'), NEW k \in 1..Len(wire'), i < k
        PROVE  wire'[i].by <= wire'[k].by
    BY <1>1, <2>2, <2>3, <2>5
  <2> QED
    BY <2>4, <2>5 DEF WireInv
<1>4. ASSUME NEW fate \in {"done", "refused", "lost"}, TakeRequest(fate)
      PROVE  WireInv'
  <2>1. /\ Len(wire') = Len(wire) - 1 /\ Len(wire) \in Nat /\ session' = session
        /\ \A i \in 1..Len(wire') : i + 1 \in 1..Len(wire) /\ wire'[i] = wire[i + 1]
    BY <1>4, TakeEffect DEF flowVars
  <2>2. /\ \A i \in 1..Len(wire) : wire[i].by <= session
        /\ \A i \in 1..Len(wire) : \A k \in 1..Len(wire) :
             i < k => wire[i].by <= wire[k].by
    BY DEF WireInv
  <2>3. ASSUME NEW i \in 1..Len(wire') PROVE wire'[i].by <= session'
    BY <2>1, <2>2, <2>3
  <2>4. ASSUME NEW i \in 1..Len(wire'), NEW k \in 1..Len(wire'), i < k
        PROVE  wire'[i].by <= wire'[k].by
    BY <2>1, <2>2, <2>4
  <2> QED
    BY <2>3, <2>4 DEF WireInv
<1>5. ASSUME UNCHANGED <<wire, session>> PROVE WireInv'
  BY <1>5 DEF WireInv
<1>6. \/ StartWorker \/ SendCommand(FALSE)
      \/ \E fate \in {"done", "refused", "lost"} : TakeRequest(fate)
      \/ UNCHANGED <<wire, session>>
  <2> USE DEF flowVars, netVars, Raise, GoOn
  <2>1. ASSUME NEW raises \in BOOLEAN, SendCommand(raises)
        PROVE  SendCommand(FALSE) \/ UNCHANGED <<wire, session>>
    BY <2>1 DEF SendCommand
  <2>2. ASSUME NEW raises \in BOOLEAN,
               \/ Bind(raises) \/ OpenRadar(raises) \/ ThreadStart(raises)
               \/ StartSensor(raises) \/ StopSensor(raises)
        PROVE  UNCHANGED <<wire, session>>
    BY <2>2 DEF Bind, OpenRadar, ThreadStart, StartSensor, StopSensor
  <2>3. ASSUME \/ ReceiveReply \/ ReplyTimeout \/ Sleep \/ Poll \/ Get \/ Report
               \/ ThreadStop \/ Close
        PROVE  UNCHANGED <<wire, session>>
    BY <2>3 DEF ReceiveReply, ReplyTimeout, Sleep, Poll, Get, Report, ThreadStop, Close
  <2>4. ASSUME \/ SendStop \/ StopArrives \/ CloseControl \/ Kill \/ Pump \/ Emit
               \/ \E lost \in BOOLEAN : ReplyArrives(lost)
        PROVE  UNCHANGED <<wire, session>>
    BY <2>4 DEF SendStop, StopArrives, CloseControl, Kill, Pump, Emit, ReplyArrives
  <2> QED
    BY <2>1, <2>2, <2>3, <2>4 DEF Next, WorkerStep, NetStep
<1> QED
  BY <1>2, <1>3, <1>4, <1>5, <1>6

\* Every step without a fault keeps the worker and the FPGA in step.
LEMMA StepStep ==
  ASSUME TypeOK, SocketInv, StepInv, Next
  PROVE  StepInv'
<1>a. mishaps \in Nat /\ Outstanding \in Nat
  BY Numbers, Count
<1>b. ASSUME UNCHANGED <<inq, back, wire, did, session, waiting>>,
             pc' \notin Down => pc \notin Down, mishaps' = 0 => mishaps = 0
      PROVE  StepInv'
  <2> SUFFICES ASSUME pc' \notin Down /\ mishaps' = 0 PROVE InStep' /\ AllOwn'
    BY DEF StepInv
  <2>1. Outstanding' = Outstanding /\ (AllOwn => AllOwn')
    BY <1>b DEF Outstanding, AllOwn, OwnReply, OwnRequest
  <2> QED
    BY <1>b, <2>1 DEF StepInv, InStep
<1> USE DEF hostVars, dataVars, netVars, devVars, ctlVars, histVars, flowVars
<1>1. ASSUME StartWorker PROVE StepInv'
  BY <1>1 DEF StepInv, StartWorker, Down
<1>2. ASSUME Kill PROVE StepInv'
  BY <1>2 DEF StepInv, Kill, Down
<1>3. ASSUME NEW raises \in BOOLEAN, SendCommand(raises) PROVE StepInv'
  <2>1. CASE raises
    BY <1>3, <2>1, <1>a DEF StepInv, SendCommand, Fault
  <2>2. CASE ~raises
    <3>1. SendCommand(FALSE) /\ session # 0 /\ ~waiting
      BY <1>3, <2>2, Commands DEF SendCommand, SocketInv
    <3>2. /\ Outstanding' = Outstanding + 1 /\ (AllOwn => AllOwn')
          /\ UNCHANGED <<pc, mishaps>> /\ waiting' = TRUE
      BY <3>1, SendMoves, SendEffect
    <3> QED
      BY <1>a, <3>1, <3>2 DEF StepInv, InStep
  <2> QED
    BY <2>1, <2>2
<1>4. ASSUME ReceiveReply PROVE StepInv'
  <2>1. /\ Outstanding' = Outstanding - 1 /\ (AllOwn => AllOwn')
        /\ mishaps' = mishaps /\ waiting /\ ~waiting'
    BY <1>4, ReceiveMoves, ReceiveEffect DEF GoOn
  <2>2. pc \notin Down
    BY <2>1 DEF SocketInv
  <2> QED
    BY <1>a, <2>1, <2>2 DEF StepInv, InStep
<1>5. ASSUME ReplyTimeout PROVE StepInv'
  <2> SUFFICES ASSUME mishaps' = 0 PROVE InStep' /\ AllOwn'
    BY DEF StepInv
  <2>1. inq = <<>> /\ wire = <<>> /\ back = <<>> /\ UNCHANGED <<inq, back, wire>>
    BY <1>5, <1>a DEF ReplyTimeout, Fault
  <2>2. Outstanding' = 0
    BY <2>1, Count DEF Outstanding
  <2>3. AllOwn'
    BY <2>1, Numbers DEF AllOwn
  <2> QED
    BY <2>2, <2>3 DEF InStep
<1>6. ASSUME NEW raises \in BOOLEAN, Bind(raises) PROVE StepInv'
  <2> SUFFICES ASSUME mishaps' = 0, pc' \notin Down PROVE InStep' /\ AllOwn'
    BY DEF StepInv
  <2>1. inq = <<>> /\ wire = <<>> /\ back = <<>> /\ UNCHANGED <<inq, back, wire>>
    BY <1>6, <1>a DEF Bind, Fault, Down, SocketInv
  <2>2. Outstanding' = 0
    BY <2>1, Count DEF Outstanding
  <2>3. AllOwn'
    BY <2>1, Numbers DEF AllOwn
  <2> QED
    BY <2>2, <2>3 DEF InStep
<1>7. ASSUME NEW raises \in BOOLEAN, LocalStep(raises) PROVE StepInv'
  <2>1. UNCHANGED <<inq, back, wire, did, session, waiting>>
    BY <1>7, LocalEffect
  <2>2. pc' \notin Down => pc \notin Down
    BY <1>7, LocalEffect DEF Down
  <2>3. mishaps' = 0 => mishaps = 0
    <3>1. mishaps' \in Nat /\ mishaps <= mishaps'
      BY <1>7, LocalEffect
    <3> QED
      BY <1>a, <3>1
  <2> QED
    BY <2>1, <2>2, <2>3, <1>b
<1>8. ASSUME Close PROVE StepInv'
  <2>1. pc' = "dead"
    BY <1>8, Table DEF Close, GoOn
  <2> QED
    BY <2>1 DEF StepInv, Down
<1>9. ASSUME NEW fate \in {"done", "refused", "lost"}, TakeRequest(fate)
      PROVE  StepInv'
  <2>1. /\ Outstanding' \in {Outstanding, Outstanding - 1} /\ (AllOwn => AllOwn')
        /\ UNCHANGED <<pc, waiting>> /\ (mishaps' = 0 => mishaps = 0)
    BY <1>9, <1>a, TakeMoves, TakeEffect DEF Fault
  <2> QED
    BY <1>a, <2>1 DEF StepInv, InStep
<1>10. ASSUME NEW lost \in BOOLEAN, ReplyArrives(lost) PROVE StepInv'
  <2>1. /\ Outstanding' \in {Outstanding, Outstanding - 1} /\ (AllOwn => AllOwn')
        /\ UNCHANGED <<pc, waiting>> /\ (mishaps' = 0 => mishaps = 0)
    BY <1>10, <1>a, ArriveMoves, ArriveEffect DEF Fault
  <2> QED
    BY <1>a, <2>1 DEF StepInv, InStep
<1>11. ASSUME SendStop \/ StopArrives \/ CloseControl \/ Pump \/ Emit
      PROVE  StepInv'
  BY <1>11, <1>b DEF SendStop, StopArrives, CloseControl, Pump, Emit
<1> QED
  BY <1>1, <1>2, <1>3, <1>4, <1>5, <1>6, <1>7, <1>8, <1>9, <1>10, <1>11
  DEF Next, WorkerStep, NetStep, LocalStep

===============================================================================
