------------------------- MODULE CaptureSessionProofs -------------------------
(***************************************************************************)
(* The safety of a capture session for any number of sessions and faults.  *)
(* IInv is inductive: RecordInv, OwnWireInv and ResetInv follow the reset  *)
(* of the FPGA and the start of the recording, QuietInv the cleanup, and   *)
(* LeftInv to LastInv the one request or reply that a fault leaves over,   *)
(* from the command that it belongs to into the next session.              *)
(***************************************************************************)
EXTENDS CaptureSessionLemmas

\* Every step keeps the recording the session's own once it was reset or started:
\* requests are taken in the order of the sessions.
LEMMA RecordStep ==
  ASSUME TypeOK, SocketInv, WireInv, RecordInv, Next
  PROVE  RecordInv'
<1>a. ASSUME UNCHANGED <<wire, rec, session, did>> PROVE RecordInv'
  BY <1>a DEF RecordInv, OwnRequest
<1> USE DEF hostVars, dataVars, netVars, devVars, ctlVars, histVars, flowVars
<1>1. ASSUME StartWorker PROVE RecordInv'
  BY <1>1 DEF StartWorker, RecordInv
<1>2. ASSUME Kill PROVE RecordInv'
  BY <1>2, <1>a DEF Kill, GoOn
<1>3. ASSUME NEW raises \in BOOLEAN, SendCommand(raises) PROVE RecordInv'
  <2>1. CASE raises
    BY <1>3, <2>1, <1>a DEF SendCommand, Raise
  <2>2. CASE ~raises
    <3>1. SendCommand(FALSE) /\ session # 0
      BY <1>3, <2>2, Commands DEF SendCommand, SocketInv
    <3>2. /\ Len(wire') = Len(wire) + 1 /\ wire'[Len(wire) + 1].by = session
          /\ \A i \in 1..Len(wire) : wire'[i] = wire[i]
          /\ UNCHANGED <<rec, did, session>>
      BY <3>1, SendEffect
    <3> QED
      BY <3>2, Numbers DEF RecordInv, OwnRequest
  <2> QED
    BY <2>1, <2>2
<1>4. ASSUME ReceiveReply PROVE RecordInv'
  BY <1>4, <1>a DEF ReceiveReply, GoOn
<1>5. ASSUME ReplyTimeout PROVE RecordInv'
  BY <1>5, <1>a DEF ReplyTimeout, GoOn
<1>6. ASSUME NEW raises \in BOOLEAN, Bind(raises) PROVE RecordInv'
  BY <1>6, <1>a DEF Bind, GoOn
<1>7. ASSUME NEW raises \in BOOLEAN, LocalStep(raises) PROVE RecordInv'
  BY <1>7, <1>a, LocalEffect
<1>8. ASSUME Close PROVE RecordInv'
  BY <1>8, <1>a DEF Close, GoOn
<1>9. ASSUME NEW fate \in {"done", "refused", "lost"}, TakeRequest(fate)
      PROVE  RecordInv'
  <2>1. /\ Len(wire) \in Nat \ {0} /\ Len(wire') = Len(wire) - 1
        /\ \A i \in 1..Len(wire') : i + 1 \in 1..Len(wire) /\ wire'[i] = wire[i + 1]
        /\ session' = session
    BY <1>9, TakeEffect
  <2>2. CASE fate # "done"
    <3>1. UNCHANGED <<rec, did>>
      BY <1>9, <2>2, TakeEffect
    <3> QED
      BY <2>1, <3>1 DEF RecordInv, OwnRequest
  <2>3. CASE fate = "done"
    <3>1. /\ rec' = IF wire[1].cmd = "RECORD_START" THEN wire[1].by
                    ELSE IF wire[1].cmd \in {"RECORD_STOP", "RESET_FPGA"} THEN 0
                    ELSE rec
          /\ did' = IF wire[1].by = session THEN did \cup {wire[1].cmd} ELSE did
      BY <1>9, <2>3, TakeEffect
    <3>2. CASE "RESET_FPGA" \in did \/ "RECORD_START" \in did
      BY <2>1, <3>1, <3>2 DEF RecordInv, OwnRequest
    <3>3. CASE ~("RESET_FPGA" \in did \/ "RECORD_START" \in did)
      <4> SUFFICES ASSUME "RESET_FPGA" \in did' \/ "RECORD_START" \in did'
                   PROVE  /\ rec' \in {0, session'}
                          /\ \A i \in 1..Len(wire') : OwnRequest(wire[i])'
        BY DEF RecordInv
      <4>1. wire[1].by = session /\ wire[1].cmd \in {"RESET_FPGA", "RECORD_START"}
        BY <3>1, <3>3
      <4>2. rec' \in {0, session'}
        BY <2>1, <3>1, <4>1
      <4>3. ASSUME NEW i \in 1..Len(wire') PROVE wire'[i].by = session
        <5>1. wire[i + 1] \in Requests /\ session \in Nat
          BY <2>1, Numbers, ElementOfSeq
        <5>2. wire[i + 1].by \in Nat
          BY <5>1, BoundsAssumption DEF Requests, Sessions
        <5>3. wire[1].by <= wire[i + 1].by /\ wire[i + 1].by <= session
          BY <2>1 DEF WireInv
        <5> QED
          BY <2>1, <4>1, <5>1, <5>2, <5>3
      <4> QED
        BY <2>1, <4>2, <4>3 DEF OwnRequest
    <3> QED
      BY <3>2, <3>3
  <2> QED
    BY <2>2, <2>3
<1>10. ASSUME NEW lost \in BOOLEAN, ReplyArrives(lost) PROVE RecordInv'
  BY <1>10, <1>a DEF ReplyArrives
<1>11. ASSUME SendStop \/ StopArrives \/ CloseControl \/ Pump \/ Emit
      PROVE  RecordInv'
  BY <1>11, <1>a DEF SendStop, StopArrives, CloseControl, Pump, Emit
<1> QED
  BY <1>1, <1>2, <1>3, <1>4, <1>5, <1>6, <1>7, <1>8, <1>9, <1>10, <1>11
  DEF Next, WorkerStep, NetStep, LocalStep

\* Every step keeps the requests of earlier sessions out after the sleep.
LEMMA OwnWireStep ==
  ASSUME TypeOK, SocketInv, OwnWireInv, Next
  PROVE  OwnWireInv'
<1>a. ASSUME UNCHANGED <<wire, session>>,
             pc' \in {"openRadar"} \cup Configuring \cup Recording =>
               \/ pc \in {"openRadar"} \cup Configuring \cup Recording
               \/ wire = <<>>
      PROVE  OwnWireInv'
  BY <1>a, Numbers DEF OwnWireInv, OwnRequest
<1>b. /\ pc \in DOMAIN CmdOf /\ After[pc] \in {"openRadar"} \cup Configuring \cup Recording
           => pc \in {"openRadar"} \cup Configuring \cup Recording
      /\ "dead" \notin {"openRadar"} \cup Configuring \cup Recording
      /\ After["bind"] \notin {"openRadar"} \cup Configuring \cup Recording
      /\ After["close"] \notin {"openRadar"} \cup Configuring \cup Recording
      /\ \A p \in Cleanup : After[p] \notin {"openRadar"} \cup Configuring \cup Recording
      /\ "stopSensor" \notin {"openRadar"} \cup Configuring \cup Recording
  BY Table, Commands DEF Configuring, Recording
<1> USE DEF hostVars, dataVars, netVars, devVars, ctlVars, histVars, flowVars
<1>1. ASSUME StartWorker PROVE OwnWireInv'
  BY <1>1 DEF StartWorker, OwnWireInv, Configuring, Recording
<1>2. ASSUME Kill PROVE OwnWireInv'
  BY <1>2, <1>a, <1>b DEF Kill
<1>3. ASSUME NEW raises \in BOOLEAN, SendCommand(raises) PROVE OwnWireInv'
  <2>1. CASE raises
    BY <1>3, <2>1, <1>a, <1>b DEF SendCommand, Raise
  <2>2. CASE ~raises
    <3>1. SendCommand(FALSE) /\ session # 0
      BY <1>3, <2>2, Commands DEF SendCommand, SocketInv
    <3>2. /\ Len(wire') = Len(wire) + 1 /\ wire'[Len(wire) + 1].by = session
          /\ \A i \in 1..Len(wire) : wire'[i] = wire[i]
          /\ UNCHANGED <<pc, session>>
      BY <3>1, SendEffect
    <3> QED
      BY <3>2, Numbers, SMTT(30) DEF OwnWireInv, OwnRequest
  <2> QED
    BY <2>1, <2>2
<1>4. ASSUME ReceiveReply PROVE OwnWireInv'
  BY <1>4, <1>a, <1>b DEF ReceiveReply, GoOn, SocketInv
<1>5. ASSUME ReplyTimeout PROVE OwnWireInv'
  BY <1>5, <1>a, <1>b DEF ReplyTimeout, GoOn, SocketInv
<1>6. ASSUME NEW raises \in BOOLEAN, Bind(raises) PROVE OwnWireInv'
  BY <1>6, <1>a, <1>b DEF Bind
<1>7. ASSUME NEW raises \in BOOLEAN, LocalStep(raises) PROVE OwnWireInv'
  <2>1. UNCHANGED <<wire, session>>
    BY <1>7, LocalEffect
  <2>2. CASE Sleep
    BY <2>1, <2>2, <1>a DEF Sleep
  <2>3. CASE OpenRadar(raises) \/ ThreadStart(raises) \/ StartSensor(raises)
    BY <2>1, <2>3, <1>a
    DEF OpenRadar, ThreadStart, StartSensor, Recording
  <2>4. CASE Poll \/ Get
    BY <2>1, <2>4, <1>a DEF Poll, Get, Recording
  <2>5. CASE Report /\ pc # "starting"
    BY <2>1, <2>5, <1>a DEF Report, Reports, Configuring, Recording
  <2>6. CASE Report /\ pc = "starting"
    <3>1. pc' \in Down
      BY <1>7, <2>6, LocalEffect
    <3> QED
      BY <3>1 DEF OwnWireInv, Configuring, Recording, Down
  <2>7. CASE StopSensor(raises) \/ ThreadStop
    BY <2>1, <2>7, <1>a, <1>b, Table DEF StopSensor, ThreadStop, GoOn
  <2> QED
    BY <1>7, <2>2, <2>3, <2>4, <2>5, <2>6, <2>7 DEF LocalStep
<1>8. ASSUME Close PROVE OwnWireInv'
  BY <1>8, <1>a, <1>b DEF Close, GoOn
<1>9. ASSUME NEW fate \in {"done", "refused", "lost"}, TakeRequest(fate)
      PROVE  OwnWireInv'
  <2>1. /\ Len(wire) \in Nat \ {0} /\ Len(wire') = Len(wire) - 1
        /\ \A i \in 1..Len(wire') : i + 1 \in 1..Len(wire) /\ wire'[i] = wire[i + 1]
        /\ UNCHANGED <<session, pc>>
    BY <1>9, TakeEffect
  <2> QED
    BY <2>1 DEF OwnWireInv, OwnRequest
<1>10. ASSUME NEW lost \in BOOLEAN, ReplyArrives(lost) PROVE OwnWireInv'
  BY <1>10, <1>a DEF ReplyArrives
<1>11. ASSUME SendStop \/ StopArrives \/ CloseControl \/ Pump \/ Emit
      PROVE  OwnWireInv'
  BY <1>11, <1>a DEF SendStop, StopArrives, CloseControl, Pump, Emit
<1> QED
  BY <1>1, <1>2, <1>3, <1>4, <1>5, <1>6, <1>7, <1>8, <1>9, <1>10, <1>11
  DEF Next, WorkerStep, NetStep, LocalStep

\* Every step keeps the promise of a reset or of a start of the recording, up to
\* one fault.
LEMMA ResetStep ==
  ASSUME TypeOK, SocketInv, StepInv, ResetInv, Next
  PROVE  ResetInv'
<1>a. mishaps \in Nat /\ Outstanding \in Nat
  BY Numbers, Count
<1>b. ASSUME pc' = pc, waiting' = waiting, did \subseteq did', mishaps <= mishaps',
             mishaps' \in Nat, Recovered => Recovered',
             Promised("RESET_FPGA") => Promised("RESET_FPGA")',
             Promised("RECORD_START") => Promised("RECORD_START")'
      PROVE  ResetInv'
  BY <1>a, <1>b DEF ResetInv
<1>c. ASSUME pc' \in {"dead", "starting", "bind", "resetRadar", "close", "stopSensor",
                      "threadStop", "recordStop"}
      PROVE  ResetInv'
  BY <1>c, Ways DEF ResetInv
<1> USE DEF hostVars, dataVars, netVars, devVars, ctlVars, histVars, flowVars
<1>1. ASSUME StartWorker PROVE ResetInv'
  BY <1>1, <1>c DEF StartWorker
<1>2. ASSUME Kill PROVE ResetInv'
  BY <1>2, <1>c DEF Kill
<1>3. ASSUME NEW raises \in BOOLEAN, SendCommand(raises) PROVE ResetInv'
  <2>1. CASE raises
    <3>1. pc' = IF pc \in Cleanup THEN After[pc] ELSE "stopSensor"
      BY <1>3, <2>1 DEF SendCommand, Raise
    <3> QED
      BY <3>1, <1>c, Table
  <2>2. CASE ~raises
    <3>1. SendCommand(FALSE) /\ session # 0 /\ ~waiting
      BY <1>3, <2>2, Commands DEF SendCommand, SocketInv
    <3>2. /\ pc \in DOMAIN CmdOf /\ waiting' = TRUE
          /\ UNCHANGED <<session, pc, mishaps, did>>
          /\ Len(wire') = Len(wire) + 1 /\ wire'[Len(wire) + 1].cmd = CmdOf[pc]
          /\ wire'[Len(wire) + 1].by = session
      BY <3>1, SendEffect
    <3>3. Promised(CmdOf[pc])'
      <4>1. Len(wire') \in 1..Len(wire') /\ wire'[Len(wire')].cmd = CmdOf[pc]
            /\ wire'[Len(wire')].by = session'
        BY <3>2, Numbers
      <4> QED
        BY <3>2, <4>1 DEF Promised
    <3>4. Recovered => Recovered'
      <4>1. Outstanding' = Outstanding + 1
        BY <3>1, SendMoves
      <4> QED
        BY <1>a, <3>1, <3>2, <4>1 DEF Recovered, InStep
    <3>5. pc = "resetFpga" => Promised("RESET_FPGA")'
      BY <3>2, <3>3, Commands
    <3>6. pc = "recordStart" => Promised("RECORD_START")'
      BY <3>2, <3>3, Commands
    <3>7. pc # "sleep" /\ pc \notin Recording
      BY <3>2, Ways, Commands
    <3> QED
      BY <3>2, <3>4, <3>5, <3>6, <3>7 DEF ResetInv
  <2> QED
    BY <2>1, <2>2
<1>4. ASSUME ReceiveReply PROVE ResetInv'
  <2>1. /\ Outstanding' = Outstanding - 1 /\ Len(inq) \in Nat \ {0}
        /\ UNCHANGED <<wire, did, session, mishaps>>
        /\ pc' = After[pc] /\ waiting /\ ~waiting'
    BY <1>4, ReceiveMoves, ReceiveEffect DEF GoOn
  <2>2. pc \in DOMAIN CmdOf
    BY <2>1 DEF SocketInv
  <2>3. Recovered => Recovered' /\ wire = <<>>
    BY <1>a, <2>1, Numbers DEF Recovered, InStep, Outstanding
  <2>4. Promised("RESET_FPGA") => Promised("RESET_FPGA")'
    BY <2>1 DEF Promised
  <2>5. wire = <<>> /\ Promised("RECORD_START") => "RECORD_START" \in did
    BY Numbers DEF Promised
  <2> SUFFICES ASSUME mishaps <= 1 PROVE ResetInv'
    BY <2>1 DEF ResetInv
  <2>6. pc' = "sleep" => Promised("RESET_FPGA")' \/ Recovered'
    BY <2>1, <2>2, <2>3, <2>4, Ways DEF ResetInv
  <2>7. pc' \in {"openRadar"} \cup Configuring => "RESET_FPGA" \in did' \/ Recovered'
    BY <2>1, <2>2, <2>3, Ways DEF ResetInv
  <2>8. pc' \in Recording => "RESET_FPGA" \in did' \/ "RECORD_START" \in did'
    BY <2>1, <2>2, <2>3, <2>5, Ways DEF ResetInv
  <2> QED
    BY <2>1, <2>6, <2>7, <2>8 DEF ResetInv
<1>5. ASSUME ReplyTimeout PROVE ResetInv'
  <2>1. /\ UNCHANGED <<inq, wire, back, did, session>> /\ inq = <<>>
        /\ pc' = After[pc] /\ waiting /\ ~waiting'
        /\ \/ wire = <<>> /\ back = <<>> /\ mishaps' = mishaps
           \/ mishaps' = mishaps + 1
    BY <1>5 DEF ReplyTimeout, GoOn, Fault, NoFault
  <2>2. pc \in DOMAIN CmdOf
    BY <2>1 DEF SocketInv
  <2> SUFFICES ASSUME mishaps' <= 1 PROVE ResetInv'
    BY DEF ResetInv
  <2>3. mishaps <= 1
    BY <1>a, <2>1
  <2>4. Recovered => Recovered' /\ wire = <<>>
    <3>1. Recovered => mishaps' = mishaps
      BY <1>a, <2>1 DEF Recovered
    <3>2. Outstanding' = Outstanding
      BY <2>1 DEF Outstanding
    <3>3. mishaps' = mishaps => Outstanding = 0 /\ wire = <<>>
      BY <1>a, <2>1, Count
    <3> QED
      BY <3>1, <3>2, <3>3 DEF Recovered, InStep
  <2>5. Promised("RESET_FPGA") => Promised("RESET_FPGA")'
    BY <2>1 DEF Promised
  <2>6. pc' = "sleep" => Promised("RESET_FPGA")' \/ Recovered'
    BY <2>1, <2>2, <2>3, <2>4, <2>5, Ways DEF ResetInv
  <2>7. pc' \in {"openRadar"} \cup Configuring => "RESET_FPGA" \in did' \/ Recovered'
    BY <2>1, <2>2, <2>3, <2>4, Ways DEF ResetInv
  <2>8. pc' \in Recording => "RESET_FPGA" \in did' \/ "RECORD_START" \in did'
    <3> SUFFICES ASSUME pc = "recordStart", "RESET_FPGA" \notin did
                 PROVE  "RECORD_START" \in did
      BY <2>1, <2>2, Ways
    <3>1. Recovered /\ Promised("RECORD_START")
      BY <2>1, <2>3, Ways DEF ResetInv
    <3> QED
      BY <2>4, <3>1, Numbers DEF Promised
  <2> QED
    BY <2>1, <2>6, <2>7, <2>8 DEF ResetInv
<1>6. ASSUME NEW raises \in BOOLEAN, Bind(raises) PROVE ResetInv'
  BY <1>6, <1>c, Table DEF Bind
<1>7. ASSUME NEW raises \in BOOLEAN, LocalStep(raises) PROVE ResetInv'
  <2>1. /\ UNCHANGED <<inq, back, wire, did, session, waiting>> /\ waiting = FALSE
        /\ mishaps' \in Nat /\ mishaps <= mishaps'
    BY <1>7, LocalEffect
  <2>2. (Promised("RESET_FPGA") => Promised("RESET_FPGA")') /\ Outstanding' = Outstanding
    BY <2>1 DEF Promised, Outstanding
  <2> SUFFICES ASSUME mishaps' <= 1 PROVE ResetInv'
    BY DEF ResetInv
  <2>3. mishaps <= 1
    BY <1>a, <2>1
  <2>4. /\ mishaps' = mishaps => (Recovered => Recovered')
        /\ waiting' = FALSE
    BY <2>1, <2>2 DEF Recovered, InStep
  <2>5. CASE Sleep
    <3>1. pc = "sleep" /\ pc' = "openRadar" /\ wire = <<>> /\ mishaps' = mishaps
      BY <2>5, Table DEF Sleep, GoOn, NoFault
    <3>2. "RESET_FPGA" \in did' \/ Recovered'
      BY <2>1, <2>3, <2>4, <3>1, Numbers DEF ResetInv, Promised
    <3> QED
      BY <2>4, <3>1, <3>2 DEF ResetInv, Recording
  <2>6. CASE OpenRadar(raises)
    <3>1. pc = "openRadar" /\ (pc' = "stopSensor" \/ (pc' = "alive" /\ mishaps' = mishaps))
      BY <2>6, Table DEF OpenRadar, GoOn, NoFault, Raise
    <3>2. pc' = "alive" => "RESET_FPGA" \in did' \/ Recovered'
      BY <2>1, <2>3, <2>4, <3>1 DEF ResetInv
    <3> QED
      BY <1>c, <2>4, <3>1, <3>2 DEF ResetInv, Recording
  <2>7. CASE Report /\ pc = "starting"
    <3>1. pc' = "bind" \/ pc' = "dead"
      BY <1>7, <2>7, LocalEffect, Table DEF Report, GoOn, Reports, Raise
    <3> QED
      BY <1>c, <3>1
  <2>8. CASE Report /\ pc = "configured"
    <3>1. (pc' = "stopSensor" \/ pc' = "recordStart") /\ mishaps' = mishaps
      BY <2>8, Table DEF Report, GoOn, Raise, NoFault
    <3>2. "RESET_FPGA" \in did' \/ Recovered'
      BY <2>1, <2>3, <2>4, <2>8, <3>1 DEF ResetInv, Configuring
    <3> QED
      BY <1>c, <2>4, <3>1, <3>2 DEF ResetInv, Recording
  <2>9. CASE \/ ThreadStart(raises) \/ StartSensor(raises) \/ Poll \/ Get
             \/ Report /\ pc \notin {"starting", "configured"}
    <3>1. pc \in Recording /\ (pc' = "stopSensor" \/ pc' = After[pc])
      BY <2>9, Table
      DEF ThreadStart, StartSensor, Poll, Get, Report, Reports, Recording, GoOn, Raise
    <3>2. pc' = "stopSensor" \/ pc' \in Recording
      BY <3>1, Table DEF Recording
    <3>3. "RESET_FPGA" \in did' \/ "RECORD_START" \in did'
      BY <2>1, <2>3, <3>1 DEF ResetInv
    <3>4. pc' \in Recording => pc' # "sleep" /\ pc' \notin {"openRadar"} \cup Configuring
      BY DEF Recording, Configuring
    <3> QED
      BY <1>c, <2>4, <3>2, <3>3, <3>4 DEF ResetInv
  <2>10. CASE StopSensor(raises) \/ ThreadStop
    BY <1>c, <2>10, Table DEF StopSensor, ThreadStop, GoOn
  <2> QED
    BY <1>7, <2>5, <2>6, <2>7, <2>8, <2>9, <2>10 DEF LocalStep
<1>8. ASSUME Close PROVE ResetInv'
  BY <1>8, <1>c, Table DEF Close, GoOn
<1>9. ASSUME NEW fate \in {"done", "refused", "lost"}, TakeRequest(fate)
      PROVE  ResetInv'
  <2>1. /\ UNCHANGED <<session, pc, waiting>> /\ did \subseteq did'
        /\ IF fate = "done" THEN mishaps' = mishaps ELSE mishaps' = mishaps + 1
    <3>1. UNCHANGED <<session, pc, waiting>>
      BY <1>9, TakeEffect
    <3>2. did \subseteq did'
      BY <1>9, TakeEffect
    <3>3. IF fate = "done" THEN mishaps' = mishaps ELSE mishaps' = mishaps + 1
      BY <1>9, TakeEffect DEF Fault
    <3> QED
      BY <3>1, <3>2, <3>3
  <2>2. Outstanding' \in {Outstanding, Outstanding - 1}
    BY <1>9, TakeMoves
  <2>3. CASE fate = "done"
    <3>1. \A c : Promised(c) => Promised(c)'
      BY <1>9, <2>1, <2>3, PromiseKept
    <3>2. Recovered => Recovered'
      BY <1>a, <2>1, <2>2, <2>3 DEF Recovered, InStep
    <3> QED
      BY <1>a, <1>b, <2>1, <2>3, <3>1, <3>2
  <2>4. CASE fate # "done"
    <3> SUFFICES ASSUME mishaps = 0 PROVE ResetInv'
      BY <1>a, <2>1, <2>4 DEF ResetInv
    <3>1. ~Recovered /\ mishaps <= 1
      BY DEF Recovered
    <3>2. pc \notin Down => Recovered'
      BY <1>a, <2>1, <2>2, <2>4 DEF StepInv, InStep, Recovered
    <3>3. pc \in Down => ResetInv'
      BY <1>c, <2>1 DEF Down
    <3>4. pc = "recordStart" => "RESET_FPGA" \in did
      BY <3>1, Ways DEF ResetInv
    <3>5. pc \in Recording => "RESET_FPGA" \in did \/ "RECORD_START" \in did
      BY <3>1 DEF ResetInv
    <3> QED
      BY <2>1, <3>2, <3>3, <3>4, <3>5 DEF ResetInv
  <2> QED
    BY <2>3, <2>4
<1>10. ASSUME NEW lost \in BOOLEAN, ReplyArrives(lost) PROVE ResetInv'
  <2>1. /\ UNCHANGED <<session, pc, waiting, wire, did>>
        /\ IF lost THEN mishaps' = mishaps + 1 ELSE mishaps' = mishaps
    BY <1>10, ArriveEffect DEF Fault
  <2>2. Outstanding' \in {Outstanding, Outstanding - 1}
    BY <1>10, ArriveMoves
  <2>3. \A c : Promised(c) => Promised(c)'
    BY <2>1 DEF Promised
  <2>4. CASE ~lost
    <3>1. Recovered => Recovered'
      BY <1>a, <2>1, <2>2, <2>4 DEF Recovered, InStep
    <3> QED
      BY <1>a, <1>b, <2>1, <2>3, <2>4, <3>1
  <2>5. CASE lost
    <3> SUFFICES ASSUME mishaps = 0 PROVE ResetInv'
      BY <1>a, <2>1, <2>5 DEF ResetInv
    <3>1. ~Recovered
      BY DEF Recovered
    <3> QED
      BY <1>a, <1>b, <2>1, <2>3, <2>5, <3>1
  <2> QED
    BY <2>4, <2>5
<1>11. ASSUME SendStop \/ StopArrives \/ CloseControl \/ Pump \/ Emit
      PROVE  ResetInv'
  <2>1. UNCHANGED <<session, pc, waiting, wire, did, inq, back, mishaps>>
    BY <1>11 DEF SendStop, StopArrives, CloseControl, Pump, Emit
  <2>2. (\A c : Promised(c) => Promised(c)') /\ (Recovered => Recovered')
    BY <2>1 DEF Promised, Recovered, InStep, Outstanding
  <2> QED
    BY <1>a, <1>b, <2>1, <2>2
<1> QED
  BY <1>1, <1>2, <1>3, <1>4, <1>5, <1>6, <1>7, <1>8, <1>9, <1>10, <1>11
  DEF Next, WorkerStep, NetStep, LocalStep

\* Every step keeps the end of a session quiet, up to one fault: when the radar was
\* not stopped the stop of the recording is the only thing under way.
LEMMA QuietStep ==
  ASSUME TypeOK, SocketInv, RadarInv, StepInv, QuietInv, Next
  PROVE  QuietInv'
<1>a. mishaps \in Nat /\ Outstanding \in Nat
  BY Numbers, Count
<1>b. ASSUME pc' = pc, UNCHANGED <<waiting, radar, bound, killed, wire, rec, mishaps>>,
             on' => on, InStep => InStep'
      PROVE  QuietInv'
  BY <1>b DEF QuietInv, Recovered
<1>c. ASSUME pc' \notin Cleanup \cup {"dead"} PROVE QuietInv'
  BY <1>c, Ends DEF QuietInv
<1>d. ASSUME pc' = "dead", ~bound' \/ killed' PROVE QuietInv'
  BY <1>d, Ends DEF QuietInv
<1>e. ASSUME pc' = "stopSensor", mishaps' <= 1 /\ ~radar' => InStep' PROVE QuietInv'
  BY <1>e DEF QuietInv
<1> USE DEF hostVars, dataVars, netVars, devVars, ctlVars, histVars, flowVars
<1>1. ASSUME StartWorker PROVE QuietInv'
  BY <1>1, <1>c, Ends DEF StartWorker
<1>2. ASSUME Kill PROVE QuietInv'
  BY <1>2, <1>d DEF Kill
<1>3. ASSUME NEW raises \in BOOLEAN, SendCommand(raises) PROVE QuietInv'
  <2>1. CASE raises
    <3>1. /\ UNCHANGED <<inq, wire, back, on, radar>> /\ mishaps' = mishaps + 1
          /\ pc' = IF pc \in Cleanup THEN After[pc] ELSE "stopSensor"
          /\ pc \in DOMAIN CmdOf /\ ~waiting /\ waiting' = FALSE
      BY <1>3, <2>1 DEF SendCommand, Raise, Fault
    <3>2. CASE pc \in Cleanup
      <4>1. pc = "recordStop"
        BY <3>1, <3>2, Ends
      <4>2. on /\ mishaps <= 1 => mishaps = 1
        BY <4>1 DEF QuietInv, Recovered
      <4> QED
        BY <1>a, <3>1, <4>2 DEF QuietInv
    <3>3. CASE pc \notin Cleanup
      <4>1. mishaps = 0 => InStep
        BY <3>1, Ends DEF StepInv
      <4>2. Outstanding' = Outstanding
        BY <3>1 DEF Outstanding
      <4>3. mishaps' <= 1 => InStep'
        BY <1>a, <3>1, <4>1, <4>2 DEF InStep
      <4> QED
        BY <1>e, <3>1, <3>3, <4>3
    <3> QED
      BY <3>2, <3>3
  <2>2. CASE ~raises
    <3>1. SendCommand(FALSE) /\ session # 0 /\ ~waiting
      BY <1>3, <2>2, Commands DEF SendCommand, SocketInv
    <3>2. /\ pc \in DOMAIN CmdOf /\ waiting' = TRUE
          /\ UNCHANGED <<pc, mishaps, on, radar>>
          /\ Len(wire') = Len(wire) + 1 /\ wire'[Len(wire) + 1].cmd = CmdOf[pc]
      BY <3>1, SendEffect
    <3>3. CASE pc \notin Cleanup
      BY <1>c, <3>2, <3>3, Ends DEF Down
    <3>4. CASE pc \in Cleanup
      <4>1. pc = "recordStop" /\ wire'[Len(wire) + 1].cmd = "RECORD_STOP"
        BY <3>2, <3>4, Ends, Commands
      <4>2. Outstanding' = Outstanding + 1
        BY <3>1, SendMoves
      <4>3. InStep => InStep' /\ Len(wire) = 0
        <5>1. InStep => Outstanding = 0
          BY <1>a, <3>1 DEF InStep
        <5> QED
          BY <1>a, <3>2, <4>2, <5>1, Count, Numbers DEF InStep
      <4>4. mishaps' <= 1 /\ on' => Recovered' /\ wire'[1].cmd = "RECORD_STOP"
        BY <3>2, <4>1, <4>3 DEF QuietInv, Recovered
      <4>5. wire' # <<>>
        BY <3>1 DEF SendCommand, TypeOK
      <4> QED
        BY <3>2, <4>1, <4>4, <4>5 DEF QuietInv, Recovered
    <3> QED
      BY <3>3, <3>4
  <2> QED
    BY <2>1, <2>2
<1>4. ASSUME ReceiveReply PROVE QuietInv'
  <2>1. /\ Outstanding' = Outstanding - 1 /\ Len(inq) \in Nat \ {0}
        /\ UNCHANGED <<wire, rec, on, mishaps>>
        /\ pc' = After[pc] /\ waiting /\ ~waiting'
    BY <1>4, ReceiveMoves, ReceiveEffect DEF GoOn
  <2>2. pc \in DOMAIN CmdOf
    BY <2>1 DEF SocketInv
  <2>3. CASE pc # "recordStop"
    BY <1>c, <2>1, <2>2, <2>3, Ends
  <2>4. CASE pc = "recordStop"
    <3>1. pc' = "close"
      BY <2>1, <2>4, Table
    <3>2. Recovered => Recovered' /\ wire = <<>>
      BY <1>a, <2>1, Numbers DEF Recovered, InStep, Outstanding
    <3>3. mishaps' <= 1 /\ on' => Recovered' /\ wire' = <<>> /\ rec' = 0
      BY <2>1, <2>4, <3>2 DEF QuietInv
    <3> QED
      BY <3>1, <3>3 DEF QuietInv, Recovered
  <2> QED
    BY <2>3, <2>4
<1>5. ASSUME ReplyTimeout PROVE QuietInv'
  <2>1. /\ UNCHANGED <<inq, wire, back, rec, on>> /\ inq = <<>>
        /\ pc' = After[pc] /\ waiting /\ ~waiting'
        /\ \/ wire = <<>> /\ back = <<>> /\ mishaps' = mishaps
           \/ mishaps' = mishaps + 1
    BY <1>5 DEF ReplyTimeout, GoOn, Fault, NoFault
  <2>2. pc \in DOMAIN CmdOf
    BY <2>1 DEF SocketInv
  <2>3. CASE pc # "recordStop"
    BY <1>c, <2>1, <2>2, <2>3, Ends
  <2>4. CASE pc = "recordStop"
    <3>1. pc' = "close"
      BY <2>1, <2>4, Table
    <3> SUFFICES ASSUME mishaps' <= 1, on' PROVE Recovered' /\ wire' = <<>> /\ rec' = 0
      BY <3>1 DEF QuietInv, Recovered
    <3>2. mishaps <= 1 /\ on
      BY <1>a, <2>1
    <3>3. mishaps = 1
      BY <2>4, <3>2 DEF QuietInv, Recovered
    <3>4. wire = <<>> /\ back = <<>> /\ mishaps' = mishaps
      BY <2>1, <3>3
    <3>5. Outstanding' = 0
      BY <2>1, <3>4, Count DEF Outstanding
    <3> QED
      BY <2>1, <2>4, <3>2, <3>3, <3>4, <3>5 DEF QuietInv, Recovered, InStep
  <2> QED
    BY <2>3, <2>4
<1>6. ASSUME NEW raises \in BOOLEAN, Bind(raises) PROVE QuietInv'
  <2>1. CASE raises
    BY <1>6, <2>1, <1>d DEF Bind
  <2>2. CASE ~raises
    BY <1>6, <2>2, <1>c, Ends, Table DEF Bind
  <2> QED
    BY <2>1, <2>2
<1>7. ASSUME NEW raises \in BOOLEAN, LocalStep(raises) PROVE QuietInv'
  <2>1. /\ UNCHANGED <<inq, back, wire, waiting, bound, killed, rec>> /\ waiting = FALSE
        /\ mishaps' \in Nat /\ mishaps <= mishaps'
    BY <1>7, LocalEffect
  <2>2. Outstanding' = Outstanding /\ (InStep => InStep')
    BY <2>1 DEF Outstanding, InStep
  <2>3. CASE Sleep \/ Get
    <3>1. pc' \in {"openRadar", "send"}
      BY <2>3, Table DEF Sleep, Get, GoOn
    <3> QED
      BY <1>c, <3>1, Table
  <2>4. CASE OpenRadar(raises)
    <3>1. /\ pc = "openRadar"
          /\ \/ pc' = "alive"
             \/ pc' = "stopSensor" /\ mishaps' = mishaps + 1
      BY <2>4, Table DEF OpenRadar, GoOn, Raise, Fault
    <3>2. mishaps = 0 => InStep
      BY <3>1 DEF StepInv, Down
    <3>3. mishaps' = mishaps + 1 /\ mishaps' <= 1 => InStep'
      BY <1>a, <2>2, <3>2
    <3> QED
      BY <1>c, <1>e, <3>1, <3>3, Table
  <2>5. CASE Report /\ pc = "starting"
    <3>1. pc' \in {"bind", "dead"}
      BY <2>5, Table DEF Report, GoOn, Raise
    <3>2. ~bound'
      BY <2>1, <2>5 DEF SocketInv
    <3> QED
      BY <1>c, <1>d, <3>1, <3>2, Ends
  <2>6. CASE \/ ThreadStart(raises) \/ StartSensor(raises) \/ Poll
             \/ Report /\ pc # "starting"
    <3>1. pc \in Configuring \cup Recording /\ pc # "recordStart" /\ radar' = radar
      BY <2>6
      DEF ThreadStart, StartSensor, Poll, Report, Reports, Configuring, Recording
    <3>2. pc' = "stopSensor" \/ pc' = After[pc]
      BY <2>6, <3>1, Table
      DEF ThreadStart, StartSensor, Poll, Report, GoOn, Raise, Configuring, Recording
    <3>3. After[pc] \notin Cleanup \cup {"dead"}
      BY <3>1, Table DEF Configuring, Recording
    <3>4. radar'
      BY <3>1 DEF RadarInv
    <3> QED
      BY <1>c, <1>e, <3>2, <3>3, <3>4
  <2>7. CASE StopSensor(raises)
    <3>1. /\ pc = "stopSensor" /\ pc' = "threadStop" /\ radar' = radar
          /\ on' = (on /\ (raises \/ ~radar))
          /\ IF raises THEN mishaps' = mishaps + 1 ELSE mishaps' = mishaps
      BY <2>7, Table DEF StopSensor, GoOn, Fault, NoFault
    <3> SUFFICES ASSUME mishaps' <= 1, on' PROVE Recovered'
      BY <3>1, Ends DEF QuietInv, Recovered
    <3>2. CASE raises
      <4>1. mishaps = 0
        BY <1>a, <3>1, <3>2
      <4>2. InStep
        BY <3>1, <4>1 DEF StepInv, Down
      <4> QED
        BY <2>2, <3>1, <3>2, <4>1, <4>2 DEF Recovered
    <3>3. CASE ~raises
      <4>1. on /\ ~radar /\ mishaps <= 1 /\ mishaps' = mishaps
        BY <3>1, <3>3
      <4>2. mishaps = 1
        BY <1>a, <3>1, <4>1, Table DEF RadarInv
      <4>3. InStep
        BY <3>1, <4>1, Table DEF QuietInv
      <4> QED
        BY <2>2, <4>1, <4>2, <4>3 DEF Recovered
    <3> QED
      BY <3>2, <3>3
  <2>8. CASE ThreadStop
    <3>1. /\ pc = "threadStop" /\ pc' = "recordStop" /\ mishaps' = mishaps /\ on' = on
      BY <2>8, Table DEF ThreadStop, GoOn, NoFault
    <3> QED
      BY <2>1, <2>2, <3>1, Ends DEF QuietInv, Recovered
  <2> QED
    BY <1>7, <2>3, <2>4, <2>5, <2>6, <2>7, <2>8 DEF LocalStep
<1>8. ASSUME Close PROVE QuietInv'
  <2>1. /\ pc = "close" /\ pc' = "dead" /\ UNCHANGED <<on, wire, rec>>
        /\ mishaps' = mishaps
    BY <1>8, Table DEF Close, GoOn, NoFault
  <2> QED
    BY <2>1, Ends DEF QuietInv
<1>9. ASSUME NEW fate \in {"done", "refused", "lost"}, TakeRequest(fate)
      PROVE  QuietInv'
  <2>1. /\ UNCHANGED <<pc, waiting, radar, bound, killed>> /\ (on' => on)
        /\ IF fate = "done" THEN mishaps' = mishaps ELSE mishaps' = mishaps + 1
        /\ wire # <<>>
    <3>1. UNCHANGED <<pc, waiting, radar, bound, killed>>
      BY <1>9, TakeEffect
    <3>2. on' => on
      BY <1>9, TakeEffect
    <3>3. IF fate = "done" THEN mishaps' = mishaps ELSE mishaps' = mishaps + 1
      BY <1>9, TakeEffect DEF Fault
    <3> QED
      BY <1>9, <3>1, <3>2, <3>3 DEF TakeRequest
  <2>2. Outstanding' \in {Outstanding, Outstanding - 1}
    BY <1>9, TakeMoves
  <2>3. InStep => InStep'
    BY <1>a, <2>1, <2>2 DEF InStep
  <2>4. CASE fate = "done"
    <3>1. /\ wire' \in Seq(Requests) /\ Len(wire') = Len(wire) - 1
          /\ wire[1].cmd = "RECORD_STOP" => rec' = 0
      BY <1>9, <2>4, TakeEffect
    <3>2. pc = "recordStop" /\ waiting /\ mishaps <= 1 /\ on => wire' = <<>> /\ rec' = 0
      <4> SUFFICES ASSUME pc = "recordStop", waiting, mishaps <= 1, on
                   PROVE  wire' = <<>> /\ rec' = 0
        OBVIOUS
      <4>1. wire[1].cmd = "RECORD_STOP" /\ Outstanding <= 1
        BY <2>1 DEF QuietInv, Recovered, InStep
      <4>2. Len(wire) \in Nat /\ Len(wire) # 0 /\ Len(wire) <= 1
        BY <2>1, <4>1, Numbers DEF Outstanding
      <4>3. wire' = <<>>
        BY <3>1, <4>2, EmptySeq
      <4> QED
        BY <3>1, <4>1, <4>3
    <3> QED
      BY <2>1, <2>3, <2>4, <3>2 DEF QuietInv, Recovered
  <2>9. CASE fate # "done"
    <3> SUFFICES ASSUME mishaps' <= 1, on'
                 PROVE  /\ pc' \in Cleanup /\ ~radar' => InStep'
                        /\ pc' \in {"threadStop", "recordStop", "close"} => Recovered'
                        /\ pc' = "recordStop" /\ waiting' =>
                             IF wire' = <<>> THEN rec' = 0
                             ELSE wire'[1].cmd = "RECORD_STOP"
                        /\ pc' = "close" \/ (pc' = "dead" /\ bound' /\ ~killed') =>
                             wire' = <<>> /\ rec' = 0
      BY DEF QuietInv
    <3>1. mishaps = 0 /\ mishaps <= 1 /\ on
      BY <1>a, <2>1, <2>9
    <3>2. ~Recovered
      BY <3>1 DEF Recovered
    <3>3. pc \notin {"threadStop", "recordStop", "close"}
      BY <3>1, <3>2 DEF QuietInv
    <3>4. pc \in Cleanup => radar
      BY <3>1 DEF RadarInv
    <3>5. pc = "dead" /\ bound /\ ~killed => wire = <<>> /\ rec = 0
      BY <3>1 DEF QuietInv
    <3> QED
      BY <2>1, <2>9, <3>1, <3>3, <3>4, <3>5

  <2> QED
    BY <2>4, <2>9
<1>10. ASSUME NEW lost \in BOOLEAN, ReplyArrives(lost) PROVE QuietInv'
  <2>1. /\ UNCHANGED <<pc, waiting, radar, bound, killed, on, wire, rec>>
        /\ IF lost THEN mishaps' = mishaps + 1 ELSE mishaps' = mishaps
    BY <1>10, ArriveEffect DEF Fault
  <2>2. Outstanding' \in {Outstanding, Outstanding - 1}
    BY <1>10, ArriveMoves
  <2>3. InStep => InStep'
    BY <1>a, <2>1, <2>2 DEF InStep
  <2>4. CASE ~lost
    BY <1>b, <2>1, <2>3, <2>4
  <2>9. CASE lost
    <3> SUFFICES ASSUME mishaps' <= 1, on'
                 PROVE  /\ pc' \in Cleanup /\ ~radar' => InStep'
                        /\ pc' \in {"threadStop", "recordStop", "close"} => Recovered'
                        /\ pc' = "recordStop" /\ waiting' =>
                             IF wire' = <<>> THEN rec' = 0
                             ELSE wire'[1].cmd = "RECORD_STOP"
                        /\ pc' = "close" \/ (pc' = "dead" /\ bound' /\ ~killed') =>
                             wire' = <<>> /\ rec' = 0
      BY DEF QuietInv
    <3>1. mishaps = 0 /\ mishaps <= 1 /\ on
      BY <1>a, <2>1, <2>9
    <3>2. ~Recovered
      BY <3>1 DEF Recovered
    <3>3. pc \notin {"threadStop", "recordStop", "close"}
      BY <3>1, <3>2 DEF QuietInv
    <3>4. pc \in Cleanup => radar
      BY <3>1 DEF RadarInv
    <3>5. pc = "dead" /\ bound /\ ~killed => wire = <<>> /\ rec = 0
      BY <3>1 DEF QuietInv
    <3> QED
      BY <2>1, <2>9, <3>1, <3>3, <3>4, <3>5

  <2> QED
    BY <2>4, <2>9
<1>11. ASSUME SendStop \/ StopArrives \/ CloseControl \/ Pump \/ Emit
      PROVE  QuietInv'
  <2>1. /\ UNCHANGED <<pc, waiting, radar, bound, killed, on, wire, rec, mishaps>>
        /\ UNCHANGED <<inq, back>>
    BY <1>11 DEF SendStop, StopArrives, CloseControl, Pump, Emit
  <2>2. InStep => InStep'
    BY <2>1 DEF InStep, Outstanding
  <2> QED
    BY <1>b, <2>1, <2>2
<1> QED
  BY <1>1, <1>2, <1>3, <1>4, <1>5, <1>6, <1>7, <1>8, <1>9, <1>10, <1>11
  DEF Next, WorkerStep, NetStep, LocalStep

\* Every step keeps the stream of a clean session its own.
LEMMA StreamStep ==
  ASSUME TypeOK, SocketInv, RecordInv, ResetInv, QuietInv, StreamInv, Next
  PROVE  StreamInv'
<1>a. mishaps \in Nat
  BY Numbers
<1>b. ASSUME UNCHANGED <<pc, session, killed, wire, rec>>, on' => on, Clean' => Clean
      PROVE  StreamInv'
  BY <1>b DEF StreamInv, OwnRequest
<1>c. ASSUME pc \in Down, pc' \in Down, UNCHANGED <<killed, wire, rec, on>>,
             Clean' => Clean
      PROVE  StreamInv'
  BY <1>c DEF StreamInv
<1>d. ASSUME pc \notin Down, pc' \notin Down, UNCHANGED <<session, killed, wire, rec>>,
             on' => on, Clean' => Clean
      PROVE  StreamInv'
  BY <1>d DEF StreamInv, OwnRequest
<1>e. /\ \A p \in DOMAIN CmdOf : p \notin Down /\ After[p] \notin Down
      /\ "dead" \in Down /\ "starting" \in Down /\ "bind" \in Down
      /\ "stopSensor" \notin Down /\ "resetRadar" \notin Down
  BY Table, Commands DEF Down
<1> USE DEF hostVars, dataVars, netVars, devVars, ctlVars, histVars, flowVars
<1>1. ASSUME StartWorker PROVE StreamInv'
  <2>1. /\ pc = "dead" /\ pc' = "starting" /\ UNCHANGED <<wire, rec, on>>
        /\ unclean' = (unclean \/ killed \/ mishaps > 1)
    BY <1>1 DEF StartWorker
  <2>2. ~unclean' => ~unclean /\ ~killed /\ ~(mishaps > 1)
    BY <2>1
  <2>3. Clean' => Clean /\ ~killed
    BY <1>a, <2>2 DEF Clean
  <2> QED
    BY <1>e, <2>1, <2>3 DEF StreamInv
<1>2. ASSUME Kill PROVE StreamInv'
  BY <1>2 DEF Kill, StreamInv
<1>3. ASSUME NEW raises \in BOOLEAN, SendCommand(raises) PROVE StreamInv'
  <2>1. CASE raises
    <3>1. /\ pc \in DOMAIN CmdOf /\ UNCHANGED <<wire, rec, on, killed, session, unclean>>
          /\ mishaps' = mishaps + 1
          /\ pc' = IF pc \in Cleanup THEN After[pc] ELSE "stopSensor"
      BY <1>3, <2>1 DEF SendCommand, Raise, Fault
    <3>2. Clean' => Clean
      BY <1>a, <3>1, CleanStep
    <3> QED
      BY <1>d, <1>e, <3>1, <3>2
  <2>2. CASE ~raises
    <3>1. SendCommand(FALSE) /\ session # 0
      BY <1>3, <2>2, Commands DEF SendCommand, SocketInv
    <3>2. /\ pc \in DOMAIN CmdOf
          /\ UNCHANGED <<pc, mishaps, unclean, on, rec, killed, session>>
          /\ Len(wire') = Len(wire) + 1 /\ wire'[Len(wire) + 1].by = session
          /\ \A i \in 1..Len(wire) : wire'[i] = wire[i]
      BY <3>1, SendEffect
    <3>3. Clean' => Clean
      BY <3>2 DEF Clean
    <3> QED
      BY <1>e, <3>2, <3>3, Numbers DEF StreamInv, OwnRequest
  <2> QED
    BY <2>1, <2>2
<1>4. ASSUME ReceiveReply PROVE StreamInv'
  <2>1. /\ UNCHANGED <<wire, rec, on, killed, session, unclean, mishaps>>
        /\ pc' = After[pc] /\ waiting
    BY <1>4, ReceiveEffect DEF GoOn
  <2>2. pc \notin Down /\ pc' \notin Down
    BY <1>e, <2>1 DEF SocketInv
  <2> QED
    BY <1>d, <2>1, <2>2 DEF Clean
<1>5. ASSUME ReplyTimeout PROVE StreamInv'
  <2>1. /\ UNCHANGED <<wire, rec, on, killed, session, unclean>>
        /\ pc' = After[pc] /\ waiting /\ mishaps' \in Nat /\ mishaps <= mishaps'
    BY <1>5, <1>a DEF ReplyTimeout, GoOn, Fault, NoFault
  <2>2. pc \notin Down /\ pc' \notin Down
    BY <1>e, <2>1 DEF SocketInv
  <2>3. Clean' => Clean
    BY <2>1, CleanStep
  <2> QED
    BY <1>d, <2>1, <2>2, <2>3
<1>6. ASSUME NEW raises \in BOOLEAN, Bind(raises) PROVE StreamInv'
  <2>1. /\ pc = "bind" /\ UNCHANGED <<wire, rec, on, killed, session, unclean>>
        /\ mishaps' \in Nat /\ mishaps <= mishaps'
        /\ pc' = IF raises THEN "dead" ELSE "resetRadar"
    BY <1>6, <1>a, Table DEF Bind, Fault, NoFault
  <2>2. Clean' => Clean
    BY <2>1, CleanStep
  <2>3. CASE raises
    BY <1>c, <1>e, <2>1, <2>2, <2>3
  <2>4. CASE ~raises
    <3>1. pc' = "resetRadar"
      BY <2>1, <2>4
    <3>2. Len(wire) = 0 \/ wire # <<>>
      BY Numbers
    <3> QED
      BY <1>e, <2>1, <2>2, <3>1, <3>2 DEF StreamInv
  <2> QED
    BY <2>3, <2>4
<1>7. ASSUME NEW raises \in BOOLEAN, LocalStep(raises) PROVE StreamInv'
  <2>1. /\ UNCHANGED <<wire, session, killed, rec, unclean>>
        /\ mishaps' \in Nat /\ mishaps <= mishaps'
    BY <1>7, LocalEffect
  <2>2. Clean' => Clean
    BY <2>1, CleanStep
  <2>3. pc = "starting" <=> pc' \in Down
    BY <1>7, LocalEffect
  <2>4. pc # "starting" => pc \notin Down
    BY <1>7, LocalEffect DEF Down
  <2>5. CASE StartSensor(raises)
    <3>1. pc = "sensorStart"
      BY <2>5 DEF StartSensor
    <3>2. mishaps <= 1 => rec \in {0, session} /\ \A i \in 1..Len(wire) : OwnRequest(wire[i])
      BY <3>1 DEF ResetInv, RecordInv, Recording
    <3> QED
      BY <2>1, <2>2, <2>3, <3>1, <3>2 DEF StreamInv, Clean, OwnRequest
  <2>6. CASE ~StartSensor(raises)
    <3>1. on' => on
      BY <1>7, <2>6
      DEF LocalStep, Sleep, OpenRadar, ThreadStart, Poll, Get, Report, StopSensor, ThreadStop
    <3>2. pc = "starting" => on' = on
      BY <1>7, <2>6
      DEF LocalStep, Sleep, OpenRadar, ThreadStart, Poll, Get, Report, StopSensor, ThreadStop
    <3> QED
      BY <1>c, <1>d, <1>e, <2>1, <2>2, <2>3, <2>4, <3>1, <3>2
  <2> QED
    BY <2>5, <2>6
<1>8. ASSUME Close PROVE StreamInv'
  <2>1. /\ pc = "close" /\ pc' = "dead"
        /\ UNCHANGED <<wire, rec, on, killed, unclean, mishaps>>
    BY <1>8, Table DEF Close, GoOn, NoFault
  <2> QED
    BY <1>e, <2>1 DEF StreamInv, QuietInv, Clean
<1>9. ASSUME NEW fate \in {"done", "refused", "lost"}, TakeRequest(fate)
      PROVE  StreamInv'
  <2>1. /\ UNCHANGED <<pc, session, killed, unclean>>
        /\ mishaps' \in Nat /\ mishaps <= mishaps'
        /\ wire # <<>>
    <3>1. UNCHANGED <<pc, session, killed, unclean>>
      BY <1>9, TakeEffect
    <3>2. mishaps' = mishaps \/ mishaps' = mishaps + 1
      BY <1>9, TakeEffect DEF Fault
    <3> QED
      BY <1>9, <1>a, <3>1, <3>2 DEF TakeRequest
  <2>2. Clean' => Clean
    BY <2>1, CleanStep
  <2>3. /\ Len(wire) \in Nat \ {0} /\ Len(wire') = Len(wire) - 1
        /\ \A i \in 1..Len(wire') : i + 1 \in 1..Len(wire) /\ wire'[i] = wire[i + 1]
        /\ rec' \in {0, rec, wire[1].by}
    BY <1>9, TakeEffect
  <2>4. on' => on
    BY <1>9, TakeEffect
  <2> QED
    BY <2>1, <2>2, <2>3, <2>4 DEF StreamInv, OwnRequest
<1>10. ASSUME NEW lost \in BOOLEAN, ReplyArrives(lost) PROVE StreamInv'
  <2>1. UNCHANGED <<pc, session, killed, unclean, wire, rec, on>>
    BY <1>10, ArriveEffect
  <2>2. mishaps' = mishaps \/ mishaps' = mishaps + 1
    BY <1>10, ArriveEffect DEF Fault
  <2>3. Clean' => Clean
    BY <1>a, <2>1, <2>2, CleanStep
  <2> QED
    BY <1>b, <2>1, <2>3
<1>11. ASSUME SendStop \/ StopArrives \/ CloseControl \/ Pump \/ Emit
      PROVE  StreamInv'
  <2>1. UNCHANGED <<pc, session, killed, unclean, wire, rec, on, mishaps>>
    BY <1>11 DEF SendStop, StopArrives, CloseControl, Pump, Emit
  <2> QED
    BY <1>b, <2>1 DEF Clean
<1> QED
  BY <1>1, <1>2, <1>3, <1>4, <1>5, <1>6, <1>7, <1>8, <1>9, <1>10, <1>11
  DEF Next, WorkerStep, NetStep, LocalStep

\* Every step keeps the packets of a clean session its own.
LEMMA PacketStep ==
  ASSUME TypeOK, SocketInv, StreamInv, PacketInv, Next
  PROVE  PacketInv'
<1>a. mishaps \in Nat
  BY Numbers
<1>b. ASSUME kernel' \subseteq kernel, ring' \subseteq ring, shown' \subseteq shown,
             UNCHANGED session, Clean' => Clean
      PROVE  PacketInv'
  BY <1>b DEF PacketInv
<1>c. ASSUME UNCHANGED <<session, unclean>>, mishaps' = mishaps \/ mishaps' = mishaps + 1
      PROVE  UNCHANGED session /\ (Clean' => Clean)
  BY <1>a, <1>c, CleanStep
<1> USE DEF hostVars, dataVars, netVars, devVars, ctlVars, histVars, flowVars
<1>1. ASSUME StartWorker PROVE PacketInv'
  BY <1>1 DEF StartWorker, PacketInv, SocketInv, Down
<1>2. ASSUME Kill PROVE PacketInv'
  BY <1>2, <1>b DEF Kill, Clean
<1>3. ASSUME NEW raises \in BOOLEAN, SendCommand(raises) PROVE PacketInv'
  <2>1. CASE raises
    BY <1>3, <2>1, <1>b, <1>c DEF SendCommand, Fault, NoFault, Raise
  <2>2. CASE ~raises
    BY <1>3, <2>2, <1>b, <1>c DEF SendCommand, Fault, NoFault
  <2> QED
    BY <2>1, <2>2
<1>4. ASSUME ReceiveReply PROVE PacketInv'
  BY <1>4, <1>b, <1>c DEF ReceiveReply, Fault, NoFault, GoOn
<1>5. ASSUME ReplyTimeout PROVE PacketInv'
  BY <1>5, <1>b, <1>c DEF ReplyTimeout, Fault, NoFault, GoOn
<1>6. ASSUME NEW raises \in BOOLEAN, Bind(raises) PROVE PacketInv'
  <2>1. CASE raises
    BY <1>6, <2>1, <1>b, <1>c DEF Bind, Fault, NoFault, Raise
  <2>2. CASE ~raises
    BY <1>6, <2>2, <1>b, <1>c DEF Bind, Fault, NoFault
  <2> QED
    BY <2>1, <2>2
<1>7. ASSUME NEW raises \in BOOLEAN, LocalStep(raises) PROVE PacketInv'
  <2>1. UNCHANGED <<session, unclean, kernel>> /\ mishaps' \in Nat /\ mishaps <= mishaps'
    BY <1>7, LocalEffect
  <2>2. Clean' => Clean
    BY <2>1, CleanStep
  <2>3. CASE Get
    BY <2>1, <2>2, <2>3 DEF Get, PacketInv
  <2>4. CASE ~Get
    <3>1. ring' \subseteq ring /\ shown' \subseteq shown
      BY <1>7, <2>4
      DEF LocalStep, Sleep, OpenRadar, ThreadStart, StartSensor, Poll, Report, StopSensor,
          ThreadStop
    <3> QED
      BY <1>b, <2>1, <2>2, <3>1
  <2> QED
    BY <2>3, <2>4
<1>8. ASSUME Close PROVE PacketInv'
  BY <1>8, <1>b, <1>c DEF Close, Fault, NoFault, GoOn
<1>9. ASSUME NEW fate \in {"done", "refused", "lost"}, TakeRequest(fate)
      PROVE  PacketInv'
  <2>1. UNCHANGED <<kernel, ring, shown, session, unclean>>
    BY <1>9, TakeEffect
  <2>2. mishaps' = mishaps \/ mishaps' = mishaps + 1
    BY <1>9, TakeEffect DEF Fault
  <2> QED
    BY <1>b, <1>c, <2>1, <2>2
<1>10. ASSUME NEW lost \in BOOLEAN, ReplyArrives(lost) PROVE PacketInv'
  <2>1. UNCHANGED <<kernel, ring, shown, session, unclean>>
    BY <1>10, ArriveEffect
  <2>2. mishaps' = mishaps \/ mishaps' = mishaps + 1
    BY <1>10, ArriveEffect DEF Fault
  <2> QED
    BY <1>b, <1>c, <2>1, <2>2
<1>11. ASSUME SendStop \/ StopArrives \/ CloseControl \/ Pump \/ Emit
      PROVE  PacketInv'
  <2>1. UNCHANGED <<session, unclean, mishaps, shown>>
    BY <1>11 DEF SendStop, StopArrives, CloseControl, Pump, Emit
  <2>2. CASE Emit
    <3>1. kernel' = kernel \cup {rec} /\ ring' = ring /\ on /\ rec # 0 /\ sock
      BY <2>2 DEF Emit, Emitting
    <3>2. pc \notin Down /\ ~killed
      BY <3>1 DEF SocketInv
    <3> QED
      BY <2>1, <3>1, <3>2 DEF PacketInv, StreamInv, Clean
  <2>3. CASE Pump
    BY <2>1, <2>3 DEF Pump, PacketInv, Clean
  <2>4. CASE ~Emit /\ ~Pump
    BY <1>11, <1>b, <2>1, <2>4 DEF SendStop, StopArrives, CloseControl, Clean
  <2> QED
    BY <2>2, <2>3, <2>4
<1> QED
  BY <1>1, <1>2, <1>3, <1>4, <1>5, <1>6, <1>7, <1>8, <1>9, <1>10, <1>11
  DEF Next, WorkerStep, NetStep, LocalStep

\* Every step keeps what a clean session leaves behind to one stop of the recording.
LEMMA LeftStep ==
  ASSUME TypeOK, SocketInv, FewInv, LastInv, LeftInv, Next
  PROVE  LeftInv'
<1>a. mishaps \in Nat
  BY Numbers
<1>b. ASSUME UNCHANGED <<back, wire, killed>>, pc \in Down, Clean' => Clean
      PROVE  LeftInv'
  BY <1>b DEF LeftInv, IsStop
<1>c. ASSUME pc' \notin Down PROVE LeftInv'
  BY <1>c DEF LeftInv
<1>d. \A p \in DOMAIN CmdOf : p \notin Down /\ After[p] \notin Down
  BY Table, Commands DEF Down
<1>e. Len(inq) \in Nat /\ Len(back) \in Nat /\ Len(wire) \in Nat
  BY Numbers
<1> USE DEF hostVars, dataVars, netVars, devVars, ctlVars, histVars, flowVars
<1>1. ASSUME StartWorker PROVE LeftInv'
  <2>1. /\ pc = "dead" /\ UNCHANGED <<wire, back>>
        /\ unclean' = (unclean \/ killed \/ mishaps > 1)
    BY <1>1 DEF StartWorker
  <2>2. ~unclean' => ~unclean /\ ~killed /\ ~(mishaps > 1)
    BY <2>1
  <2>3. Clean' => Clean /\ ~killed
    BY <1>a, <2>2 DEF Clean
  <2> QED
    BY <2>1, <2>3 DEF LeftInv, IsStop, Down
<1>2. ASSUME Kill PROVE LeftInv'
  BY <1>2 DEF Kill, LeftInv
<1>3. ASSUME NEW raises \in BOOLEAN, SendCommand(raises) PROVE LeftInv'
  <2>1. CASE raises
    <3>1. /\ pc \in DOMAIN CmdOf /\ UNCHANGED <<inq, wire, back, did, session, unclean>>
          /\ mishaps' = mishaps + 1 /\ ~waiting /\ waiting' = FALSE
          /\ pc' = IF pc \in Cleanup THEN After[pc] ELSE "stopSensor"
      BY <1>3, <2>1 DEF SendCommand, Raise, Fault
    <3>2. Clean' => Clean
      BY <1>a, <3>1, CleanStep

    <3> QED
      BY <1>c, <1>d, <3>1 DEF Down

  <2>2. CASE ~raises
    <3>1. SendCommand(FALSE) /\ session # 0 /\ ~waiting
      BY <1>3, <2>2, Commands DEF SendCommand, SocketInv
    <3>2. /\ pc \in DOMAIN CmdOf /\ waiting' = TRUE
          /\ UNCHANGED <<pc, mishaps, unclean, session, inq, back, did>>
          /\ Len(wire') = Len(wire) + 1 /\ wire'[Len(wire) + 1].cmd = CmdOf[pc]
          /\ wire'[Len(wire) + 1].by = session
          /\ \A i \in 1..Len(wire) : wire'[i] = wire[i]
      BY <3>1, SendEffect
    <3>3. Outstanding' = Outstanding + 1 /\ (AllOwn => AllOwn')
      BY <3>1, SendMoves
    <3>4. Clean' => Clean
      BY <3>2 DEF Clean

    <3> QED
      BY <1>c, <1>d, <3>2
  <2> QED
    BY <2>1, <2>2
<1>4. ASSUME ReceiveReply PROVE LeftInv'
  <2>1. /\ Outstanding' = Outstanding - 1 /\ Len(inq) \in Nat \ {0}
        /\ Len(inq') = Len(inq) - 1
        /\ \A i \in 1..Len(inq') : i + 1 \in 1..Len(inq) /\ inq'[i] = inq[i + 1]
        /\ UNCHANGED <<wire, back, did, session, mishaps, unclean>>
        /\ pc' = After[pc] /\ waiting /\ ~waiting'
    BY <1>4, ReceiveMoves, ReceiveEffect DEF GoOn
  <2>2. pc \in DOMAIN CmdOf
    BY <2>1 DEF SocketInv
  <2>3. Clean' => Clean
    BY <2>1 DEF Clean

  <2> QED
    BY <1>c, <1>d, <2>1, <2>2
<1>5. ASSUME ReplyTimeout PROVE LeftInv'
  <2>1. /\ UNCHANGED <<inq, wire, back, session, unclean, did, sock>> /\ inq = <<>>
        /\ pc' = After[pc] /\ waiting /\ ~waiting'
        /\ \/ wire = <<>> /\ back = <<>> /\ mishaps' = mishaps
           \/ mishaps' = mishaps + 1
    BY <1>5 DEF ReplyTimeout, GoOn, Fault, NoFault
  <2>2. pc \in DOMAIN CmdOf
    BY <2>1 DEF SocketInv
  <2>3. mishaps' = mishaps \/ mishaps' = mishaps + 1
    BY <2>1
  <2>4. Clean' => Clean
    BY <1>a, <2>1, <2>3, CleanStep

  <2> QED
    BY <1>c, <1>d, <2>1, <2>2
<1>6. ASSUME NEW raises \in BOOLEAN, Bind(raises) PROVE LeftInv'
  <2>1. /\ pc = "bind"
        /\ UNCHANGED <<wire, back, inq, session, unclean, waiting, killed, did>>
        /\ pc' = IF raises THEN "dead" ELSE "resetRadar"
        /\ mishaps' = mishaps \/ mishaps' = mishaps + 1
        /\ raises \/ (wire = <<>> /\ back = <<>>) \/ mishaps' = mishaps + 1
    BY <1>6, Table DEF Bind, Fault, NoFault
  <2>2. Clean' => Clean
    BY <1>a, <2>1, CleanStep
  <2>3. inq = <<>> /\ ~killed /\ ~waiting
    BY <2>1 DEF SocketInv, Down

  <2> QED
    BY <1>b, <2>1, <2>2 DEF Down
<1>7. ASSUME NEW raises \in BOOLEAN, LocalStep(raises) PROVE LeftInv'
  <2>1. /\ UNCHANGED <<inq, back, wire, did, session, waiting, unclean, killed>>
        /\ waiting = FALSE /\ mishaps' \in Nat /\ mishaps <= mishaps'
    BY <1>7, LocalEffect
  <2>2. Clean' => Clean
    BY <2>1, CleanStep
  <2>3. pc = "starting" <=> pc' \in Down
    BY <1>7, LocalEffect
  <2>4. /\ pc \notin DOMAIN CmdOf \cup {"bind", "dead"}
        /\ pc' \notin {"close", "resetRadar"}
    BY <1>7, LocalEffect

  <2> QED
    BY <1>b, <1>c, <2>1, <2>2, <2>3 DEF Down
<1>8. ASSUME Close PROVE LeftInv'
  <2>1. /\ pc = "close" /\ pc' = "dead" /\ inq' = <<>> /\ ~waiting'
        /\ UNCHANGED <<wire, back, session, unclean, mishaps, killed, did>>
    BY <1>8, Table DEF Close, GoOn, NoFault

  <2> SUFFICES ASSUME Clean
               PROVE  /\ Len(back) + Len(wire) <= 1
                      /\ \A i \in 1..Len(back) : IsStop(back[i])
                      /\ \A i \in 1..Len(wire) : IsStop(wire[i])
    BY <2>1 DEF LeftInv, IsStop, Clean
  <2>2. Outstanding <= mishaps
    <3>1. ~waiting
      BY <2>1, Commands DEF SocketInv
    <3> QED
      BY <1>a, <2>1, <3>1 DEF FewInv, Down
  <2>3. mishaps <= 1
    BY DEF Clean
  <2>4. Len(back) + Len(wire) <= 1
    BY <1>a, <1>e, <2>2, <2>3 DEF Outstanding
  <2>5. ASSUME NEW i \in 1..Len(wire) PROVE wire[i].cmd = "RECORD_STOP"
    <3>1. i = Len(wire) /\ wire # <<>>
      BY <1>e, <2>4, <2>5, Numbers
    <3> QED
      BY <2>1, <3>1 DEF LastInv, IsStop
  <2>6. ASSUME NEW i \in 1..Len(back) PROVE back[i].cmd = "RECORD_STOP"
    <3>1. i = Len(back) /\ wire = <<>> /\ back # <<>>
      BY <1>e, <2>4, <2>6, Numbers
    <3> QED
      BY <2>1, <3>1 DEF LastInv, IsStop
  <2> QED
    BY <2>4, <2>5, <2>6 DEF IsStop
<1>9. ASSUME NEW fate \in {"done", "refused", "lost"}, TakeRequest(fate)
      PROVE  LeftInv'
  <2>1. UNCHANGED <<pc, waiting, session, unclean, sock, killed>>
    BY <1>9, TakeEffect
  <2>2. mishaps' = mishaps \/ mishaps' = mishaps + 1
    BY <1>9, TakeEffect DEF Fault
  <2>3. Outstanding' \in {Outstanding, Outstanding - 1}
    BY <1>9, TakeMoves

  <2>4. Clean' => Clean
    BY <1>a, <2>1, <2>2, CleanStep
  <2>5. /\ Len(wire') = Len(wire) - 1 /\ Len(wire) # 0
        /\ IF fate = "lost" THEN back' = back
           ELSE /\ Len(back') = Len(back) + 1
                /\ back'[Len(back) + 1].cmd = wire[1].cmd
    BY <1>9, TakeEffect
  <2> SUFFICES ASSUME Clean', ~killed, pc \in Down
               PROVE  /\ Len(back') + Len(wire') <= 1
                      /\ \A i \in 1..Len(back') : IsStop(back[i])'
                      /\ \A i \in 1..Len(wire') : IsStop(wire[i])'
    BY <2>1 DEF LeftInv
  <2>6. Len(back) + Len(wire) <= 1 /\ \A i \in 1..Len(wire) : IsStop(wire[i])
    BY <2>4 DEF LeftInv
  <2>7. Len(wire) = 1 /\ Len(back) = 0
    BY <1>e, <2>5, <2>6
  <2>8. wire[1].cmd = "RECORD_STOP"
    BY <2>6, <2>7 DEF IsStop
  <2>9. CASE fate = "lost"
    BY <2>5, <2>7, <2>9
  <2>10. CASE fate # "lost"
    BY <2>5, <2>7, <2>8, <2>10 DEF IsStop
  <2> QED
    BY <2>9, <2>10
<1>10. ASSUME NEW lost \in BOOLEAN, ReplyArrives(lost) PROVE LeftInv'
  <2>1. UNCHANGED <<pc, waiting, session, unclean, sock, killed>>
    BY <1>10, ArriveEffect
  <2>2. mishaps' = mishaps \/ mishaps' = mishaps + 1
    BY <1>10, ArriveEffect DEF Fault
  <2>3. Outstanding' \in {Outstanding, Outstanding - 1}
    BY <1>10, ArriveMoves

  <2>4. Clean' => Clean
    BY <1>a, <2>1, <2>2, CleanStep
  <2>5. /\ Len(back') = Len(back) - 1 /\ wire' = wire
        /\ \A i \in 1..Len(back') : i + 1 \in 1..Len(back) /\ back'[i] = back[i + 1]
    BY <1>10, ArriveEffect
  <2>6. Len(back) + Len(wire) <= 1 => Len(back') + Len(wire') <= 1
    BY <1>e, <2>5
  <2> QED
    BY <2>1, <2>4, <2>5, <2>6 DEF LeftInv, IsStop
<1>11. ASSUME SendStop \/ StopArrives \/ CloseControl \/ Pump \/ Emit
      PROVE  LeftInv'
  <2>1. UNCHANGED <<pc, waiting, wire, inq, back, did, session, mishaps, unclean,
                    killed>>
    BY <1>11 DEF SendStop, StopArrives, CloseControl, Pump, Emit

  <2>2. Clean' => Clean
    BY <2>1 DEF Clean
  <2> QED
    BY <1>b, <1>c, <2>1, <2>2
<1> QED
  BY <1>1, <1>2, <1>3, <1>4, <1>5, <1>6, <1>7, <1>8, <1>9, <1>10, <1>11
  DEF Next, WorkerStep, NetStep, LocalStep

\* Every step keeps what is outstanding in a clean session within its faults.
LEMMA FewStep ==
  ASSUME TypeOK, SocketInv, LeftInv, FewInv, Next
  PROVE  FewInv'
<1>a. mishaps \in Nat /\ Outstanding \in Nat
  BY Numbers, Count
<1>b. ASSUME pc' \notin Down => pc \notin Down, UNCHANGED waiting, Clean' => Clean,
             Outstanding' \in {Outstanding, Outstanding - 1},
             mishaps' \in Nat, mishaps <= mishaps'
      PROVE  FewInv'
  <2> SUFFICES ASSUME Clean', pc' \notin Down
               PROVE  Outstanding' <= mishaps' + IF waiting' THEN 1 ELSE 0
    BY DEF FewInv
  <2>1. Outstanding <= mishaps + IF waiting THEN 1 ELSE 0
    BY <1>b DEF FewInv
  <2>2. Outstanding' <= Outstanding
    BY <1>a, <1>b
  <2>3. Outstanding' \in Int
    BY <1>a, <1>b
  <2>4. mishaps \in Nat /\ mishaps' \in Nat /\ mishaps <= mishaps'
    BY <1>a, <1>b
  <2>5. CASE waiting = TRUE
    <3>1. waiting' = TRUE
      BY <1>b, <2>5
    <3>2. Outstanding <= mishaps + 1
      BY <1>a, <2>1, <2>4, <2>5
    <3>3. Outstanding' <= mishaps' + 1
      BY <1>a, <2>2, <2>3, <2>4, <3>2, AtMostNext
    <3> QED
      BY <2>4, <3>1, <3>3
  <2>6. CASE waiting = FALSE
    <3>1. waiting' = FALSE
      BY <1>b, <2>6
    <3>2. Outstanding <= mishaps
      BY <1>a, <2>1, <2>4, <2>6
    <3>3. Outstanding' <= mishaps'
      BY <1>a, <2>2, <2>3, <2>4, <3>2
    <3> QED
      BY <2>4, <3>1, <3>3
  <2> QED
    BY <2>5, <2>6 DEF TypeOK
<1> USE DEF hostVars, dataVars, netVars, devVars, ctlVars, histVars, flowVars
<1>1. ASSUME StartWorker PROVE FewInv'
  BY <1>1 DEF StartWorker, FewInv, Down
<1>2. ASSUME Kill PROVE FewInv'
  BY <1>2 DEF Kill, FewInv, Down
<1>3. ASSUME NEW raises \in BOOLEAN, SendCommand(raises) PROVE FewInv'
  <2>1. CASE raises
    <3>1. /\ pc \in DOMAIN CmdOf /\ UNCHANGED <<inq, wire, back, did, session, unclean>>
          /\ mishaps' = mishaps + 1 /\ ~waiting /\ waiting' = FALSE
          /\ pc' = IF pc \in Cleanup THEN After[pc] ELSE "stopSensor"
      BY <1>3, <2>1 DEF SendCommand, Raise, Fault
    <3>2. Clean' => Clean
      BY <1>a, <3>1, CleanStep

    <3>3. Outstanding' = Outstanding /\ pc \notin Down
      BY <3>1, Ends DEF Outstanding
    <3> QED
      BY <1>a, <3>1, <3>2, <3>3 DEF FewInv

  <2>2. CASE ~raises
    <3>1. SendCommand(FALSE) /\ session # 0 /\ ~waiting
      BY <1>3, <2>2, Commands DEF SendCommand, SocketInv
    <3>2. /\ pc \in DOMAIN CmdOf /\ waiting' = TRUE
          /\ UNCHANGED <<pc, mishaps, unclean, session, inq, back, did>>
          /\ Len(wire') = Len(wire) + 1 /\ wire'[Len(wire) + 1].cmd = CmdOf[pc]
          /\ wire'[Len(wire) + 1].by = session
          /\ \A i \in 1..Len(wire) : wire'[i] = wire[i]
      BY <3>1, SendEffect
    <3>3. Outstanding' = Outstanding + 1 /\ (AllOwn => AllOwn')
      BY <3>1, SendMoves
    <3>4. Clean' => Clean
      BY <3>2 DEF Clean

    <3>5. pc \notin Down
      BY <3>2, Ends
    <3> QED
      BY <1>a, <3>1, <3>2, <3>3, <3>4, <3>5 DEF FewInv
  <2> QED
    BY <2>1, <2>2
<1>4. ASSUME ReceiveReply PROVE FewInv'
  <2>1. /\ Outstanding' = Outstanding - 1 /\ Len(inq) \in Nat \ {0}
        /\ Len(inq') = Len(inq) - 1
        /\ \A i \in 1..Len(inq') : i + 1 \in 1..Len(inq) /\ inq'[i] = inq[i + 1]
        /\ UNCHANGED <<wire, back, did, session, mishaps, unclean>>
        /\ pc' = After[pc] /\ waiting /\ ~waiting'
    BY <1>4, ReceiveMoves, ReceiveEffect DEF GoOn
  <2>2. pc \in DOMAIN CmdOf
    BY <2>1 DEF SocketInv
  <2>3. Clean' => Clean
    BY <2>1 DEF Clean

  <2>4. pc \notin Down
    BY <2>2, Ends
  <2> QED
    BY <1>a, <2>1, <2>3, <2>4 DEF FewInv
<1>5. ASSUME ReplyTimeout PROVE FewInv'
  <2>1. /\ UNCHANGED <<inq, wire, back, session, unclean, did, sock>> /\ inq = <<>>
        /\ pc' = After[pc] /\ waiting /\ ~waiting'
        /\ \/ wire = <<>> /\ back = <<>> /\ mishaps' = mishaps
           \/ mishaps' = mishaps + 1
    BY <1>5 DEF ReplyTimeout, GoOn, Fault, NoFault
  <2>2. pc \in DOMAIN CmdOf
    BY <2>1 DEF SocketInv
  <2>3. mishaps' = mishaps \/ mishaps' = mishaps + 1
    BY <2>1
  <2>4. Clean' => Clean
    BY <1>a, <2>1, <2>3, CleanStep

  <2>5. Outstanding' = Outstanding /\ pc \notin Down
    BY <2>1, <2>2, Ends DEF Outstanding
  <2>6. CASE mishaps' = mishaps + 1
    BY <1>a, <2>1, <2>4, <2>5, <2>6 DEF FewInv
  <2>7. CASE wire = <<>> /\ back = <<>> /\ mishaps' = mishaps
    <3>1. Outstanding = 0
      BY <2>1, <2>7, Count
    <3> QED
      BY <1>a, <2>1, <2>5, <2>7, <3>1 DEF FewInv
  <2> QED
    BY <2>1, <2>6, <2>7
<1>6. ASSUME NEW raises \in BOOLEAN, Bind(raises) PROVE FewInv'
  <2>1. /\ pc = "bind"
        /\ UNCHANGED <<wire, back, inq, session, unclean, waiting, killed, did>>
        /\ pc' = IF raises THEN "dead" ELSE "resetRadar"
        /\ mishaps' = mishaps \/ mishaps' = mishaps + 1
        /\ raises \/ (wire = <<>> /\ back = <<>>) \/ mishaps' = mishaps + 1
    BY <1>6, Table DEF Bind, Fault, NoFault
  <2>2. Clean' => Clean
    BY <1>a, <2>1, CleanStep
  <2>3. inq = <<>> /\ ~killed /\ ~waiting
    BY <2>1 DEF SocketInv, Down

  <2>4. CASE raises
    BY <2>1, <2>4 DEF FewInv, Down
  <2>5. CASE ~raises
    <3>1. CASE wire = <<>> /\ back = <<>>
      <4>1. Outstanding' = 0
        BY <2>1, <2>3, <3>1, Count DEF Outstanding
      <4> QED
        BY <1>a, <2>1, <2>3, <4>1 DEF FewInv
    <3>2. CASE mishaps' = mishaps + 1
      <4>1. Outstanding' = Len(back) + Len(wire)
        BY <2>1, <2>3, Numbers DEF Outstanding
      <4>2. Clean => Len(back) + Len(wire) <= 1
        BY <2>1, <2>3 DEF LeftInv, Down
      <4> QED
        BY <1>a, <2>1, <2>2, <2>3, <3>2, <4>1, <4>2, Numbers DEF FewInv
    <3> QED
      BY <2>1, <2>5, <3>1, <3>2
  <2> QED
    BY <2>4, <2>5
<1>7. ASSUME NEW raises \in BOOLEAN, LocalStep(raises) PROVE FewInv'
  <2>1. /\ UNCHANGED <<inq, back, wire, did, session, waiting, unclean, killed>>
        /\ waiting = FALSE /\ mishaps' \in Nat /\ mishaps <= mishaps'
    BY <1>7, LocalEffect
  <2>2. Clean' => Clean
    BY <2>1, CleanStep
  <2>3. pc = "starting" <=> pc' \in Down
    BY <1>7, LocalEffect
  <2>4. /\ pc \notin DOMAIN CmdOf \cup {"bind", "dead"}
        /\ pc' \notin {"close", "resetRadar"}
    BY <1>7, LocalEffect

  <2>5. Outstanding' = Outstanding
    BY <2>1 DEF Outstanding
  <2>6. pc' \notin Down => pc \notin Down
    BY <2>3, <2>4 DEF Down
  <2> QED
    BY <1>b, <2>1, <2>2, <2>5, <2>6
<1>8. ASSUME Close PROVE FewInv'
  <2>1. /\ pc = "close" /\ pc' = "dead" /\ inq' = <<>> /\ ~waiting'
        /\ UNCHANGED <<wire, back, session, unclean, mishaps, killed, did>>
    BY <1>8, Table DEF Close, GoOn, NoFault

  <2> QED
    BY <2>1 DEF FewInv, Down
<1>9. ASSUME NEW fate \in {"done", "refused", "lost"}, TakeRequest(fate)
      PROVE  FewInv'
  <2>1. UNCHANGED <<pc, waiting, session, unclean, sock, killed>>
    BY <1>9, TakeEffect
  <2>2. mishaps' = mishaps \/ mishaps' = mishaps + 1
    BY <1>9, TakeEffect DEF Fault
  <2>3. Outstanding' \in {Outstanding, Outstanding - 1}
    BY <1>9, TakeMoves

  <2>4. Clean' => Clean
    BY <1>a, <2>1, <2>2, CleanStep
  <2> QED
    BY <1>a, <1>b, <2>1, <2>2, <2>3, <2>4
<1>10. ASSUME NEW lost \in BOOLEAN, ReplyArrives(lost) PROVE FewInv'
  <2>1. UNCHANGED <<pc, waiting, session, unclean, sock, killed>>
    BY <1>10, ArriveEffect
  <2>2. mishaps' = mishaps \/ mishaps' = mishaps + 1
    BY <1>10, ArriveEffect DEF Fault
  <2>3. Outstanding' \in {Outstanding, Outstanding - 1}
    BY <1>10, ArriveMoves

  <2>4. Clean' => Clean
    BY <1>a, <2>1, <2>2, CleanStep
  <2> QED
    BY <1>a, <1>b, <2>1, <2>2, <2>3, <2>4
<1>11. ASSUME SendStop \/ StopArrives \/ CloseControl \/ Pump \/ Emit
      PROVE  FewInv'
  <2>1. UNCHANGED <<pc, waiting, wire, inq, back, did, session, mishaps, unclean,
                    killed>>
    BY <1>11 DEF SendStop, StopArrives, CloseControl, Pump, Emit

  <2>2. Outstanding' = Outstanding /\ (Clean' => Clean)
    BY <2>1 DEF Outstanding, Clean
  <2> QED
    BY <1>a, <1>b, <2>1, <2>2
<1> QED
  BY <1>1, <1>2, <1>3, <1>4, <1>5, <1>6, <1>7, <1>8, <1>9, <1>10, <1>11
  DEF Next, WorkerStep, NetStep, LocalStep

\* Every step keeps what was left by the session before in front of the first reply.
LEMMA FirstStep ==
  ASSUME TypeOK, SocketInv, LeftInv, FirstInv, Next
  PROVE  FirstInv'
<1>a. mishaps \in Nat
  BY Numbers
<1>b. ASSUME pc' # "resetRadar" PROVE FirstInv'
  BY <1>b DEF FirstInv
<1>c. /\ After["starting"] # "resetRadar"
      /\ \A p \in DOMAIN CmdOf : After[p] # "resetRadar"
  BY Table, Commands
<1> USE DEF hostVars, dataVars, netVars, devVars, ctlVars, histVars, flowVars
<1>1. ASSUME StartWorker PROVE FirstInv'
  BY <1>1, <1>b DEF StartWorker
<1>2. ASSUME Kill PROVE FirstInv'
  BY <1>2, <1>b DEF Kill
<1>3. ASSUME NEW raises \in BOOLEAN, SendCommand(raises) PROVE FirstInv'
  <2>1. CASE raises
    <3>1. /\ pc \in DOMAIN CmdOf /\ UNCHANGED <<inq, wire, back, did, session, unclean>>
          /\ mishaps' = mishaps + 1 /\ ~waiting /\ waiting' = FALSE
          /\ pc' = IF pc \in Cleanup THEN After[pc] ELSE "stopSensor"
      BY <1>3, <2>1 DEF SendCommand, Raise, Fault
    <3>2. Clean' => Clean
      BY <1>a, <3>1, CleanStep

    <3> QED
      BY <1>b, <1>c, <3>1

  <2>2. CASE ~raises
    <3>1. SendCommand(FALSE) /\ session # 0 /\ ~waiting
      BY <1>3, <2>2, Commands DEF SendCommand, SocketInv
    <3>2. /\ pc \in DOMAIN CmdOf /\ waiting' = TRUE
          /\ UNCHANGED <<pc, mishaps, unclean, session, inq, back, did>>
          /\ Len(wire') = Len(wire) + 1 /\ wire'[Len(wire) + 1].cmd = CmdOf[pc]
          /\ wire'[Len(wire) + 1].by = session
          /\ \A i \in 1..Len(wire) : wire'[i] = wire[i]
      BY <3>1, SendEffect
    <3>3. Outstanding' = Outstanding + 1 /\ (AllOwn => AllOwn')
      BY <3>1, SendMoves
    <3>4. Clean' => Clean
      BY <3>2 DEF Clean

    <3> QED
      BY <3>2, <3>4, Numbers DEF FirstInv, OwnReply, OwnRequest, IsStop
  <2> QED
    BY <2>1, <2>2
<1>4. ASSUME ReceiveReply PROVE FirstInv'
  <2>1. /\ Outstanding' = Outstanding - 1 /\ Len(inq) \in Nat \ {0}
        /\ Len(inq') = Len(inq) - 1
        /\ \A i \in 1..Len(inq') : i + 1 \in 1..Len(inq) /\ inq'[i] = inq[i + 1]
        /\ UNCHANGED <<wire, back, did, session, mishaps, unclean>>
        /\ pc' = After[pc] /\ waiting /\ ~waiting'
    BY <1>4, ReceiveMoves, ReceiveEffect DEF GoOn
  <2>2. pc \in DOMAIN CmdOf
    BY <2>1 DEF SocketInv
  <2>3. Clean' => Clean
    BY <2>1 DEF Clean

  <2> QED
    BY <1>b, <1>c, <2>1, <2>2
<1>5. ASSUME ReplyTimeout PROVE FirstInv'
  <2>1. /\ UNCHANGED <<inq, wire, back, session, unclean, did, sock>> /\ inq = <<>>
        /\ pc' = After[pc] /\ waiting /\ ~waiting'
        /\ \/ wire = <<>> /\ back = <<>> /\ mishaps' = mishaps
           \/ mishaps' = mishaps + 1
    BY <1>5 DEF ReplyTimeout, GoOn, Fault, NoFault
  <2>2. pc \in DOMAIN CmdOf
    BY <2>1 DEF SocketInv
  <2>3. mishaps' = mishaps \/ mishaps' = mishaps + 1
    BY <2>1
  <2>4. Clean' => Clean
    BY <1>a, <2>1, <2>3, CleanStep

  <2> QED
    BY <1>b, <1>c, <2>1, <2>2
<1>6. ASSUME NEW raises \in BOOLEAN, Bind(raises) PROVE FirstInv'
  <2>1. /\ pc = "bind"
        /\ UNCHANGED <<wire, back, inq, session, unclean, waiting, killed, did>>
        /\ pc' = IF raises THEN "dead" ELSE "resetRadar"
        /\ mishaps' = mishaps \/ mishaps' = mishaps + 1
        /\ raises \/ (wire = <<>> /\ back = <<>>) \/ mishaps' = mishaps + 1
    BY <1>6, Table DEF Bind, Fault, NoFault
  <2>2. Clean' => Clean
    BY <1>a, <2>1, CleanStep
  <2>3. inq = <<>> /\ ~killed /\ ~waiting
    BY <2>1 DEF SocketInv, Down

  <2>4. CASE raises
    BY <1>b, <2>1, <2>4
  <2>5. CASE ~raises /\ Clean
    <3>1. /\ Len(back) + Len(wire) <= 1
          /\ \A i \in 1..Len(back) : IsStop(back[i])
          /\ \A i \in 1..Len(wire) : IsStop(wire[i])
      BY <2>1, <2>3, <2>5 DEF LeftInv, Down
    <3>2. \A i \in 1..Len(back) : i = 1 /\ IsStop(back[i])
      BY <3>1, Numbers
    <3>3. \A i \in 1..Len(wire) : i = 1 /\ back = <<>> /\ IsStop(wire[i])
      BY <3>1, Numbers
    <3>4. \A i \in 1..Len(inq) : FALSE
      BY <2>3, Numbers
    <3> QED
      BY <2>1, <2>3, <3>2, <3>3, <3>4 DEF FirstInv, IsStop
  <2>6. CASE ~Clean
    BY <2>2, <2>6 DEF FirstInv
  <2> QED
    BY <2>4, <2>5, <2>6
<1>7. ASSUME NEW raises \in BOOLEAN, LocalStep(raises) PROVE FirstInv'
  <2>1. /\ UNCHANGED <<inq, back, wire, did, session, waiting, unclean, killed>>
        /\ waiting = FALSE /\ mishaps' \in Nat /\ mishaps <= mishaps'
    BY <1>7, LocalEffect
  <2>2. Clean' => Clean
    BY <2>1, CleanStep
  <2>3. pc = "starting" <=> pc' \in Down
    BY <1>7, LocalEffect
  <2>4. /\ pc \notin DOMAIN CmdOf \cup {"bind", "dead"}
        /\ pc' \notin {"close", "resetRadar"}
    BY <1>7, LocalEffect

  <2> QED
    BY <1>b, <2>4
<1>8. ASSUME Close PROVE FirstInv'
  <2>1. /\ pc = "close" /\ pc' = "dead" /\ inq' = <<>> /\ ~waiting'
        /\ UNCHANGED <<wire, back, session, unclean, mishaps, killed, did>>
    BY <1>8, Table DEF Close, GoOn, NoFault

  <2> QED
    BY <1>b, <2>1
<1>9. ASSUME NEW fate \in {"done", "refused", "lost"}, TakeRequest(fate)
      PROVE  FirstInv'
  <2>1. UNCHANGED <<pc, waiting, session, unclean, sock, killed>>
    BY <1>9, TakeEffect
  <2>2. mishaps' = mishaps \/ mishaps' = mishaps + 1
    BY <1>9, TakeEffect DEF Fault
  <2>3. Outstanding' \in {Outstanding, Outstanding - 1}
    BY <1>9, TakeMoves

  <2>4. Clean' => Clean
    BY <1>a, <2>1, <2>2, CleanStep
  <2> SUFFICES ASSUME Clean, pc = "resetRadar" PROVE FirstInv'
    BY <2>1, <2>4 DEF FirstInv
  <2>5. /\ Len(wire) \in Nat \ {0} /\ Len(wire') = Len(wire) - 1
        /\ \A i \in 1..Len(wire') : i + 1 \in 1..Len(wire) /\ wire'[i] = wire[i + 1]
        /\ IF fate = "lost" THEN back' = back
           ELSE /\ Len(back') = Len(back) + 1
                /\ \A i \in 1..Len(back) : back'[i] = back[i]
                /\ back'[Len(back) + 1].cmd = wire[1].cmd
                /\ back'[Len(back) + 1].ok => fate = "done"
        /\ did' = IF fate = "done" /\ wire[1].by = session
                  THEN did \cup {wire[1].cmd} ELSE did
        /\ inq' = inq
    BY <1>9, TakeEffect
  <2>6. \A i \in 1..Len(wire') : OwnRequest(wire[i])'
    <3>1. ASSUME NEW i \in 1..Len(wire') PROVE wire[i + 1].by = session
      BY <2>5, <3>1 DEF FirstInv, OwnRequest
    <3> QED
      BY <2>1, <2>5, <3>1 DEF OwnRequest
  <2>7. did \subseteq did'
    BY <2>5
  <2>8. \A i \in 1..Len(inq') : OwnReply(inq[i])' \/ (i = 1 /\ IsStop(inq[i])')
    BY <2>5, <2>7 DEF FirstInv, OwnReply, IsStop
  <2>9. \A i \in 1..Len(back') :
          OwnReply(back[i])' \/ (i = 1 /\ inq' = <<>> /\ IsStop(back[i])')
    <3>1. ASSUME NEW i \in 1..Len(back)
          PROVE  OwnReply(back[i])' \/ (i = 1 /\ inq' = <<>> /\ IsStop(back[i])')
      <4>1. back'[i] = back[i]
        BY <2>5, <3>1
      <4> QED
        BY <2>5, <2>7, <3>1, <4>1 DEF FirstInv, OwnReply, IsStop
    <3>2. ASSUME fate # "lost", NEW i \in {Len(back) + 1}
          PROVE  OwnReply(back[i])' \/ (i = 1 /\ inq' = <<>> /\ IsStop(back[i])')
      <4>1. back'[i].cmd = wire[1].cmd /\ (back'[i].ok => fate = "done")
        BY <2>5, <3>2
      <4>2. \/ wire[1].by = session
            \/ inq = <<>> /\ back = <<>> /\ wire[1].cmd = "RECORD_STOP"
        BY <2>5 DEF FirstInv, OwnRequest, IsStop
      <4>3. CASE wire[1].by = session
        BY <2>5, <4>1, <4>3 DEF OwnReply
      <4>4. CASE inq = <<>> /\ back = <<>> /\ wire[1].cmd = "RECORD_STOP"
        BY <2>5, <3>2, <4>1, <4>4, Numbers DEF IsStop
      <4> QED
        BY <4>2, <4>3, <4>4
    <3>3. \A i \in 1..Len(back') :
            i \in 1..Len(back) \/ (fate # "lost" /\ i = Len(back) + 1)
      <4>1. /\ Len(back) \in Nat
            /\ Len(back') = IF fate = "lost" THEN Len(back) ELSE Len(back) + 1
        BY <2>5, Numbers
      <4> QED
        BY <4>1
    <3> QED
      BY <3>1, <3>2, <3>3
  <2> QED
    BY <2>6, <2>8, <2>9 DEF FirstInv
<1>10. ASSUME NEW lost \in BOOLEAN, ReplyArrives(lost) PROVE FirstInv'
  <2>1. UNCHANGED <<pc, waiting, session, unclean, sock, killed>>
    BY <1>10, ArriveEffect
  <2>2. mishaps' = mishaps \/ mishaps' = mishaps + 1
    BY <1>10, ArriveEffect DEF Fault
  <2>3. Outstanding' \in {Outstanding, Outstanding - 1}
    BY <1>10, ArriveMoves

  <2>4. Clean' => Clean
    BY <1>a, <2>1, <2>2, CleanStep
  <2> SUFFICES ASSUME Clean, pc = "resetRadar" PROVE FirstInv'
    BY <2>1, <2>4 DEF FirstInv
  <2>5. /\ Len(back) \in Nat \ {0} /\ Len(back') = Len(back) - 1
        /\ \A i \in 1..Len(back') : i + 1 \in 1..Len(back) /\ back'[i] = back[i + 1]
        /\ IF sock /\ ~lost
           THEN /\ Len(inq') = Len(inq) + 1 /\ inq'[Len(inq) + 1] = back[1]
                /\ \A i \in 1..Len(inq) : inq'[i] = inq[i]
           ELSE inq' = inq
        /\ UNCHANGED <<wire, did, session>>
    BY <1>10, ArriveEffect
  <2>6. \A i \in 1..Len(wire') : OwnRequest(wire[i])'
    BY <2>5, Numbers DEF FirstInv, OwnRequest
  <2>7. \A i \in 1..Len(back') : OwnReply(back[i])'
    BY <2>5 DEF FirstInv, OwnReply
  <2>8. \A i \in 1..Len(inq') : OwnReply(inq[i])' \/ (i = 1 /\ IsStop(inq[i])')
    <3>1. CASE sock /\ ~lost
      <4>1. ASSUME NEW i \in 1..Len(inq)
            PROVE  OwnReply(inq[i])' \/ (i = 1 /\ IsStop(inq[i])')
        BY <2>5, <3>1, <4>1 DEF FirstInv, OwnReply, IsStop
      <4>2. ASSUME NEW i \in {Len(inq) + 1}
            PROVE  OwnReply(inq[i])' \/ (i = 1 /\ IsStop(inq[i])')
        <5>1. inq'[i] = back[1]
          BY <2>5, <3>1, <4>2
        <5>2. OwnReply(back[1]) \/ (inq = <<>> /\ IsStop(back[1]))
          BY <2>5 DEF FirstInv
        <5> QED
          BY <2>5, <4>2, <5>1, <5>2, Numbers DEF OwnReply, IsStop
      <4>3. \A i \in 1..Len(inq') : i \in 1..Len(inq) \/ i = Len(inq) + 1
        BY <2>5, <3>1, Numbers
      <4> QED
        BY <4>1, <4>2, <4>3
    <3>2. CASE ~(sock /\ ~lost)
      BY <2>5, <3>2 DEF FirstInv, OwnReply, IsStop
    <3> QED
      BY <3>1, <3>2
  <2> QED
    BY <2>6, <2>7, <2>8 DEF FirstInv
<1>11. ASSUME SendStop \/ StopArrives \/ CloseControl \/ Pump \/ Emit
      PROVE  FirstInv'
  <2>1. UNCHANGED <<pc, waiting, wire, inq, back, did, session, mishaps, unclean,
                    killed>>
    BY <1>11 DEF SendStop, StopArrives, CloseControl, Pump, Emit

  <2> QED
    BY <2>1 DEF FirstInv, Clean, OwnReply, OwnRequest, IsStop
<1> QED
  BY <1>1, <1>2, <1>3, <1>4, <1>5, <1>6, <1>7, <1>8, <1>9, <1>10, <1>11
  DEF Next, WorkerStep, NetStep, LocalStep

\* Every step after the first reply keeps requests and replies the session's own.
LEMMA OwnStep ==
  ASSUME TypeOK, SocketInv, StepInv, FirstInv, OwnInv, Next
  PROVE  OwnInv'
<1>a. mishaps \in Nat /\ Outstanding \in Nat
  BY Numbers, Count
<1>b. ASSUME pc' \in Down \cup {"resetRadar"} PROVE OwnInv'
  BY <1>b DEF OwnInv
<1>c. ASSUME UNCHANGED <<inq, wire, back, session, did>> PROVE AllOwn => AllOwn'
  BY <1>c DEF AllOwn, OwnReply, OwnRequest
<1> USE DEF hostVars, dataVars, netVars, devVars, ctlVars, histVars, flowVars
<1>1. ASSUME StartWorker PROVE OwnInv'
  BY <1>1, <1>b DEF StartWorker, Down
<1>2. ASSUME Kill PROVE OwnInv'
  BY <1>2, <1>b DEF Kill, Down
<1>3. ASSUME NEW raises \in BOOLEAN, SendCommand(raises) PROVE OwnInv'
  <2>1. CASE raises
    <3>1. /\ pc \in DOMAIN CmdOf /\ UNCHANGED <<inq, wire, back, did, session, unclean>>
          /\ mishaps' = mishaps + 1 /\ ~waiting /\ waiting' = FALSE
          /\ pc' = IF pc \in Cleanup THEN After[pc] ELSE "stopSensor"
      BY <1>3, <2>1 DEF SendCommand, Raise, Fault
    <3>2. Clean' => Clean
      BY <1>a, <3>1, CleanStep

    <3>3. Clean' => mishaps = 0
      BY <1>a, <3>1 DEF Clean
    <3>4. mishaps = 0 => AllOwn
      BY <3>1, Ends DEF StepInv
    <3> QED
      BY <1>c, <3>1, <3>3, <3>4 DEF OwnInv

  <2>2. CASE ~raises
    <3>1. SendCommand(FALSE) /\ session # 0 /\ ~waiting
      BY <1>3, <2>2, Commands DEF SendCommand, SocketInv
    <3>2. /\ pc \in DOMAIN CmdOf /\ waiting' = TRUE
          /\ UNCHANGED <<pc, mishaps, unclean, session, inq, back, did>>
          /\ Len(wire') = Len(wire) + 1 /\ wire'[Len(wire) + 1].cmd = CmdOf[pc]
          /\ wire'[Len(wire) + 1].by = session
          /\ \A i \in 1..Len(wire) : wire'[i] = wire[i]
      BY <3>1, SendEffect
    <3>3. Outstanding' = Outstanding + 1 /\ (AllOwn => AllOwn')
      BY <3>1, SendMoves
    <3>4. Clean' => Clean
      BY <3>2 DEF Clean

    <3> QED
      BY <3>2, <3>3, <3>4 DEF OwnInv
  <2> QED
    BY <2>1, <2>2
<1>4. ASSUME ReceiveReply PROVE OwnInv'
  <2>1. /\ Outstanding' = Outstanding - 1 /\ Len(inq) \in Nat \ {0}
        /\ Len(inq') = Len(inq) - 1
        /\ \A i \in 1..Len(inq') : i + 1 \in 1..Len(inq) /\ inq'[i] = inq[i + 1]
        /\ UNCHANGED <<wire, back, did, session, mishaps, unclean>>
        /\ pc' = After[pc] /\ waiting /\ ~waiting'
    BY <1>4, ReceiveMoves, ReceiveEffect DEF GoOn
  <2>2. pc \in DOMAIN CmdOf
    BY <2>1 DEF SocketInv
  <2>3. Clean' => Clean
    BY <2>1 DEF Clean

  <2>4. AllOwn => AllOwn'
    BY <1>4, ReceiveMoves
  <2>5. CASE pc # "resetRadar"
    BY <2>2, <2>3, <2>4, <2>5, Ends DEF OwnInv
  <2>6. CASE pc = "resetRadar" /\ Clean
    <3>1. \A i \in 1..Len(inq') : OwnReply(inq[i])'
      <4>1. ASSUME NEW i \in 1..Len(inq') PROVE OwnReply(inq[i])'
        <5>1. i + 1 \in 1..Len(inq) /\ i + 1 # 1 /\ inq'[i] = inq[i + 1] /\ did' = did
          BY <2>1, <4>1
        <5> QED
          BY <2>6, <5>1 DEF FirstInv, OwnReply
      <4> QED
        BY <4>1
    <3>2. \A i \in 1..Len(back') : OwnReply(back[i])'
      BY <2>1, <2>6, Numbers DEF FirstInv, OwnReply
    <3>3. \A i \in 1..Len(wire') : OwnRequest(wire[i])'
      BY <2>1, <2>6, Numbers DEF FirstInv, OwnRequest
    <3> QED
      BY <3>1, <3>2, <3>3 DEF OwnInv, AllOwn
  <2> QED
    BY <2>3, <2>5, <2>6 DEF OwnInv
<1>5. ASSUME ReplyTimeout PROVE OwnInv'
  <2>1. /\ UNCHANGED <<inq, wire, back, session, unclean, did, sock>> /\ inq = <<>>
        /\ pc' = After[pc] /\ waiting /\ ~waiting'
        /\ \/ wire = <<>> /\ back = <<>> /\ mishaps' = mishaps
           \/ mishaps' = mishaps + 1
    BY <1>5 DEF ReplyTimeout, GoOn, Fault, NoFault
  <2>2. pc \in DOMAIN CmdOf
    BY <2>1 DEF SocketInv
  <2>3. mishaps' = mishaps \/ mishaps' = mishaps + 1
    BY <2>1
  <2>4. Clean' => Clean
    BY <1>a, <2>1, <2>3, CleanStep

  <2>5. AllOwn => AllOwn'
    BY <1>c, <2>1
  <2>6. CASE pc # "resetRadar"
    BY <2>2, <2>4, <2>5, <2>6, Ends DEF OwnInv
  <2>7. CASE wire = <<>> /\ back = <<>>
    <3>1. AllOwn
      BY <2>1, <2>7, Count, EmptyOwn
    <3> QED
      BY <2>5, <3>1 DEF OwnInv
  <2>8. CASE mishaps' = mishaps + 1
    <3>1. Clean' => mishaps = 0
      BY <1>a, <2>8 DEF Clean
    <3>2. mishaps = 0 => AllOwn
      BY <2>2, Ends DEF StepInv
    <3> QED
      BY <2>5, <3>1, <3>2 DEF OwnInv
  <2> QED
    BY <2>1, <2>6, <2>7, <2>8
<1>6. ASSUME NEW raises \in BOOLEAN, Bind(raises) PROVE OwnInv'
  <2>1. /\ pc = "bind"
        /\ UNCHANGED <<wire, back, inq, session, unclean, waiting, killed, did>>
        /\ pc' = IF raises THEN "dead" ELSE "resetRadar"
        /\ mishaps' = mishaps \/ mishaps' = mishaps + 1
        /\ raises \/ (wire = <<>> /\ back = <<>>) \/ mishaps' = mishaps + 1
    BY <1>6, Table DEF Bind, Fault, NoFault
  <2>2. Clean' => Clean
    BY <1>a, <2>1, CleanStep
  <2>3. inq = <<>> /\ ~killed /\ ~waiting
    BY <2>1 DEF SocketInv, Down

  <2> QED
    BY <1>b, <2>1 DEF Down
<1>7. ASSUME NEW raises \in BOOLEAN, LocalStep(raises) PROVE OwnInv'
  <2>1. /\ UNCHANGED <<inq, back, wire, did, session, waiting, unclean, killed>>
        /\ waiting = FALSE /\ mishaps' \in Nat /\ mishaps <= mishaps'
    BY <1>7, LocalEffect
  <2>2. Clean' => Clean
    BY <2>1, CleanStep
  <2>3. pc = "starting" <=> pc' \in Down
    BY <1>7, LocalEffect
  <2>4. /\ pc \notin DOMAIN CmdOf \cup {"bind", "dead"}
        /\ pc' \notin {"close", "resetRadar"}
    BY <1>7, LocalEffect

  <2>5. pc' \notin Down => pc \notin Down \cup {"resetRadar"}
    BY <2>3, <2>4, Commands DEF Down
  <2> QED
    BY <1>c, <2>1, <2>2, <2>5 DEF OwnInv
<1>8. ASSUME Close PROVE OwnInv'
  <2>1. /\ pc = "close" /\ pc' = "dead" /\ inq' = <<>> /\ ~waiting'
        /\ UNCHANGED <<wire, back, session, unclean, mishaps, killed, did>>
    BY <1>8, Table DEF Close, GoOn, NoFault

  <2> QED
    BY <1>b, <2>1 DEF Down
<1>9. ASSUME NEW fate \in {"done", "refused", "lost"}, TakeRequest(fate)
      PROVE  OwnInv'
  <2>1. UNCHANGED <<pc, waiting, session, unclean, sock, killed>>
    BY <1>9, TakeEffect
  <2>2. mishaps' = mishaps \/ mishaps' = mishaps + 1
    BY <1>9, TakeEffect DEF Fault
  <2>3. Outstanding' \in {Outstanding, Outstanding - 1}
    BY <1>9, TakeMoves

  <2>4. AllOwn => AllOwn'
    BY <1>9, TakeMoves
  <2>5. Clean' => Clean
    BY <1>a, <2>1, <2>2, CleanStep
  <2> QED
    BY <2>1, <2>4, <2>5 DEF OwnInv
<1>10. ASSUME NEW lost \in BOOLEAN, ReplyArrives(lost) PROVE OwnInv'
  <2>1. UNCHANGED <<pc, waiting, session, unclean, sock, killed>>
    BY <1>10, ArriveEffect
  <2>2. mishaps' = mishaps \/ mishaps' = mishaps + 1
    BY <1>10, ArriveEffect DEF Fault
  <2>3. Outstanding' \in {Outstanding, Outstanding - 1}
    BY <1>10, ArriveMoves

  <2>4. AllOwn => AllOwn'
    BY <1>10, ArriveMoves
  <2>5. Clean' => Clean
    BY <1>a, <2>1, <2>2, CleanStep
  <2> QED
    BY <2>1, <2>4, <2>5 DEF OwnInv
<1>11. ASSUME SendStop \/ StopArrives \/ CloseControl \/ Pump \/ Emit
      PROVE  OwnInv'
  <2>1. UNCHANGED <<pc, waiting, wire, inq, back, did, session, mishaps, unclean,
                    killed>>
    BY <1>11 DEF SendStop, StopArrives, CloseControl, Pump, Emit

  <2> QED
    BY <1>c, <2>1 DEF OwnInv, Clean
<1> QED
  BY <1>1, <1>2, <1>3, <1>4, <1>5, <1>6, <1>7, <1>8, <1>9, <1>10, <1>11
  DEF Next, WorkerStep, NetStep, LocalStep

\* Every step keeps the stop of the recording the last one outstanding at the end.
LEMMA LastStep ==
  ASSUME TypeOK, SocketInv, StepInv, LastInv, Next
  PROVE  LastInv'
<1>a. mishaps \in Nat /\ Outstanding \in Nat
  BY Numbers, Count
<1>b. ASSUME UNCHANGED <<inq, wire, back>>, Clean' => Clean,
             pc' = "close" \/ (pc' = "recordStop" /\ waiting') =>
               pc = "close" \/ (pc = "recordStop" /\ waiting)
      PROVE  LastInv'
  BY <1>b DEF LastInv, IsStop
<1>c. ASSUME pc' # "close", pc' = "recordStop" => ~waiting' PROVE LastInv'
  BY <1>c DEF LastInv
<1>d. \A p \in DOMAIN CmdOf :
        After[p] # "recordStop" /\ (After[p] = "close" => p = "recordStop")
  BY Table, Commands
<1>e. pc \notin Down /\ mishaps = 0 => Outstanding <= IF waiting THEN 1 ELSE 0
  BY DEF StepInv, InStep
<1>f. Len(inq) \in Nat /\ Len(back) \in Nat /\ Len(wire) \in Nat
  BY Numbers
<1> USE DEF hostVars, dataVars, netVars, devVars, ctlVars, histVars, flowVars
<1>1. ASSUME StartWorker PROVE LastInv'
  BY <1>1, <1>c DEF StartWorker
<1>2. ASSUME Kill PROVE LastInv'
  BY <1>2, <1>c DEF Kill
<1>3. ASSUME NEW raises \in BOOLEAN, SendCommand(raises) PROVE LastInv'
  <2>1. CASE raises
    <3>1. /\ pc \in DOMAIN CmdOf /\ UNCHANGED <<inq, wire, back, did, session, unclean>>
          /\ mishaps' = mishaps + 1 /\ ~waiting /\ waiting' = FALSE
          /\ pc' = IF pc \in Cleanup THEN After[pc] ELSE "stopSensor"
      BY <1>3, <2>1 DEF SendCommand, Raise, Fault
    <3>2. Clean' => Clean
      BY <1>a, <3>1, CleanStep

    <3>3. CASE pc # "recordStop"
      <4>1. pc' = "stopSensor"
        BY <3>1, <3>3, Ends
      <4> QED
        BY <1>c, <4>1
    <3>4. CASE pc = "recordStop" /\ mishaps = 0
      <4>1. Outstanding = 0
        BY <1>a, <1>e, <3>1, <3>4, Ends
      <4>2. inq' = <<>> /\ back' = <<>> /\ wire' = <<>>
        BY <3>1, <4>1, Count
      <4> QED
        BY <4>2 DEF LastInv
    <3>5. CASE mishaps # 0
      BY <1>a, <3>1, <3>5 DEF LastInv, Clean
    <3> QED
      BY <3>3, <3>4, <3>5

  <2>2. CASE ~raises
    <3>1. SendCommand(FALSE) /\ session # 0 /\ ~waiting
      BY <1>3, <2>2, Commands DEF SendCommand, SocketInv
    <3>2. /\ pc \in DOMAIN CmdOf /\ waiting' = TRUE
          /\ UNCHANGED <<pc, mishaps, unclean, session, inq, back, did>>
          /\ Len(wire') = Len(wire) + 1 /\ wire'[Len(wire) + 1].cmd = CmdOf[pc]
          /\ wire'[Len(wire) + 1].by = session
          /\ \A i \in 1..Len(wire) : wire'[i] = wire[i]
      BY <3>1, SendEffect
    <3>3. Outstanding' = Outstanding + 1 /\ (AllOwn => AllOwn')
      BY <3>1, SendMoves
    <3>4. Clean' => Clean
      BY <3>2 DEF Clean

    <3>5. CASE pc # "recordStop"
      BY <1>c, <3>2, <3>5, Commands
    <3>6. CASE pc = "recordStop"
      <4>1. wire'[Len(wire')].cmd = "RECORD_STOP"
        BY <3>2, <3>6, Commands
      <4>2. wire' # <<>>
        BY <3>1 DEF SendCommand, TypeOK
      <4> QED
        BY <4>1, <4>2 DEF LastInv, IsStop
    <3> QED
      BY <3>5, <3>6
  <2> QED
    BY <2>1, <2>2
<1>4. ASSUME ReceiveReply PROVE LastInv'
  <2>1. /\ Outstanding' = Outstanding - 1 /\ Len(inq) \in Nat \ {0}
        /\ Len(inq') = Len(inq) - 1
        /\ \A i \in 1..Len(inq') : i + 1 \in 1..Len(inq) /\ inq'[i] = inq[i + 1]
        /\ UNCHANGED <<wire, back, did, session, mishaps, unclean>>
        /\ pc' = After[pc] /\ waiting /\ ~waiting'
    BY <1>4, ReceiveMoves, ReceiveEffect DEF GoOn
  <2>2. pc \in DOMAIN CmdOf
    BY <2>1 DEF SocketInv
  <2>3. Clean' => Clean
    BY <2>1 DEF Clean

  <2>4. CASE pc # "recordStop"
    BY <1>c, <1>d, <2>1, <2>2, <2>4
  <2>5. CASE pc = "recordStop"
    <3>1. inq' # <<>> => inq'[Len(inq')] = inq[Len(inq)]
      <4>1. inq' \in Seq(Replies)
        BY <1>4, ReceiveEffect
      <4>2. inq' # <<>> => Len(inq') # 0
        BY <4>1, EmptySeq
      <4>3. Len(inq') # 0 => Len(inq') \in 1..Len(inq') /\ Len(inq') + 1 = Len(inq)
        BY <2>1
      <4> QED
        BY <2>1, <4>2, <4>3
    <3>2. inq # <<>>
      BY <2>1, Numbers
    <3> QED
      BY <2>1, <2>3, <2>5, <3>1, <3>2 DEF LastInv, IsStop
  <2> QED
    BY <2>4, <2>5
<1>5. ASSUME ReplyTimeout PROVE LastInv'
  <2>1. /\ UNCHANGED <<inq, wire, back, session, unclean, did, sock>> /\ inq = <<>>
        /\ pc' = After[pc] /\ waiting /\ ~waiting'
        /\ \/ wire = <<>> /\ back = <<>> /\ mishaps' = mishaps
           \/ mishaps' = mishaps + 1
    BY <1>5 DEF ReplyTimeout, GoOn, Fault, NoFault
  <2>2. pc \in DOMAIN CmdOf
    BY <2>1 DEF SocketInv
  <2>3. mishaps' = mishaps \/ mishaps' = mishaps + 1
    BY <2>1
  <2>4. Clean' => Clean
    BY <1>a, <2>1, <2>3, CleanStep

  <2>5. CASE pc # "recordStop"
    BY <1>c, <1>d, <2>1, <2>2, <2>5
  <2>6. CASE pc = "recordStop"
    BY <1>b, <2>1, <2>4, <2>6
  <2> QED
    BY <2>5, <2>6
<1>6. ASSUME NEW raises \in BOOLEAN, Bind(raises) PROVE LastInv'
  <2>1. /\ pc = "bind"
        /\ UNCHANGED <<wire, back, inq, session, unclean, waiting, killed, did>>
        /\ pc' = IF raises THEN "dead" ELSE "resetRadar"
        /\ mishaps' = mishaps \/ mishaps' = mishaps + 1
        /\ raises \/ (wire = <<>> /\ back = <<>>) \/ mishaps' = mishaps + 1
    BY <1>6, Table DEF Bind, Fault, NoFault
  <2>2. Clean' => Clean
    BY <1>a, <2>1, CleanStep
  <2>3. inq = <<>> /\ ~killed /\ ~waiting
    BY <2>1 DEF SocketInv, Down

  <2> QED
    BY <1>c, <2>1
<1>7. ASSUME NEW raises \in BOOLEAN, LocalStep(raises) PROVE LastInv'
  <2>1. /\ UNCHANGED <<inq, back, wire, did, session, waiting, unclean, killed>>
        /\ waiting = FALSE /\ mishaps' \in Nat /\ mishaps <= mishaps'
    BY <1>7, LocalEffect
  <2>2. Clean' => Clean
    BY <2>1, CleanStep
  <2>3. pc = "starting" <=> pc' \in Down
    BY <1>7, LocalEffect
  <2>4. /\ pc \notin DOMAIN CmdOf \cup {"bind", "dead"}
        /\ pc' \notin {"close", "resetRadar"}
    BY <1>7, LocalEffect

  <2> QED
    BY <1>c, <2>1, <2>4
<1>8. ASSUME Close PROVE LastInv'
  <2>1. /\ pc = "close" /\ pc' = "dead" /\ inq' = <<>> /\ ~waiting'
        /\ UNCHANGED <<wire, back, session, unclean, mishaps, killed, did>>
    BY <1>8, Table DEF Close, GoOn, NoFault

  <2> QED
    BY <1>c, <2>1
<1>9. ASSUME NEW fate \in {"done", "refused", "lost"}, TakeRequest(fate)
      PROVE  LastInv'
  <2>1. UNCHANGED <<pc, waiting, session, unclean, sock, killed>>
    BY <1>9, TakeEffect
  <2>2. mishaps' = mishaps \/ mishaps' = mishaps + 1
    BY <1>9, TakeEffect DEF Fault
  <2>3. Outstanding' \in {Outstanding, Outstanding - 1}
    BY <1>9, TakeMoves

  <2>4. Clean' => Clean
    BY <1>a, <2>1, <2>2, CleanStep
  <2>5. /\ Len(wire') = Len(wire) - 1 /\ Len(wire) # 0 /\ wire' \in Seq(Requests)
        /\ \A i \in 1..Len(wire') : i + 1 \in 1..Len(wire) /\ wire'[i] = wire[i + 1]
        /\ fate # "lost" => /\ Len(back') = Len(back) + 1
                            /\ back'[Len(back) + 1].cmd = wire[1].cmd
        /\ inq' = inq
    BY <1>9, TakeEffect
  <2> SUFFICES ASSUME Clean', pc = "close" \/ (pc = "recordStop" /\ waiting)
               PROVE  LastInv'
    BY <2>1 DEF LastInv
  <2>6. wire[Len(wire)].cmd = "RECORD_STOP"
    BY <1>f, <2>4, <2>5, Numbers DEF LastInv, IsStop
  <2>7. Len(wire') # 0 => wire'[Len(wire')].cmd = "RECORD_STOP"
    <3>1. Len(wire') # 0 => Len(wire') \in 1..Len(wire') /\ Len(wire') + 1 = Len(wire)
      BY <1>f, <2>5
    <3> QED
      BY <2>5, <2>6, <3>1
  <2>8. CASE fate # "lost"
    <3>1. Len(wire') = 0 => back'[Len(back')].cmd = "RECORD_STOP"
      <4>1. Len(wire') = 0 => Len(wire) = 1
        BY <1>f, <2>5
      <4>2. back'[Len(back')].cmd = wire[1].cmd
        BY <2>5, <2>8
      <4> QED
        BY <2>6, <4>1, <4>2
    <3>2. back' # <<>>
      BY <1>f, <2>5, <2>8, EmptySeq
    <3>3. wire' = <<>> <=> Len(wire') = 0
      BY <2>5, EmptySeq
    <3> QED
      BY <2>7, <3>1, <3>2, <3>3 DEF LastInv, IsStop
  <2>9. CASE fate = "lost"
    <3>1. mishaps' = mishaps + 1 /\ back' = back
      BY <1>9, <2>9, TakeEffect DEF Fault
    <3>2. mishaps = 0
      BY <1>a, <3>1 DEF Clean
    <3>3. Outstanding <= 1
      BY <1>a, <1>e, <3>2 DEF Down
    <3>4. Len(back) = 0 /\ Len(inq) = 0 /\ Len(wire') = 0
      BY <1>f, <2>5, <3>3 DEF Outstanding
    <3>5. back' = <<>> /\ inq' = <<>> /\ wire' = <<>>
      BY <2>5, <3>1, <3>4, Numbers, EmptySeq
    <3> QED
      BY <3>5 DEF LastInv
  <2> QED
    BY <2>8, <2>9
<1>10. ASSUME NEW lost \in BOOLEAN, ReplyArrives(lost) PROVE LastInv'
  <2>1. UNCHANGED <<pc, waiting, session, unclean, sock, killed>>
    BY <1>10, ArriveEffect
  <2>2. mishaps' = mishaps \/ mishaps' = mishaps + 1
    BY <1>10, ArriveEffect DEF Fault
  <2>3. Outstanding' \in {Outstanding, Outstanding - 1}
    BY <1>10, ArriveMoves

  <2>4. Clean' => Clean
    BY <1>a, <2>1, <2>2, CleanStep
  <2>5. /\ Len(back') = Len(back) - 1 /\ Len(back) # 0 /\ back' \in Seq(Replies)
        /\ \A i \in 1..Len(back') : i + 1 \in 1..Len(back) /\ back'[i] = back[i + 1]
        /\ sock /\ ~lost => Len(inq') = Len(inq) + 1 /\ inq'[Len(inq) + 1] = back[1]
        /\ wire' = wire
    BY <1>10, ArriveEffect
  <2> SUFFICES ASSUME Clean', pc = "close" \/ (pc = "recordStop" /\ waiting)
               PROVE  LastInv'
    BY <2>1 DEF LastInv
  <2>6. wire = <<>> => back[Len(back)].cmd = "RECORD_STOP"
    BY <1>f, <2>4, <2>5, Numbers DEF LastInv, IsStop
  <2>7. wire = <<>> /\ Len(back') # 0 => back'[Len(back')].cmd = "RECORD_STOP"
    <3>1. Len(back') # 0 => Len(back') \in 1..Len(back') /\ Len(back') + 1 = Len(back)
      BY <1>f, <2>5
    <3> QED
      BY <2>5, <2>6, <3>1
  <2>8. wire # <<>> => wire[Len(wire)].cmd = "RECORD_STOP"
    BY <2>4 DEF LastInv, IsStop
  <2>9. back' = <<>> <=> Len(back') = 0
    BY <2>5, EmptySeq
  <2>10. wire = <<>> /\ Len(back') = 0 /\ inq' # <<>> =>
           inq'[Len(inq')].cmd = "RECORD_STOP"
    <3>1. CASE ~lost
      <4>1. sock
        BY DEF SocketInv, Down
      <4>2. Len(back') = 0 => Len(back) = 1
        BY <1>f, <2>5
      <4>3. inq'[Len(inq')] = back[1]
        BY <2>5, <3>1, <4>1
      <4> QED
        BY <2>6, <4>2, <4>3
    <3>2. CASE lost
      <4>1. mishaps' = mishaps + 1 /\ inq' = inq
        BY <1>10, <3>2, ArriveEffect DEF Fault
      <4>2. mishaps = 0
        BY <1>a, <4>1 DEF Clean
      <4>3. Outstanding <= 1
        BY <1>a, <1>e, <4>2 DEF Down
      <4>4. Len(inq) = 0
        BY <1>f, <2>5, <4>3 DEF Outstanding
      <4> QED
        BY <4>1, <4>4, Numbers
    <3> QED
      BY <3>1, <3>2
  <2> QED
    BY <2>5, <2>7, <2>8, <2>9, <2>10 DEF LastInv, IsStop
<1>11. ASSUME SendStop \/ StopArrives \/ CloseControl \/ Pump \/ Emit
      PROVE  LastInv'
  <2>1. UNCHANGED <<pc, waiting, wire, inq, back, did, session, mishaps, unclean,
                    killed>>
    BY <1>11 DEF SendStop, StopArrives, CloseControl, Pump, Emit

  <2> QED
    BY <1>b, <2>1 DEF Clean
<1> QED
  BY <1>1, <1>2, <1>3, <1>4, <1>5, <1>6, <1>7, <1>8, <1>9, <1>10, <1>11
  DEF Next, WorkerStep, NetStep, LocalStep

\* Every step keeps the successes reported in a clean session true.
LEMMA ReportStep ==
  ASSUME TypeOK, SocketInv, FirstInv, OwnInv, ReportInv, Next
  PROVE  ReportInv'
<1>a. mishaps \in Nat /\ Outstanding \in Nat
  BY Numbers, Count
<1>b. ASSUME reported' \subseteq reported, did \subseteq did', Clean' => Clean
      PROVE  ReportInv'
  BY <1>b DEF ReportInv
<1>c. ASSUME UNCHANGED unclean, mishaps' = mishaps \/ mishaps' = mishaps + 1
      PROVE  Clean' => Clean
  BY <1>a, <1>c, CleanStep
<1> USE DEF hostVars, dataVars, netVars, devVars, ctlVars, histVars, flowVars
<1>1. ASSUME StartWorker PROVE ReportInv'
  BY <1>1 DEF StartWorker, ReportInv
<1>2. ASSUME Kill PROVE ReportInv'
  BY <1>2, <1>b DEF Kill, Clean
<1>3. ASSUME NEW raises \in BOOLEAN, SendCommand(raises) PROVE ReportInv'
  <2>1. CASE raises
    BY <1>3, <2>1, <1>b, <1>c DEF SendCommand, Fault, NoFault, Raise
  <2>2. CASE ~raises
    BY <1>3, <2>2, <1>b, <1>c DEF SendCommand, Fault, NoFault
  <2> QED
    BY <2>1, <2>2
<1>4. ASSUME ReceiveReply PROVE ReportInv'
  <2>1. /\ Outstanding' = Outstanding - 1 /\ Len(inq) \in Nat \ {0}
        /\ Len(inq') = Len(inq) - 1
        /\ \A i \in 1..Len(inq') : i + 1 \in 1..Len(inq) /\ inq'[i] = inq[i + 1]
        /\ UNCHANGED <<wire, back, did, session, mishaps, unclean>>
        /\ pc' = After[pc] /\ waiting /\ ~waiting'
    BY <1>4, ReceiveMoves, ReceiveEffect DEF GoOn
  <2>2. pc \in DOMAIN CmdOf
    BY <2>1 DEF SocketInv
  <2>3. Clean' => Clean
    BY <2>1 DEF Clean

  <2> SUFFICES ASSUME Clean, inq[1].cmd = CmdOf[pc], inq[1].ok PROVE CmdOf[pc] \in did
    <3>1. reported' = IF inq[1].cmd = CmdOf[pc] /\ inq[1].ok
                      THEN reported \cup {CmdOf[pc]} ELSE reported
      BY <1>4, ReceiveEffect
    <3> QED
      BY <2>1, <2>3, <3>1 DEF ReportInv
  <2>4. CASE pc # "resetRadar"
    <3>1. OwnReply(inq[1])
      BY <2>1, <2>2, <2>4, Ends DEF OwnInv, AllOwn
    <3> QED
      BY <3>1 DEF OwnReply
  <2>5. CASE pc = "resetRadar"
    <3>1. CmdOf[pc] # "RECORD_STOP"
      BY <2>5, Commands
    <3>2. OwnReply(inq[1])
      BY <2>1, <2>5, <3>1 DEF FirstInv, IsStop
    <3> QED
      BY <3>2 DEF OwnReply
  <2> QED
    BY <2>4, <2>5
<1>5. ASSUME ReplyTimeout PROVE ReportInv'
  BY <1>5, <1>b, <1>c DEF ReplyTimeout, Fault, NoFault, GoOn
<1>6. ASSUME NEW raises \in BOOLEAN, Bind(raises) PROVE ReportInv'
  <2>1. CASE raises
    BY <1>6, <2>1, <1>b, <1>c DEF Bind, Fault, NoFault, Raise
  <2>2. CASE ~raises
    BY <1>6, <2>2, <1>b, <1>c DEF Bind, Fault, NoFault
  <2> QED
    BY <2>1, <2>2
<1>7. ASSUME NEW raises \in BOOLEAN, LocalStep(raises) PROVE ReportInv'
  <2>1. /\ UNCHANGED <<inq, back, wire, did, session, waiting, unclean, killed>>
        /\ waiting = FALSE /\ mishaps' \in Nat /\ mishaps <= mishaps'
    BY <1>7, LocalEffect
  <2>2. Clean' => Clean
    BY <2>1, CleanStep
  <2>3. pc = "starting" <=> pc' \in Down
    BY <1>7, LocalEffect
  <2>4. /\ pc \notin DOMAIN CmdOf \cup {"bind", "dead"}
        /\ pc' \notin {"close", "resetRadar"}
    BY <1>7, LocalEffect

  <2>5. reported' = reported
    BY <1>7
    DEF LocalStep, Sleep, OpenRadar, ThreadStart, StartSensor, Poll, Get, Report,
        StopSensor, ThreadStop
  <2> QED
    BY <1>b, <2>1, <2>2, <2>5
<1>8. ASSUME Close PROVE ReportInv'
  BY <1>8, <1>b, <1>c DEF Close, Fault, NoFault, GoOn
<1>9. ASSUME NEW fate \in {"done", "refused", "lost"}, TakeRequest(fate)
      PROVE  ReportInv'
  <2>1. UNCHANGED <<pc, waiting, session, unclean, sock, killed>>
    BY <1>9, TakeEffect
  <2>2. mishaps' = mishaps \/ mishaps' = mishaps + 1
    BY <1>9, TakeEffect DEF Fault
  <2>3. Outstanding' \in {Outstanding, Outstanding - 1}
    BY <1>9, TakeMoves

  <2>4. UNCHANGED reported /\ did \subseteq did'
    BY <1>9, TakeEffect
  <2> QED
    BY <1>b, <1>c, <2>1, <2>2, <2>4
<1>10. ASSUME NEW lost \in BOOLEAN, ReplyArrives(lost) PROVE ReportInv'
  <2>1. UNCHANGED <<pc, waiting, session, unclean, sock, killed>>
    BY <1>10, ArriveEffect
  <2>2. mishaps' = mishaps \/ mishaps' = mishaps + 1
    BY <1>10, ArriveEffect DEF Fault
  <2>3. Outstanding' \in {Outstanding, Outstanding - 1}
    BY <1>10, ArriveMoves

  <2>4. UNCHANGED reported /\ did \subseteq did'
    BY <1>10, ArriveEffect
  <2> QED
    BY <1>b, <1>c, <2>1, <2>2, <2>4
<1>11. ASSUME SendStop \/ StopArrives \/ CloseControl \/ Pump \/ Emit
      PROVE  ReportInv'
  BY <1>11, <1>b DEF SendStop, StopArrives, CloseControl, Pump, Emit, Clean
<1> QED
  BY <1>1, <1>2, <1>3, <1>4, <1>5, <1>6, <1>7, <1>8, <1>9, <1>10, <1>11
  DEF Next, WorkerStep, NetStep, LocalStep

\* The invariant holds before the first worker.
LEMMA InitIInv == Init => IInv
<1> SUFFICES ASSUME Init PROVE IInv
  OBVIOUS
<1> USE DEF Init
<1>1. TypeOK
  <2>1. /\ inq \in Seq(Replies) /\ back \in Seq(Replies) /\ wire \in Seq(Requests)
    BY EmptySeq
  <2>2. session \in 0..MaxSessions /\ faults \in 0..MaxFaults /\ mishaps \in 0..faults
    BY BoundsAssumption
  <2>3. /\ waiting \in BOOLEAN /\ radar \in BOOLEAN /\ thread \in BOOLEAN
        /\ sock \in BOOLEAN /\ on \in BOOLEAN /\ asked \in BOOLEAN
        /\ killed \in BOOLEAN /\ bound \in BOOLEAN /\ unclean \in BOOLEAN
    OBVIOUS
  <2>4. rec \in Sessions \cup {0} /\ arrived \in 0..2 /\ kept \in 0..1
    OBVIOUS
  <2>5. did \subseteq Cmds /\ reported \subseteq Cmds
    OBVIOUS
  <2> QED
    BY <2>1, <2>2, <2>3, <2>4, <2>5 DEF TypeOK
<1>2. SocketInv /\ RadarInv /\ StepInv
  BY Table DEF SocketInv, RadarInv, StepInv, Down, Configuring, Recording
<1>3. Len(wire) = 0 /\ Len(back) = 0
  BY EmptySeq
<1>4. WireInv /\ RecordInv /\ OwnWireInv
  BY <1>3 DEF WireInv, RecordInv, OwnWireInv, Configuring, Recording
<1>5. ResetInv /\ QuietInv /\ StreamInv /\ PacketInv
  BY Ends DEF ResetInv, QuietInv, StreamInv, PacketInv, Configuring, Recording, Down
<1>6. LeftInv /\ FewInv /\ FirstInv /\ OwnInv /\ LastInv /\ ReportInv
  BY <1>3 DEF LeftInv, FewInv, FirstInv, OwnInv, LastInv, ReportInv, Down
<1> QED
  BY <1>1, <1>2, <1>4, <1>5, <1>6 DEF IInv

\* A step that changes nothing keeps the invariant.
LEMMA SameIInv == ASSUME IInv, UNCHANGED vars PROVE IInv'
<1> USE DEF vars, flowVars, hostVars, dataVars, netVars, devVars, ctlVars, histVars, IInv
<1>1. UNCHANGED <<session, pc, waiting, radar, thread, sock, kernel, ring, shown, inq,
                  wire, back, on, rec, ctl, asked, arrived, kept, faults, mishaps,
                  killed, bound, unclean, did, reported>>
  OBVIOUS
<1>2. TypeOK'
  BY <1>1 DEF TypeOK
<1>3. SocketInv' /\ RadarInv' /\ WireInv'
  BY <1>1 DEF SocketInv, RadarInv, WireInv
<1>4. InStep' = InStep /\ (AllOwn <=> AllOwn')
  BY <1>1 DEF InStep, Outstanding, AllOwn, OwnReply, OwnRequest
<1>5. StepInv' /\ RecordInv' /\ OwnWireInv'
  BY <1>1, <1>4 DEF StepInv, RecordInv, OwnWireInv, OwnRequest
<1>6. (\A c : Promised(c) => Promised(c)') /\ (Recovered <=> Recovered')
  BY <1>1, <1>4 DEF Promised, Recovered
<1>7. ResetInv' /\ QuietInv'
  BY <1>1, <1>4, <1>6 DEF ResetInv, QuietInv
<1>8. Clean' => Clean
  BY <1>1 DEF Clean
<1>9. StreamInv' /\ PacketInv' /\ ReportInv'
  BY <1>1, <1>8 DEF StreamInv, PacketInv, ReportInv, OwnRequest
<1>10. LeftInv' /\ FewInv' /\ FirstInv'
  BY <1>1, <1>8 DEF LeftInv, FewInv, FirstInv, Outstanding, OwnReply, OwnRequest, IsStop
<1>11. OwnInv' /\ LastInv'
  BY <1>1, <1>4, <1>8 DEF OwnInv, LastInv, IsStop
<1> QED
  BY <1>2, <1>3, <1>5, <1>7, <1>9, <1>10, <1>11

\* Every step keeps the invariant.
LEMMA NextIInv == ASSUME IInv, Next PROVE IInv'
<1> USE DEF IInv
<1>1. TypeOK'
  BY TypeStep
<1>2. SocketInv' /\ RadarInv'
  BY SocketStep, RadarStep
<1>3. WireInv' /\ StepInv'
  BY WireStep, StepStep
<1>4. RecordInv' /\ OwnWireInv' /\ ResetInv'
  BY RecordStep, OwnWireStep, ResetStep
<1>5. QuietInv' /\ StreamInv' /\ PacketInv'
  BY QuietStep, StreamStep, PacketStep
<1>6. LeftInv' /\ FewInv' /\ FirstInv'
  BY LeftStep, FewStep, FirstStep
<1>7. OwnInv' /\ LastInv' /\ ReportInv'
  BY OwnStep, LastStep, ReportStep
<1> QED
  BY <1>1, <1>2, <1>3, <1>4, <1>5, <1>6, <1>7

\* The invariant, for any number of sessions and of faults.
THEOREM Invariance == Spec => []IInv
<1>1. IInv /\ [Next]_vars => IInv'
  BY NextIInv, SameIInv
<1> QED
  BY InitIInv, <1>1, PTL DEF Spec

\* The types, and that the receive thread reads a socket that is open.
THEOREM TypeCorrect == Spec => []TypeOK
<1>1. IInv => TypeOK
  BY DEF IInv
<1> QED
  BY Invariance, <1>1, PTL

\* A worker that ended by itself leaves no stream behind, with one fault in its
\* session wherever that was, and whatever the sessions before it did.
THEOREM QuietWhenOver == Spec => []QuietAtEnd
<1>1. IInv => QuietAtEnd
  BY DEF IInv, QuietInv, QuietAtEnd, Emitting
<1> QED
  BY Invariance, <1>1, PTL

\* While a session streams with at most one fault in it, the card sends packets of
\* its own recording only, whatever was left running before.
THEOREM StreamIsOwn == Spec => []OwnStream
<1>1. IInv => OwnStream
  BY DEF IInv, ResetInv, RecordInv, Recording, OwnStream, Emitting
<1> QED
  BY Invariance, <1>1, PTL

\* The frames a worker reports are its own session's, with at most one fault in it,
\* if no worker before it was killed or met two.
THEOREM FramesAreOwn == Spec => []FramesOwn
<1>1. IInv => FramesOwn
  BY DEF IInv, PacketInv, Clean, FramesOwn
<1> QED
  BY Invariance, <1>1, PTL

\* A success reported of a command to the FPGA is one, with at most one fault in the
\* session, if no worker before it was killed or met two.
THEOREM ReportsAreTrue == Spec => []ReportTrue
<1>1. IInv => ReportTrue
  BY DEF IInv, ReportInv, Clean, ReportTrue
<1> QED
  BY Invariance, <1>1, PTL

===============================================================================
