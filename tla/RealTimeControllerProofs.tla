----------------------- MODULE RealTimeControllerProofs -----------------------
(***************************************************************************)
(* Type correctness and the safety of RealTimeController, for any request  *)
(* threads and any number of sessions: one worker at most, a stop that     *)
(* returned stopped it, a calm session is left alone.                      *)
(*                                                                         *)
(* One lemma for each conjunct of IInv shows that a step preserves it, and *)
(* names the conjuncts that it takes for that.                             *)
(***************************************************************************)
EXTENDS RealTimeController, TLAPS

LEMMA InitIInv == Init => IInv
<1> SUFFICES ASSUME Init PROVE IInv
  OBVIOUS
<1> USE SessionsAssumption DEF Sessions, None
<1>1. started = 0 /\ asked = FALSE /\ settled = FALSE /\ calm = FALSE
      /\ raced = FALSE
  BY DEF Init
<1>2. TypeOK
  <2>1. /\ worker \in [Sessions -> {"none", "boot", "connected", "closing", "dead"}]
        /\ conn \in [Sessions -> {"none", "open", "closed"}]
        /\ reader \in [Sessions -> {"none", "lines", "exited", "done"}]
        /\ sock \in [Sessions -> {"none", "begin", "accept", "accepted", "recv",
                                 "final", "done"}]
        /\ server \in [Sessions -> Sessions \cup {None}]
        /\ peer \in [Sessions -> Sessions \cup {None}]
    BY DEF Init
  <2>2. /\ pc \in [Callers -> {"idle", "send", "wait", "rewait", "finish"}]
        /\ target \in [Callers -> Sessions \cup {None}]
    BY DEF Init
  <2>3. /\ process = None /\ serverSock = None /\ connSock = None
        /\ results = {} /\ told = {} /\ listening = {} /\ since = {}
    BY DEF Init
  <2>4. /\ settled \in BOOLEAN /\ asked \in BOOLEAN
        /\ calm \in BOOLEAN /\ raced \in BOOLEAN
    BY <1>1
  <2>5. started \in 0..MaxSessions
    BY <1>1
  <2> QED
    BY <2>1, <2>2, <2>3, <2>4, <2>5 DEF TypeOK
<1>3. FreshInv /\ ConnInv /\ ThreadInv /\ CallInv
  BY <1>1 DEF Init, FreshInv, ConnInv, ThreadInv, CallInv
<1>4. OneWorker /\ StopStops
  BY DEF Init, OneWorker, StopStops, Alive
<1>5. CalmInv /\ CalmSession
  BY <1>1 DEF CalmInv, CalmSession
<1> QED
  BY <1>2, <1>3, <1>4, <1>5 DEF IInv

(***************************************************************************)
(* The steps, conjunct by conjunct.                                        *)
(***************************************************************************)
\* The variables keep their types.
LEMMA TypeStep ==
  ASSUME TypeOK, ThreadInv, Next
  PROVE  TypeOK'
<1> USE SessionsAssumption DEF Sessions, None, TypeOK, fieldVars, procVars,
      sockVars, recvVars, callVars, histVars
<1>1. ASSUME NEW c \in Callers, NEW spawned \in BOOLEAN, Start(c, spawned)
      PROVE  TypeOK'
  <2>1. asked' \in BOOLEAN /\ settled' \in BOOLEAN
    BY <1>1 DEF Start
  <2>2. calm' \in BOOLEAN /\ raced' \in BOOLEAN
    BY <1>1 DEF Start
  <2>3. /\ serverSock' \in Sessions /\ started' \in 0..MaxSessions
        /\ listening' \subseteq Sessions /\ process' \in Sessions \cup {None}
    BY <1>1 DEF Start
  <2>4. CASE spawned = TRUE
    <3>1. worker' \in [Sessions -> {"none", "boot", "connected", "closing", "dead"}]
      BY <1>1, <2>4 DEF Start
    <3>2. reader' \in [Sessions -> {"none", "lines", "exited", "done"}]
      BY <1>1, <2>4 DEF Start
    <3>3. sock' \in [Sessions -> {"none", "begin", "accept", "accepted", "recv",
                                "final", "done"}]
      BY <1>1, <2>4 DEF Start
    <3> QED
      BY <1>1, <2>1, <2>2, <2>3, <3>1, <3>2, <3>3 DEF Start
  <2>5. CASE spawned = FALSE
    BY <1>1, <2>1, <2>2, <2>3, <2>5 DEF Start
  <2> QED
    BY <2>4, <2>5
<1>2. ASSUME NEW c \in Callers, StopCall(c)
      PROVE  TypeOK'
  <2>1. asked' \in BOOLEAN /\ settled' \in BOOLEAN
    BY <1>2 DEF StopCall
  <2>2. calm' \in BOOLEAN /\ raced' \in BOOLEAN
    BY <1>2 DEF StopCall
  <2>3. CASE Running
    <3>1. target' \in [Callers -> Sessions \cup {None}]
      <4>1. target' = [target EXCEPT ![c] = process]
        BY <1>2, <2>3 DEF StopCall
      <4>2. process \in Sessions \cup {None} /\ target \in [Callers -> Sessions \cup {None}]
        OBVIOUS
      <4> HIDE DEF TypeOK, Sessions
      <4> QED
        BY <4>1, <4>2
    <3>2. pc' \in [Callers -> {"idle", "send", "wait", "rewait", "finish"}]
      BY <1>2, <2>3 DEF StopCall
    <3>3. since' \subseteq Callers
      BY <1>2, <2>3 DEF StopCall
    <3>4. UNCHANGED <<fieldVars, results, started, procVars, sockVars, reader,
                      recvVars>>
      BY <1>2, <2>3 DEF StopCall
    <3> QED
      BY <2>1, <2>2, <3>1, <3>2, <3>3, <3>4
  <2>4. CASE ~Running
    <3>1. Cleanup
      BY <1>2, <2>4 DEF StopCall
    <3>2. listening' \subseteq Sessions
      BY <3>1 DEF Cleanup
    <3>3. conn' \in [Sessions -> {"none", "open", "closed"}]
      BY <3>1 DEF Cleanup, Closed
    <3> QED
      BY <1>2, <2>1, <2>2, <2>4, <3>2, <3>3 DEF StopCall, Cleanup
  <2> QED
    BY <2>3, <2>4
<1>3. ASSUME NEW c \in Callers, StopSend(c)
      PROVE  TypeOK'
  BY <1>3 DEF StopSend
<1>4. ASSUME NEW c \in Callers, StopWait(c)
      PROVE  TypeOK'
  BY <1>4 DEF StopWait, Polled
<1>5. ASSUME NEW c \in Callers, StopTimeout(c)
      PROVE  TypeOK'
  BY <1>5 DEF StopTimeout, Polled
<1>6. ASSUME NEW c \in Callers, StopGiveUp(c)
      PROVE  TypeOK'
  BY <1>6 DEF StopGiveUp, Polled
<1>7. ASSUME NEW c \in Callers, StopFinish(c)
      PROVE  TypeOK'
  BY <1>7 DEF StopFinish, Cleanup, Closed
<1>8. ASSUME NEW s \in Sessions, ReaderEof(s)
      PROVE  TypeOK'
  BY <1>8 DEF ReaderEof
<1>9. ASSUME NEW s \in Sessions, ReaderFinish(s)
      PROVE  TypeOK'
  BY <1>9 DEF ReaderFinish, Cleanup, Closed
<1>10. ASSUME NEW s \in Sessions, SockBegin(s)
      PROVE  TypeOK'
  BY <1>10 DEF SockBegin
<1>11. ASSUME NEW s \in Sessions, SockAccept(s)
      PROVE  TypeOK'
  BY <1>11 DEF SockAccept
<1>12. ASSUME NEW s \in Sessions, SockFail(s)
      PROVE  TypeOK'
  BY <1>12 DEF SockFail
<1>13. ASSUME NEW s \in Sessions, SockStore(s)
      PROVE  TypeOK'
  BY <1>13 DEF SockStore
<1>14. ASSUME NEW s \in Sessions, SockResult(s)
      PROVE  TypeOK'
  BY <1>14 DEF SockResult, ThreadInv
<1>15. ASSUME NEW s \in Sessions, SockEnd(s)
      PROVE  TypeOK'
  BY <1>15 DEF SockEnd, Alive
<1>16. ASSUME NEW s \in Sessions, SockFinish(s)
      PROVE  TypeOK'
  BY <1>16 DEF SockFinish, Closed
<1>17. ASSUME NEW s \in Sessions, WorkerConnect(s)
      PROVE  TypeOK'
  BY <1>17 DEF WorkerConnect
<1>18. ASSUME NEW s \in Sessions, WorkerExit(s)
      PROVE  TypeOK'
  BY <1>18 DEF WorkerExit, Alive
<1>19. ASSUME NEW s \in Sessions, WorkerGone(s)
      PROVE  TypeOK'
  BY <1>19 DEF WorkerGone
<1> HIDE DEF TypeOK
<1> QED
  BY <1>1, <1>2, <1>3, <1>4, <1>5, <1>6, <1>7, <1>8, <1>9, <1>10, <1>11, <1>12,
     <1>13, <1>14, <1>15, <1>16, <1>17, <1>18, <1>19
  DEF Next, StopStep, ReaderStep, SockStep

\* Only start begins a session, and it begins the next.
LEMMA FreshStep ==
  ASSUME TypeOK, FreshInv, CallInv, Next
  PROVE  FreshInv'
<1> USE SessionsAssumption DEF Sessions, None, TypeOK, FreshInv, CallInv,
      fieldVars, procVars, sockVars, recvVars, callVars, histVars
<1>1. ASSUME NEW c \in Callers, NEW spawned \in BOOLEAN, Start(c, spawned)
      PROVE  FreshInv'
  BY <1>1 DEF Start, Running, Polled
<1>2. ASSUME NEW c \in Callers, StopCall(c)
      PROVE  FreshInv'
  BY <1>2 DEF StopCall, Running, Polled, Cleanup, Closed
<1>3. ASSUME NEW c \in Callers, StopSend(c)
      PROVE  FreshInv'
  BY <1>3 DEF StopSend
<1>4. ASSUME NEW c \in Callers, StopWait(c)
      PROVE  FreshInv'
  BY <1>4 DEF StopWait, Polled
<1>5. ASSUME NEW c \in Callers, StopTimeout(c)
      PROVE  FreshInv'
  BY <1>5 DEF StopTimeout, Polled
<1>6. ASSUME NEW c \in Callers, StopGiveUp(c)
      PROVE  FreshInv'
  BY <1>6 DEF StopGiveUp, Polled
<1>7. ASSUME NEW c \in Callers, StopFinish(c)
      PROVE  FreshInv'
  BY <1>7 DEF StopFinish, Cleanup, Closed
<1>8. ASSUME NEW s \in Sessions, ReaderEof(s)
      PROVE  FreshInv'
  BY <1>8 DEF ReaderEof
<1>9. ASSUME NEW s \in Sessions, ReaderFinish(s)
      PROVE  FreshInv'
  BY <1>9 DEF ReaderFinish, Cleanup, Closed
<1>10. ASSUME NEW s \in Sessions, SockBegin(s)
      PROVE  FreshInv'
  BY <1>10 DEF SockBegin
<1>11. ASSUME NEW s \in Sessions, SockAccept(s)
      PROVE  FreshInv'
  BY <1>11 DEF SockAccept
<1>12. ASSUME NEW s \in Sessions, SockFail(s)
      PROVE  FreshInv'
  BY <1>12 DEF SockFail
<1>13. ASSUME NEW s \in Sessions, SockStore(s)
      PROVE  FreshInv'
  BY <1>13 DEF SockStore
<1>14. ASSUME NEW s \in Sessions, SockResult(s)
      PROVE  FreshInv'
  BY <1>14 DEF SockResult
<1>15. ASSUME NEW s \in Sessions, SockEnd(s)
      PROVE  FreshInv'
  BY <1>15 DEF SockEnd, Alive
<1>16. ASSUME NEW s \in Sessions, SockFinish(s)
      PROVE  FreshInv'
  BY <1>16 DEF SockFinish, Closed
<1>17. ASSUME NEW s \in Sessions, WorkerConnect(s)
      PROVE  FreshInv'
  BY <1>17 DEF WorkerConnect
<1>18. ASSUME NEW s \in Sessions, WorkerExit(s)
      PROVE  FreshInv'
  BY <1>18 DEF WorkerExit, Alive
<1>19. ASSUME NEW s \in Sessions, WorkerGone(s)
      PROVE  FreshInv'
  BY <1>19 DEF WorkerGone
<1> HIDE DEF TypeOK, FreshInv, CallInv
<1> QED
  BY <1>1, <1>2, <1>3, <1>4, <1>5, <1>6, <1>7, <1>8, <1>9, <1>10, <1>11, <1>12,
     <1>13, <1>14, <1>15, <1>16, <1>17, <1>18, <1>19
  DEF Next, StopStep, ReaderStep, SockStep

\* Connections are made by workers that are past their start.
LEMMA ConnStep ==
  ASSUME TypeOK, FreshInv, ThreadInv, CallInv, ConnInv, Next
  PROVE  ConnInv'
<1> USE SessionsAssumption DEF Sessions, None, TypeOK, FreshInv, ThreadInv,
      CallInv, ConnInv, fieldVars, procVars, sockVars, recvVars, callVars,
      histVars
<1>1. ASSUME NEW c \in Callers, NEW spawned \in BOOLEAN, Start(c, spawned)
      PROVE  ConnInv'
  BY <1>1 DEF Start, Running, Polled
<1>2. ASSUME NEW c \in Callers, StopCall(c)
      PROVE  ConnInv'
  <2>1. CASE Running
    BY <1>2, <2>1 DEF StopCall, Running, Polled
  <2>2. CASE ~Running
    BY <1>2, <2>2 DEF StopCall, Running, Polled, Cleanup, Closed
  <2> QED
    BY <2>1, <2>2
<1>3. ASSUME NEW c \in Callers, StopSend(c)
      PROVE  ConnInv'
  BY <1>3 DEF StopSend
<1>4. ASSUME NEW c \in Callers, StopWait(c)
      PROVE  ConnInv'
  BY <1>4 DEF StopWait, Polled
<1>5. ASSUME NEW c \in Callers, StopTimeout(c)
      PROVE  ConnInv'
  BY <1>5 DEF StopTimeout, Polled
<1>6. ASSUME NEW c \in Callers, StopGiveUp(c)
      PROVE  ConnInv'
  BY <1>6 DEF StopGiveUp, Polled
<1>7. ASSUME NEW c \in Callers, StopFinish(c)
      PROVE  ConnInv'
  BY <1>7 DEF StopFinish, Cleanup, Closed
<1>8. ASSUME NEW s \in Sessions, ReaderEof(s)
      PROVE  ConnInv'
  BY <1>8 DEF ReaderEof
<1>9. ASSUME NEW s \in Sessions, ReaderFinish(s)
      PROVE  ConnInv'
  BY <1>9 DEF ReaderFinish, Cleanup, Closed
<1>10. ASSUME NEW s \in Sessions, SockBegin(s)
      PROVE  ConnInv'
  BY <1>10 DEF SockBegin
<1>11. ASSUME NEW s \in Sessions, SockAccept(s)
      PROVE  ConnInv'
  BY <1>11 DEF SockAccept
<1>12. ASSUME NEW s \in Sessions, SockFail(s)
      PROVE  ConnInv'
  BY <1>12 DEF SockFail
<1>13. ASSUME NEW s \in Sessions, SockStore(s)
      PROVE  ConnInv'
  BY <1>13 DEF SockStore
<1>14. ASSUME NEW s \in Sessions, SockResult(s)
      PROVE  ConnInv'
  BY <1>14 DEF SockResult
<1>15. ASSUME NEW s \in Sessions, SockEnd(s)
      PROVE  ConnInv'
  BY <1>15 DEF SockEnd, Alive
<1>16. ASSUME NEW s \in Sessions, SockFinish(s)
      PROVE  ConnInv'
  <2>1. \A r \in Sessions : conn'[r] # conn[r] => conn[r] # "none"
    BY <1>16 DEF SockFinish, Closed
  <2>2. \A r \in Sessions : conn[r] # "none" => conn'[r] # "none"
    BY <1>16 DEF SockFinish, Closed
  <2>3. /\ connSock' = None /\ worker' = worker
        /\ \A r \in Sessions : peer'[r] \in {None, peer[r]}
    BY <1>16 DEF SockFinish
  <2> QED
    BY <2>1, <2>2, <2>3
<1>17. ASSUME NEW s \in Sessions, WorkerConnect(s)
      PROVE  ConnInv'
  BY <1>17 DEF WorkerConnect
<1>18. ASSUME NEW s \in Sessions, WorkerExit(s)
      PROVE  ConnInv'
  BY <1>18 DEF WorkerExit, Alive
<1>19. ASSUME NEW s \in Sessions, WorkerGone(s)
      PROVE  ConnInv'
  BY <1>19 DEF WorkerGone
<1> HIDE DEF TypeOK, FreshInv, ThreadInv, CallInv, ConnInv
<1> QED
  BY <1>1, <1>2, <1>3, <1>4, <1>5, <1>6, <1>7, <1>8, <1>9, <1>10, <1>11, <1>12,
     <1>13, <1>14, <1>15, <1>16, <1>17, <1>18, <1>19
  DEF Next, StopStep, ReaderStep, SockStep

\* What the threads hold was the newest session's when they took it.
LEMMA ThreadStep ==
  ASSUME TypeOK, FreshInv, CallInv, ThreadInv, Next
  PROVE  ThreadInv'
<1> USE SessionsAssumption DEF Sessions, None, TypeOK, FreshInv, CallInv,
      ThreadInv, fieldVars, procVars, sockVars, recvVars, callVars, histVars
<1>1. ASSUME NEW c \in Callers, NEW spawned \in BOOLEAN, Start(c, spawned)
      PROVE  ThreadInv'
  <2>1. /\ started + 1 \in Sessions /\ started' = started + 1
        /\ serverSock' = started + 1 /\ UNCHANGED <<server, peer>>
    BY <1>1 DEF Start
  <2>2. \A r \in Sessions : r # started + 1 =>
          reader'[r] = reader[r] /\ sock'[r] = sock[r] /\ worker'[r] = worker[r]
    BY <1>1 DEF Start
  <2>3. /\ reader'[started + 1] \in {"none", "lines"}
        /\ sock'[started + 1] \in {"none", "begin"}
    BY <1>1, <2>1 DEF Start
  <2>4. serverSock' \in {None, started'}
    BY <2>1
  <2>5. ASSUME NEW r \in Sessions
        PROVE  /\ server'[r] # None => r <= server'[r] /\ server'[r] <= started'
               /\ peer'[r] # None => r <= peer'[r] /\ peer'[r] <= started'
               /\ sock'[r] = "accept" => server'[r] # None
               /\ sock'[r] \in {"accepted", "recv"} => peer'[r] # None
               /\ reader'[r] = "exited" => worker'[r] \in {"closing", "dead"}
    BY <2>1, <2>2, <2>3
  <2> QED
    BY <2>4, <2>5
<1>2. ASSUME NEW c \in Callers, StopCall(c)
      PROVE  ThreadInv'
  BY <1>2 DEF StopCall, Running, Polled, Cleanup, Closed
<1>3. ASSUME NEW c \in Callers, StopSend(c)
      PROVE  ThreadInv'
  BY <1>3 DEF StopSend
<1>4. ASSUME NEW c \in Callers, StopWait(c)
      PROVE  ThreadInv'
  BY <1>4 DEF StopWait, Polled
<1>5. ASSUME NEW c \in Callers, StopTimeout(c)
      PROVE  ThreadInv'
  BY <1>5 DEF StopTimeout, Polled
<1>6. ASSUME NEW c \in Callers, StopGiveUp(c)
      PROVE  ThreadInv'
  BY <1>6 DEF StopGiveUp, Polled
<1>7. ASSUME NEW c \in Callers, StopFinish(c)
      PROVE  ThreadInv'
  BY <1>7 DEF StopFinish, Cleanup, Closed
<1>8. ASSUME NEW s \in Sessions, ReaderEof(s)
      PROVE  ThreadInv'
  BY <1>8 DEF ReaderEof
<1>9. ASSUME NEW s \in Sessions, ReaderFinish(s)
      PROVE  ThreadInv'
  BY <1>9 DEF ReaderFinish, Cleanup, Closed
<1>10. ASSUME NEW s \in Sessions, SockBegin(s)
      PROVE  ThreadInv'
  BY <1>10 DEF SockBegin
<1>11. ASSUME NEW s \in Sessions, SockAccept(s)
      PROVE  ThreadInv'
  BY <1>11 DEF SockAccept
<1>12. ASSUME NEW s \in Sessions, SockFail(s)
      PROVE  ThreadInv'
  BY <1>12 DEF SockFail
<1>13. ASSUME NEW s \in Sessions, SockStore(s)
      PROVE  ThreadInv'
  BY <1>13 DEF SockStore
<1>14. ASSUME NEW s \in Sessions, SockResult(s)
      PROVE  ThreadInv'
  BY <1>14 DEF SockResult
<1>15. ASSUME NEW s \in Sessions, SockEnd(s)
      PROVE  ThreadInv'
  BY <1>15 DEF SockEnd, Alive
<1>16. ASSUME NEW s \in Sessions, SockFinish(s)
      PROVE  ThreadInv'
  BY <1>16 DEF SockFinish, Closed
<1>17. ASSUME NEW s \in Sessions, WorkerConnect(s)
      PROVE  ThreadInv'
  <2>1. worker[s] = "boot" /\ worker' = [worker EXCEPT ![s] = "connected"]
    BY <1>17 DEF WorkerConnect
  <2>2. UNCHANGED <<serverSock, started, server, peer, sock, reader>>
    BY <1>17 DEF WorkerConnect
  <2> HIDE DEF FreshInv, CallInv
  <2> QED
    BY <2>1, <2>2
<1>18. ASSUME NEW s \in Sessions, WorkerExit(s)
      PROVE  ThreadInv'
  BY <1>18 DEF WorkerExit, Alive
<1>19. ASSUME NEW s \in Sessions, WorkerGone(s)
      PROVE  ThreadInv'
  BY <1>19 DEF WorkerGone
<1> HIDE DEF TypeOK, FreshInv, CallInv, ThreadInv
<1> QED
  BY <1>1, <1>2, <1>3, <1>4, <1>5, <1>6, <1>7, <1>8, <1>9, <1>10, <1>11, <1>12,
     <1>13, <1>14, <1>15, <1>16, <1>17, <1>18, <1>19
  DEF Next, StopStep, ReaderStep, SockStep

\* The process a stop waits for stays the one it found, and stays dead.
LEMMA CallStep ==
  ASSUME TypeOK, FreshInv, ThreadInv, CallInv, Next
  PROVE  CallInv'
<1> USE SessionsAssumption DEF Sessions, None, TypeOK, FreshInv, ThreadInv,
      CallInv, fieldVars, procVars, sockVars, recvVars, callVars, histVars
<1>1. ASSUME NEW c \in Callers, NEW spawned \in BOOLEAN, Start(c, spawned)
      PROVE  CallInv'
  BY <1>1 DEF Start, Running, Polled
<1>2. ASSUME NEW c \in Callers, StopCall(c)
      PROVE  CallInv'
  <2>1. CASE Running
    BY <1>2, <2>1 DEF StopCall, Running, Polled
  <2>2. CASE ~Running
    BY <1>2, <2>2 DEF StopCall, Running, Polled, Cleanup, Closed
  <2> QED
    BY <2>1, <2>2
<1>3. ASSUME NEW c \in Callers, StopSend(c)
      PROVE  CallInv'
  BY <1>3 DEF StopSend
<1>4. ASSUME NEW c \in Callers, StopWait(c)
      PROVE  CallInv'
  BY <1>4 DEF StopWait, Polled
<1>5. ASSUME NEW c \in Callers, StopTimeout(c)
      PROVE  CallInv'
  BY <1>5 DEF StopTimeout, Polled
<1>6. ASSUME NEW c \in Callers, StopGiveUp(c)
      PROVE  CallInv'
  BY <1>6 DEF StopGiveUp, Polled
<1>7. ASSUME NEW c \in Callers, StopFinish(c)
      PROVE  CallInv'
  BY <1>7 DEF StopFinish, Cleanup, Closed
<1>8. ASSUME NEW s \in Sessions, ReaderEof(s)
      PROVE  CallInv'
  BY <1>8 DEF ReaderEof
<1>9. ASSUME NEW s \in Sessions, ReaderFinish(s)
      PROVE  CallInv'
  BY <1>9 DEF ReaderFinish, Cleanup, Closed
<1>10. ASSUME NEW s \in Sessions, SockBegin(s)
      PROVE  CallInv'
  BY <1>10 DEF SockBegin
<1>11. ASSUME NEW s \in Sessions, SockAccept(s)
      PROVE  CallInv'
  BY <1>11 DEF SockAccept
<1>12. ASSUME NEW s \in Sessions, SockFail(s)
      PROVE  CallInv'
  BY <1>12 DEF SockFail
<1>13. ASSUME NEW s \in Sessions, SockStore(s)
      PROVE  CallInv'
  BY <1>13 DEF SockStore
<1>14. ASSUME NEW s \in Sessions, SockResult(s)
      PROVE  CallInv'
  BY <1>14 DEF SockResult
<1>15. ASSUME NEW s \in Sessions, SockEnd(s)
      PROVE  CallInv'
  BY <1>15 DEF SockEnd, Alive
<1>16. ASSUME NEW s \in Sessions, SockFinish(s)
      PROVE  CallInv'
  BY <1>16 DEF SockFinish, Closed
<1>17. ASSUME NEW s \in Sessions, WorkerConnect(s)
      PROVE  CallInv'
  BY <1>17 DEF WorkerConnect
<1>18. ASSUME NEW s \in Sessions, WorkerExit(s)
      PROVE  CallInv'
  BY <1>18 DEF WorkerExit, Alive
<1>19. ASSUME NEW s \in Sessions, WorkerGone(s)
      PROVE  CallInv'
  BY <1>19 DEF WorkerGone
<1> HIDE DEF TypeOK, FreshInv, ThreadInv, CallInv
<1> QED
  BY <1>1, <1>2, <1>3, <1>4, <1>5, <1>6, <1>7, <1>8, <1>9, <1>10, <1>11, <1>12,
     <1>13, <1>14, <1>15, <1>16, <1>17, <1>18, <1>19
  DEF Next, StopStep, ReaderStep, SockStep

\* Whoever clears the tracked process has seen its end.
LEMMA OneStep ==
  ASSUME TypeOK, FreshInv, ThreadInv, CallInv, OneWorker, Next
  PROVE  OneWorker'
<1> USE SessionsAssumption DEF Sessions, None, TypeOK, FreshInv, ThreadInv,
      CallInv, OneWorker, Alive, fieldVars, procVars, sockVars, recvVars,
      callVars, histVars
<1>1. ASSUME NEW c \in Callers, NEW spawned \in BOOLEAN, Start(c, spawned)
      PROVE  OneWorker'
  BY <1>1 DEF Start, Running, Polled
<1>2. ASSUME NEW c \in Callers, StopCall(c)
      PROVE  OneWorker'
  BY <1>2 DEF StopCall, Running, Polled, Cleanup, Closed
<1>3. ASSUME NEW c \in Callers, StopSend(c)
      PROVE  OneWorker'
  BY <1>3 DEF StopSend
<1>4. ASSUME NEW c \in Callers, StopWait(c)
      PROVE  OneWorker'
  BY <1>4 DEF StopWait, Polled
<1>5. ASSUME NEW c \in Callers, StopTimeout(c)
      PROVE  OneWorker'
  BY <1>5 DEF StopTimeout, Polled
<1>6. ASSUME NEW c \in Callers, StopGiveUp(c)
      PROVE  OneWorker'
  BY <1>6 DEF StopGiveUp, Polled
<1>7. ASSUME NEW c \in Callers, StopFinish(c)
      PROVE  OneWorker'
  BY <1>7 DEF StopFinish, Cleanup, Closed
<1>8. ASSUME NEW s \in Sessions, ReaderEof(s)
      PROVE  OneWorker'
  BY <1>8 DEF ReaderEof
<1>9. ASSUME NEW s \in Sessions, ReaderFinish(s)
      PROVE  OneWorker'
  <2>1. worker[s] \in {"closing", "dead"}
    BY <1>9 DEF ReaderFinish
  <2>2. process' # process => process = s
    BY <1>9 DEF ReaderFinish
  <2>3. UNCHANGED <<worker, raced>>
    BY <1>9 DEF ReaderFinish
  <2> QED
    BY <2>1, <2>2, <2>3
<1>10. ASSUME NEW s \in Sessions, SockBegin(s)
      PROVE  OneWorker'
  BY <1>10 DEF SockBegin
<1>11. ASSUME NEW s \in Sessions, SockAccept(s)
      PROVE  OneWorker'
  BY <1>11 DEF SockAccept
<1>12. ASSUME NEW s \in Sessions, SockFail(s)
      PROVE  OneWorker'
  BY <1>12 DEF SockFail
<1>13. ASSUME NEW s \in Sessions, SockStore(s)
      PROVE  OneWorker'
  BY <1>13 DEF SockStore
<1>14. ASSUME NEW s \in Sessions, SockResult(s)
      PROVE  OneWorker'
  BY <1>14 DEF SockResult
<1>15. ASSUME NEW s \in Sessions, SockEnd(s)
      PROVE  OneWorker'
  BY <1>15 DEF SockEnd
<1>16. ASSUME NEW s \in Sessions, SockFinish(s)
      PROVE  OneWorker'
  BY <1>16 DEF SockFinish, Closed
<1>17. ASSUME NEW s \in Sessions, WorkerConnect(s)
      PROVE  OneWorker'
  BY <1>17 DEF WorkerConnect
<1>18. ASSUME NEW s \in Sessions, WorkerExit(s)
      PROVE  OneWorker'
  BY <1>18 DEF WorkerExit
<1>19. ASSUME NEW s \in Sessions, WorkerGone(s)
      PROVE  OneWorker'
  BY <1>19 DEF WorkerGone
<1> HIDE DEF TypeOK, FreshInv, ThreadInv, CallInv, OneWorker, Alive
<1> QED
  BY <1>1, <1>2, <1>3, <1>4, <1>5, <1>6, <1>7, <1>8, <1>9, <1>10, <1>11, <1>12,
     <1>13, <1>14, <1>15, <1>16, <1>17, <1>18, <1>19
  DEF Next, StopStep, ReaderStep, SockStep

\* A stop that returns has left no worker; only start makes one.
LEMMA StopsStep ==
  ASSUME TypeOK, FreshInv, CallInv, OneWorker, StopStops, Next
  PROVE  StopStops'
<1> USE SessionsAssumption DEF Sessions, None, TypeOK, FreshInv, CallInv,
      OneWorker, StopStops, Alive, fieldVars, procVars, sockVars, recvVars,
      callVars, histVars
<1>1. ASSUME NEW c \in Callers, NEW spawned \in BOOLEAN, Start(c, spawned)
      PROVE  StopStops'
  BY <1>1 DEF Start, Running, Polled
<1>2. ASSUME NEW c \in Callers, StopCall(c)
      PROVE  StopStops'
  <2>1. CASE Running
    BY <1>2, <2>1 DEF StopCall, Running, Polled
  <2>2. CASE ~Running
    BY <1>2, <2>2 DEF StopCall, Running, Polled, Cleanup, Closed
  <2> QED
    BY <2>1, <2>2
<1>3. ASSUME NEW c \in Callers, StopSend(c)
      PROVE  StopStops'
  BY <1>3 DEF StopSend
<1>4. ASSUME NEW c \in Callers, StopWait(c)
      PROVE  StopStops'
  BY <1>4 DEF StopWait, Polled
<1>5. ASSUME NEW c \in Callers, StopTimeout(c)
      PROVE  StopStops'
  BY <1>5 DEF StopTimeout, Polled
<1>6. ASSUME NEW c \in Callers, StopGiveUp(c)
      PROVE  StopStops'
  BY <1>6 DEF StopGiveUp, Polled
<1>7. ASSUME NEW c \in Callers, StopFinish(c)
      PROVE  StopStops'
  BY <1>7 DEF StopFinish, Cleanup, Closed
<1>8. ASSUME NEW s \in Sessions, ReaderEof(s)
      PROVE  StopStops'
  BY <1>8 DEF ReaderEof
<1>9. ASSUME NEW s \in Sessions, ReaderFinish(s)
      PROVE  StopStops'
  BY <1>9 DEF ReaderFinish, Cleanup, Closed
<1>10. ASSUME NEW s \in Sessions, SockBegin(s)
      PROVE  StopStops'
  BY <1>10 DEF SockBegin
<1>11. ASSUME NEW s \in Sessions, SockAccept(s)
      PROVE  StopStops'
  BY <1>11 DEF SockAccept
<1>12. ASSUME NEW s \in Sessions, SockFail(s)
      PROVE  StopStops'
  BY <1>12 DEF SockFail
<1>13. ASSUME NEW s \in Sessions, SockStore(s)
      PROVE  StopStops'
  BY <1>13 DEF SockStore
<1>14. ASSUME NEW s \in Sessions, SockResult(s)
      PROVE  StopStops'
  BY <1>14 DEF SockResult
<1>15. ASSUME NEW s \in Sessions, SockEnd(s)
      PROVE  StopStops'
  BY <1>15 DEF SockEnd
<1>16. ASSUME NEW s \in Sessions, SockFinish(s)
      PROVE  StopStops'
  BY <1>16 DEF SockFinish, Closed
<1>17. ASSUME NEW s \in Sessions, WorkerConnect(s)
      PROVE  StopStops'
  BY <1>17 DEF WorkerConnect
<1>18. ASSUME NEW s \in Sessions, WorkerExit(s)
      PROVE  StopStops'
  BY <1>18 DEF WorkerExit
<1>19. ASSUME NEW s \in Sessions, WorkerGone(s)
      PROVE  StopStops'
  BY <1>19 DEF WorkerGone
<1> HIDE DEF TypeOK, FreshInv, CallInv, OneWorker, StopStops, Alive
<1> QED
  BY <1>1, <1>2, <1>3, <1>4, <1>5, <1>6, <1>7, <1>8, <1>9, <1>10, <1>11, <1>12,
     <1>13, <1>14, <1>15, <1>16, <1>17, <1>18, <1>19
  DEF Next, StopStep, ReaderStep, SockStep

\* In a calm session only its own threads move.
LEMMA CalmInvStep ==
  ASSUME TypeOK, FreshInv, ConnInv, ThreadInv, CallInv, CalmInv, CalmSession,
         Next
  PROVE  CalmInv'
<1> USE SessionsAssumption DEF Sessions, None, TypeOK, FreshInv, ConnInv,
      ThreadInv, CallInv, CalmInv, CalmSession, Reachable, Alive, fieldVars,
      procVars, sockVars, recvVars, callVars, histVars
<1>1. ASSUME NEW c \in Callers, NEW spawned \in BOOLEAN, Start(c, spawned)
      PROVE  CalmInv'
  <2>1. calm' => \A r \in Sessions : /\ reader[r] \in {"none", "done"}
                                     /\ sock[r] \in {"none", "done"}
    BY <1>1 DEF Start
  <2>2. \A r \in Sessions : r # started' =>
          reader'[r] = reader[r] /\ sock'[r] = sock[r]
    BY <1>1 DEF Start
  <2>3. started' \in Sessions /\ started' > started /\ conn' = conn
    BY <1>1 DEF Start
  <2>4. sock'[started'] \in {"none", "begin"}
    BY <1>1, <2>3 DEF Start
  <2>5. conn'[started'] = "none"
    BY <2>3
  <2> QED
    BY <2>1, <2>2, <2>3, <2>4, <2>5
<1>2. ASSUME NEW c \in Callers, StopCall(c)
      PROVE  CalmInv'
  BY <1>2 DEF StopCall, Running, Polled, Cleanup, Closed
<1>3. ASSUME NEW c \in Callers, StopSend(c)
      PROVE  CalmInv'
  BY <1>3 DEF StopSend
<1>4. ASSUME NEW c \in Callers, StopWait(c)
      PROVE  CalmInv'
  BY <1>4 DEF StopWait, Polled
<1>5. ASSUME NEW c \in Callers, StopTimeout(c)
      PROVE  CalmInv'
  BY <1>5 DEF StopTimeout, Polled
<1>6. ASSUME NEW c \in Callers, StopGiveUp(c)
      PROVE  CalmInv'
  BY <1>6 DEF StopGiveUp, Polled
<1>7. ASSUME NEW c \in Callers, StopFinish(c)
      PROVE  CalmInv'
  BY <1>7 DEF StopFinish, Cleanup, Closed
<1>8. ASSUME NEW s \in Sessions, ReaderEof(s)
      PROVE  CalmInv'
  BY <1>8 DEF ReaderEof
<1>9. ASSUME NEW s \in Sessions, ReaderFinish(s)
      PROVE  CalmInv'
  BY <1>9 DEF ReaderFinish, Cleanup, Closed
<1>10. ASSUME NEW s \in Sessions, SockBegin(s)
      PROVE  CalmInv'
  <2>1. /\ sock[s] = "begin"
        /\ sock' = [sock EXCEPT ![s] = IF serverSock = None THEN "done" ELSE "accept"]
    BY <1>10 DEF SockBegin
  <2>2. UNCHANGED <<calm, started, asked, worker, conn, reader>>
    BY <1>10 DEF SockBegin
  <2> QED
    BY <2>1, <2>2
<1>11. ASSUME NEW s \in Sessions, SockAccept(s)
      PROVE  CalmInv'
  BY <1>11 DEF SockAccept
<1>12. ASSUME NEW s \in Sessions, SockFail(s)
      PROVE  CalmInv'
  BY <1>12 DEF SockFail
<1>13. ASSUME NEW s \in Sessions, SockStore(s)
      PROVE  CalmInv'
  <2>1. sock[s] = "accepted" /\ sock' = [sock EXCEPT ![s] = "recv"]
    BY <1>13 DEF SockStore
  <2>2. UNCHANGED <<calm, started, asked, worker, conn, reader>>
    BY <1>13 DEF SockStore
  <2> QED
    BY <2>1, <2>2
<1>14. ASSUME NEW s \in Sessions, SockResult(s)
      PROVE  CalmInv'
  <2> SUFFICES ASSUME calm, started # 0 PROVE CalmInv'
    BY <1>14 DEF SockResult
  <2>1. s = started /\ sock[s] = "recv"
    BY <1>14 DEF SockResult
  <2>2. peer[s] = started /\ started \in Sessions
    BY <2>1
  <2>3. ~asked /\ Alive(started) => conn[peer[s]] # "closed"
    BY <2>2
  <2>4. UNCHANGED <<calm, started, reader, asked, worker, conn>>
    BY <1>14 DEF SockResult
  <2>5. sock' = [sock EXCEPT ![s] = IF conn[peer[s]] = "closed" THEN "final" ELSE @]
    BY <1>14 DEF SockResult
  <2> QED
    BY <2>1, <2>2, <2>3, <2>4, <2>5
<1>15. ASSUME NEW s \in Sessions, SockEnd(s)
      PROVE  CalmInv'
  BY <1>15 DEF SockEnd
<1>16. ASSUME NEW s \in Sessions, SockFinish(s)
      PROVE  CalmInv'
  BY <1>16 DEF SockFinish, Closed
<1>17. ASSUME NEW s \in Sessions, WorkerConnect(s)
      PROVE  CalmInv'
  BY <1>17 DEF WorkerConnect
<1>18. ASSUME NEW s \in Sessions, WorkerExit(s)
      PROVE  CalmInv'
  BY <1>18 DEF WorkerExit
<1>19. ASSUME NEW s \in Sessions, WorkerGone(s)
      PROVE  CalmInv'
  BY <1>19 DEF WorkerGone
<1> HIDE DEF TypeOK, FreshInv, ConnInv, ThreadInv, CallInv, CalmInv,
      CalmSession, Reachable, Alive
<1> QED
  BY <1>1, <1>2, <1>3, <1>4, <1>5, <1>6, <1>7, <1>8, <1>9, <1>10, <1>11, <1>12,
     <1>13, <1>14, <1>15, <1>16, <1>17, <1>18, <1>19
  DEF Next, StopStep, ReaderStep, SockStep

\* And they leave its process, sockets and results alone.
LEMMA CalmStep ==
  ASSUME TypeOK, FreshInv, ConnInv, ThreadInv, CallInv, CalmInv, CalmSession,
         Next
  PROVE  CalmSession'
<1> USE SessionsAssumption DEF Sessions, None, TypeOK, FreshInv, ConnInv,
      ThreadInv, CallInv, CalmInv, CalmSession, Reachable, Alive, fieldVars,
      procVars, sockVars, recvVars, callVars, histVars
<1>1. ASSUME NEW c \in Callers, NEW spawned \in BOOLEAN, Start(c, spawned)
      PROVE  CalmSession'
  BY <1>1 DEF Start, Running, Polled
<1>2. ASSUME NEW c \in Callers, StopCall(c)
      PROVE  CalmSession'
  BY <1>2 DEF StopCall, Running, Polled, Cleanup, Closed
<1>3. ASSUME NEW c \in Callers, StopSend(c)
      PROVE  CalmSession'
  BY <1>3 DEF StopSend
<1>4. ASSUME NEW c \in Callers, StopWait(c)
      PROVE  CalmSession'
  BY <1>4 DEF StopWait, Polled
<1>5. ASSUME NEW c \in Callers, StopTimeout(c)
      PROVE  CalmSession'
  BY <1>5 DEF StopTimeout, Polled
<1>6. ASSUME NEW c \in Callers, StopGiveUp(c)
      PROVE  CalmSession'
  BY <1>6 DEF StopGiveUp, Polled
<1>7. ASSUME NEW c \in Callers, StopFinish(c)
      PROVE  CalmSession'
  BY <1>7 DEF StopFinish, Cleanup, Closed
<1>8. ASSUME NEW s \in Sessions, ReaderEof(s)
      PROVE  CalmSession'
  BY <1>8 DEF ReaderEof
<1>9. ASSUME NEW s \in Sessions, ReaderFinish(s)
      PROVE  CalmSession'
  BY <1>9 DEF ReaderFinish, Cleanup, Closed
<1>10. ASSUME NEW s \in Sessions, SockBegin(s)
      PROVE  CalmSession'
  BY <1>10 DEF SockBegin
<1>11. ASSUME NEW s \in Sessions, SockAccept(s)
      PROVE  CalmSession'
  BY <1>11 DEF SockAccept
<1>12. ASSUME NEW s \in Sessions, SockFail(s)
      PROVE  CalmSession'
  BY <1>12 DEF SockFail
<1>13. ASSUME NEW s \in Sessions, SockStore(s)
      PROVE  CalmSession'
  BY <1>13 DEF SockStore
<1>14. ASSUME NEW s \in Sessions, SockResult(s)
      PROVE  CalmSession'
  <2> SUFFICES ASSUME calm, started # 0 PROVE CalmSession'
    BY <1>14 DEF SockResult
  <2>1. s = started /\ sock[s] = "recv"
    BY <1>14 DEF SockResult
  <2>2. peer[s] = started /\ started \in Sessions
    BY <2>1
  <2>3. results' = results \cup {peer[s]}
    BY <1>14 DEF SockResult
  <2>4. UNCHANGED <<calm, started, asked, process, worker, conn, listening>>
    BY <1>14 DEF SockResult
  <2> QED
    BY <2>2, <2>3, <2>4
<1>15. ASSUME NEW s \in Sessions, SockEnd(s)
      PROVE  CalmSession'
  BY <1>15 DEF SockEnd
<1>16. ASSUME NEW s \in Sessions, SockFinish(s)
      PROVE  CalmSession'
  BY <1>16 DEF SockFinish, Closed
<1>17. ASSUME NEW s \in Sessions, WorkerConnect(s)
      PROVE  CalmSession'
  BY <1>17 DEF WorkerConnect
<1>18. ASSUME NEW s \in Sessions, WorkerExit(s)
      PROVE  CalmSession'
  BY <1>18 DEF WorkerExit
<1>19. ASSUME NEW s \in Sessions, WorkerGone(s)
      PROVE  CalmSession'
  BY <1>19 DEF WorkerGone
<1> HIDE DEF TypeOK, FreshInv, ConnInv, ThreadInv, CallInv, CalmInv,
      CalmSession, Reachable, Alive
<1> QED
  BY <1>1, <1>2, <1>3, <1>4, <1>5, <1>6, <1>7, <1>8, <1>9, <1>10, <1>11, <1>12,
     <1>13, <1>14, <1>15, <1>16, <1>17, <1>18, <1>19
  DEF Next, StopStep, ReaderStep, SockStep

LEMMA NextIInv == IInv /\ [Next]_vars => IInv'
<1> SUFFICES ASSUME IInv, [Next]_vars PROVE IInv'
  OBVIOUS
<1> USE DEF IInv
<1>1. CASE Next
  BY <1>1, TypeStep, FreshStep, ConnStep, ThreadStep, CallStep, OneStep,
     StopsStep, CalmInvStep, CalmStep
<1>2. CASE UNCHANGED vars
  BY <1>2 DEF vars, fieldVars, procVars, sockVars, recvVars, callVars, histVars,
     TypeOK, FreshInv, ConnInv, ThreadInv, CallInv, OneWorker, StopStops,
     CalmInv, CalmSession, Reachable, Alive
<1> QED
  BY <1>1, <1>2

(***************************************************************************)
(* The theorems.                                                           *)
(***************************************************************************)

\* IInv is inductive: it holds in every state of the controller.
THEOREM Invariance == Spec => []IInv
  BY InitIInv, NextIInv, PTL DEF Spec

\* The fields of RealtimeController and the locals of its threads name
\* sessions that exist.
THEOREM TypeCorrect == Spec => []TypeOK
<1>1. IInv => TypeOK
  BY DEF IInv
<1> QED
  BY <1>1, Invariance, PTL

\* No two workers run, as long as no stop has cleared another session's
\* process.
THEOREM AtMostOneWorker == Spec => []OneWorker
<1>1. IInv => OneWorker
  BY DEF IInv
<1> QED
  BY <1>1, Invariance, PTL

\* And none runs after a stop has returned, until the next start.
THEOREM StoppedMeansNone == Spec => []StopStops
<1>1. IInv => StopStops
  BY DEF IInv
<1> QED
  BY <1>1, Invariance, PTL

\* A session started when the threads before it were over keeps its process,
\* its socket and its results until it is stopped.
THEOREM LeftAlone == Spec => []CalmSession
<1>1. IInv => CalmSession
  BY DEF IInv
<1> QED
  BY <1>1, Invariance, PTL
=============================================================================
