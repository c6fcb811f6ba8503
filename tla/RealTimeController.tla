-------------------------- MODULE RealTimeController --------------------------
(***************************************************************************)
(* pyradar_web/app/services/realtime_controller.py: the web service starts *)
(* and stops a worker process, and takes its results from a TCP            *)
(* connection.  The requests run in threads of their own (FastAPI's thread *)
(* pool), and every start adds two more: one reads the worker's output to  *)
(* its end, one accepts its connection and reads the results.              *)
(*                                                                         *)
(* A session is one call of start that got as far as opening a server      *)
(* socket.  Its number also names its process, its server socket, its      *)
(* connection and its two threads; None is 0.  A section under self._lock  *)
(* or self._conn_lock is one action.  The fields that only the status and  *)
(* the log report (_last_exit_code, _start_time, _last_params, the log     *)
(* buffer) are left out: nothing reads them back.                          *)
(***************************************************************************)
EXTENDS Naturals, FiniteSets

CONSTANTS
  Callers,    \* threads that serve start and stop requests
  MaxSessions \* bound: sessions started

ASSUME SessionsAssumption == MaxSessions \in Nat \ {0}

Sessions == 1..MaxSessions
None     == 0

VARIABLES
  process,    \* self._process
  serverSock, \* self._server_sock
  connSock,   \* self._conn_sock
  results,    \* the sessions with an item in self._results_buffer
  started,    \* the newest session
  worker,     \* the process: "none", "boot", "connected", "closing" (its end
              \*   is near: stdout closed, not reaped yet) or "dead"
  told,       \* the processes a stop command was sent to
  listening,  \* the server sockets that are open
  conn,       \* the service's end of a connection: "none", "open" or "closed"
  reader,     \* the thread in _read_output: "none", "lines", "exited", "done"
  sock,       \* the thread in _accept_and_read_results: "none", "begin",
              \*   "accept", "accepted", "recv", "final" or "done"
  server, peer, \* its locals server and conn
  pc, target, \* the stop in progress: "idle", "send", "wait", "rewait" or
              \*   "finish"; its local process
  since,      \* history: the stops no start has come after
  settled,    \* history: a stop has returned that no start has come after
  asked,      \* history: a stop was under way at or after the newest start
  calm,       \* history: the newest start found the older threads all over
  raced       \* history: a stop has cleared the process of another session

procVars  == <<worker, told>>
sockVars  == <<listening, conn>>
fieldVars == <<process, serverSock, connSock>>
recvVars  == <<sock, server, peer>>
callVars  == <<pc, target, since>>
histVars  == <<settled, asked, calm, raced>>
vars == <<fieldVars, results, started, procVars, sockVars, reader, recvVars,
          callVars, histVars>>

Alive(s) == worker[s] \in {"boot", "connected"}

\* process.poll() is not None
Polled(s) == worker[s] = "dead"
Running   == process # None /\ ~Polled(process)

Init ==
  /\ process = None /\ serverSock = None /\ connSock = None
  /\ results = {} /\ started = 0
  /\ worker = [s \in Sessions |-> "none"]
  /\ told = {} /\ listening = {} /\ conn = [s \in Sessions |-> "none"]
  /\ reader = [s \in Sessions |-> "none"]
  /\ sock = [s \in Sessions |-> "none"]
  /\ server = [s \in Sessions |-> None] /\ peer = [s \in Sessions |-> None]
  /\ pc = [c \in Callers |-> "idle"] /\ target = [c \in Callers |-> None]
  /\ since = {} /\ settled = FALSE /\ asked = FALSE /\ calm = FALSE
  /\ raced = FALSE

Closed(S) == [s \in Sessions |-> IF s \in S THEN "closed" ELSE conn[s]]

\* _cleanup_sockets_locked: closes whatever sockets the fields hold by now.
Cleanup ==
  /\ conn' = Closed({connSock})
  /\ listening' = listening \ {serverSock}
  /\ connSock' = None /\ serverSock' = None

-----------------------------------------------------------------------------
(***************************************************************************)
(* start and stop                                                          *)
(***************************************************************************)
\* start when a worker is running only reports the status: no step.  Popen may
\* raise: the server socket is open then and the process is what it was.
Start(c, spawned) ==
  LET s == started + 1
  IN  /\ pc[c] = "idle" /\ ~Running
      /\ s \in Sessions
      /\ started' = s
      /\ results' = {}
      /\ serverSock' = s /\ listening' = listening \cup {s}
      /\ IF spawned
         THEN /\ process' = s
              /\ worker' = [worker EXCEPT ![s] = "boot"]
              /\ reader' = [reader EXCEPT ![s] = "lines"]
              /\ sock'   = [sock EXCEPT ![s] = "begin"]
         ELSE UNCHANGED <<process, worker, reader, sock>>
      /\ settled' = FALSE /\ since' = {}
      /\ asked' = (\E d \in Callers : pc[d] # "idle")
      /\ calm' = (\A r \in Sessions : /\ reader[r] \in {"none", "done"}
                                      /\ sock[r] \in {"none", "done"})
      /\ UNCHANGED <<connSock, told, conn, server, peer, pc, target,
                     raced>>

StopCall(c) ==
  /\ pc[c] = "idle"
  /\ asked' = TRUE
  /\ IF Running
     THEN /\ target' = [target EXCEPT ![c] = process]
          /\ pc' = [pc EXCEPT ![c] = "send"]
          /\ since' = since \cup {c}
          /\ UNCHANGED <<process, serverSock, connSock, sockVars, settled>>
     ELSE /\ Cleanup
          /\ process' = None
          /\ settled' = TRUE
          /\ UNCHANGED callVars
  /\ UNCHANGED <<results, started, procVars, reader, recvVars, calm, raced>>

\* Variant: a missing connection is not checked for.
StopSendUnchecked(c) ==
  /\ pc[c] = "send"
  /\ told' = told \cup {connSock}
  /\ pc' = [pc EXCEPT ![c] = "wait"]
  /\ UNCHANGED <<fieldVars, results, started, worker, sockVars, reader,
                 recvVars, target, since, histVars>>

\* _send_control: to the connection of the moment, if there is one.
StopSend(c) ==
  /\ pc[c] = "send"
  /\ told' = IF connSock # None /\ conn[connSock] = "open"
             THEN told \cup {connSock} ELSE told
  /\ pc' = [pc EXCEPT ![c] = "wait"]
  /\ UNCHANGED <<fieldVars, results, started, worker, sockVars, reader,
                 recvVars, target, since, histVars>>

\* process.wait(timeout) returns, the first or the second.
StopWait(c) ==
  /\ pc[c] \in {"wait", "rewait"}
  /\ Polled(target[c])
  /\ pc' = [pc EXCEPT ![c] = "finish"]
  /\ UNCHANGED <<fieldVars, results, started, procVars, sockVars, reader,
                 recvVars, target, since, histVars>>

\* Variant: the kill is not followed by a wait, and fails.
StopTimeoutNoKill(c) ==
  /\ pc[c] = "wait"
  /\ ~Polled(target[c])
  /\ pc' = [pc EXCEPT ![c] = "finish"]
  /\ UNCHANGED <<fieldVars, results, started, procVars, sockVars, reader,
                 recvVars, target, since, histVars>>

\* TimeoutExpired: kill the process and wait again.
StopTimeout(c) ==
  /\ pc[c] = "wait"
  /\ ~Polled(target[c])
  /\ worker' = [worker EXCEPT ![target[c]] = "closing"]
  /\ pc' = [pc EXCEPT ![c] = "rewait"]
  /\ UNCHANGED <<fieldVars, results, started, told, sockVars, reader, recvVars,
                 target, since, histVars>>

\* A second TimeoutExpired leaves stop, and nothing is cleaned up.
StopGiveUp(c) ==
  /\ pc[c] = "rewait"
  /\ ~Polled(target[c])
  /\ pc' = [pc EXCEPT ![c] = "idle"]
  /\ target' = [target EXCEPT ![c] = None]
  /\ since' = since \ {c}
  /\ UNCHANGED <<fieldVars, results, started, procVars, sockVars, reader,
                 recvVars, histVars>>

StopFinish(c) ==
  /\ pc[c] = "finish"
  /\ process' = None
  /\ Cleanup
  /\ pc' = [pc EXCEPT ![c] = "idle"]
  /\ target' = [target EXCEPT ![c] = None]
  /\ since' = since \ {c}
  /\ settled' = (settled \/ c \in since)
  /\ raced' = (raced \/ process \notin {None, target[c]})
  /\ UNCHANGED <<results, started, procVars, reader, recvVars, asked, calm>>

-----------------------------------------------------------------------------
(***************************************************************************)
(* _read_output(process)                                                   *)
(***************************************************************************)
ReaderEof(s) ==
  /\ reader[s] = "lines"
  /\ worker[s] \in {"closing", "dead"}
  /\ reader' = [reader EXCEPT ![s] = "exited"]
  /\ UNCHANGED <<fieldVars, results, started, procVars, sockVars, recvVars,
                 callVars, histVars>>

\* Variant: the process is cleared whoever's it is.
ReaderFinishAnyProcess(s) ==
  /\ reader[s] = "exited"
  /\ process' = None
  /\ Cleanup
  /\ reader' = [reader EXCEPT ![s] = "done"]
  /\ UNCHANGED <<results, started, procVars, recvVars, callVars, histVars>>

\* Variant: the process is left to stop.
ReaderFinishNoProcess(s) ==
  /\ reader[s] = "exited"
  /\ Cleanup
  /\ reader' = [reader EXCEPT ![s] = "done"]
  /\ UNCHANGED <<process, results, started, procVars, recvVars, callVars, histVars>>

ReaderFinish(s) ==
  /\ reader[s] = "exited"
  /\ process' = IF process = s THEN None ELSE process
  /\ Cleanup
  /\ reader' = [reader EXCEPT ![s] = "done"]
  /\ UNCHANGED <<results, started, procVars, recvVars, callVars, histVars>>

(***************************************************************************)
(* _accept_and_read_results                                                *)
(***************************************************************************)
SockBegin(s) ==
  /\ sock[s] = "begin"
  /\ server' = [server EXCEPT ![s] = serverSock]
  /\ sock' = [sock EXCEPT ![s] = IF serverSock = None THEN "done" ELSE "accept"]
  /\ UNCHANGED <<fieldVars, results, started, procVars, sockVars, reader, peer,
                 callVars, histVars>>

\* An accept that was waiting when its socket was closed may still take a
\* connection, fail (SockFail) or wait for ever: the platforms differ.
SockAccept(s) ==
  LET w == server[s]
  IN  /\ sock[s] = "accept"
      /\ worker[w] = "connected" /\ conn[w] = "none"
      /\ conn' = [conn EXCEPT ![w] = "open"]
      /\ peer' = [peer EXCEPT ![s] = w]
      /\ sock' = [sock EXCEPT ![s] = "accepted"]
      /\ UNCHANGED <<fieldVars, results, started, procVars, listening, reader,
                     server, callVars, histVars>>

SockFail(s) ==
  /\ sock[s] = "accept"
  /\ server[s] \notin listening
  /\ sock' = [sock EXCEPT ![s] = "final"]
  /\ UNCHANGED <<fieldVars, results, started, procVars, sockVars, reader,
                 server, peer, callVars, histVars>>

SockStore(s) ==
  /\ sock[s] = "accepted"
  /\ connSock' = peer[s]
  /\ sock' = [sock EXCEPT ![s] = "recv"]
  /\ UNCHANGED <<process, serverSock, results, started, procVars,
                 sockVars, reader, server, peer, callVars, histVars>>

\* A line of the worker is appended.  A recv that was waiting when the
\* connection was closed may return once more, the next one fails.
SockResult(s) ==
  /\ sock[s] = "recv"
  /\ results' = results \cup {peer[s]}
  /\ sock' = [sock EXCEPT ![s] = IF conn[peer[s]] = "closed" THEN "final" ELSE @]
  /\ UNCHANGED <<fieldVars, started, procVars, sockVars, reader, server, peer,
                 callVars, histVars>>

\* Variant: a line that is not JSON ends the reading.
SockEndOnBadLine(s) ==
  /\ sock[s] = "recv"
  /\ sock' = [sock EXCEPT ![s] = "final"]
  /\ UNCHANGED <<fieldVars, results, started, procVars, sockVars, reader,
                 server, peer, callVars, histVars>>

\* recv finds the connection ended by the worker's exit or closed here.
SockEnd(s) ==
  /\ sock[s] = "recv"
  /\ ~Alive(peer[s]) \/ conn[peer[s]] = "closed"
  /\ sock' = [sock EXCEPT ![s] = "final"]
  /\ UNCHANGED <<fieldVars, results, started, procVars, sockVars, reader,
                 server, peer, callVars, histVars>>

\* finally: close the connection the field holds; the thread's own goes with
\* its last reference.
SockFinish(s) ==
  /\ sock[s] = "final"
  /\ conn' = Closed({connSock, peer[s]})
  /\ connSock' = None
  /\ sock' = [sock EXCEPT ![s] = "done"]
  /\ server' = [server EXCEPT ![s] = None] /\ peer' = [peer EXCEPT ![s] = None]
  /\ UNCHANGED <<process, serverSock, results, started, procVars,
                 listening, reader, callVars, histVars>>

-----------------------------------------------------------------------------
(***************************************************************************)
(* The worker process, as far as the service can tell.                     *)
(***************************************************************************)
\* socket.create_connection; a closed server socket still connects while an
\* accept on it is waiting.
WorkerConnect(s) ==
  /\ worker[s] = "boot"
  /\ s \in listening \/ \E r \in Sessions : sock[r] = "accept" /\ server[r] = s
  /\ worker' = [worker EXCEPT ![s] = "connected"]
  /\ UNCHANGED <<fieldVars, results, started, told, sockVars, reader,
                 recvVars, callVars, histVars>>

\* main returns: after a stop command, or after an exception at any point.
WorkerExit(s) ==
  /\ Alive(s)
  /\ worker' = [worker EXCEPT ![s] = "closing"]
  /\ UNCHANGED <<fieldVars, results, started, told, sockVars, reader, recvVars,
                 callVars, histVars>>

WorkerGone(s) ==
  /\ worker[s] = "closing"
  /\ worker' = [worker EXCEPT ![s] = "dead"]
  /\ UNCHANGED <<fieldVars, results, started, told, sockVars, reader,
                 recvVars, callVars, histVars>>

StopStep(c) == StopSend(c) \/ StopWait(c) \/ StopTimeout(c) \/ StopGiveUp(c)
                 \/ StopFinish(c)
ReaderStep(s) == ReaderEof(s) \/ ReaderFinish(s)
SockStep(s) == SockBegin(s) \/ SockAccept(s) \/ SockFail(s) \/ SockStore(s)
                 \/ SockResult(s) \/ SockEnd(s) \/ SockFinish(s)

Next ==
  \/ \E c \in Callers :
       (\E spawned \in BOOLEAN : Start(c, spawned)) \/ StopCall(c) \/ StopStep(c)
  \/ \E s \in Sessions :
       ReaderStep(s) \/ SockStep(s)
         \/ WorkerConnect(s) \/ WorkerExit(s) \/ WorkerGone(s)

Spec == Init /\ [][Next]_vars

\* Threads run on, wait(timeout) ends, and the system reaps what exits.
FairSpec ==
  /\ Spec
  /\ \A c \in Callers : WF_vars(StopStep(c))
  /\ \A s \in Sessions : WF_vars(ReaderStep(s)) /\ WF_vars(WorkerGone(s))

-----------------------------------------------------------------------------
TypeOK ==
  /\ process \in Sessions \cup {None} /\ serverSock \in Sessions \cup {None}
  /\ connSock \in Sessions \cup {None}
  /\ results \subseteq Sessions /\ started \in 0..MaxSessions
  /\ worker \in [Sessions -> {"none", "boot", "connected", "closing", "dead"}]
  /\ told \subseteq Sessions /\ listening \subseteq Sessions
  /\ conn \in [Sessions -> {"none", "open", "closed"}]
  /\ reader \in [Sessions -> {"none", "lines", "exited", "done"}]
  /\ sock \in [Sessions -> {"none", "begin", "accept", "accepted", "recv",
                            "final", "done"}]
  /\ server \in [Sessions -> Sessions \cup {None}]
  /\ peer \in [Sessions -> Sessions \cup {None}]
  /\ pc \in [Callers -> {"idle", "send", "wait", "rewait", "finish"}]
  /\ target \in [Callers -> Sessions \cup {None}]
  /\ since \subseteq Callers
  /\ settled \in BOOLEAN /\ asked \in BOOLEAN
  /\ calm \in BOOLEAN /\ raced \in BOOLEAN

(***************************************************************************)
(* As long as no stop has cleared another session's process, the one the   *)
(* controller tracks is the only worker there is: two workers would share  *)
(* the DCA1000's port and the radar's serial line.  The check of start,    *)
(* the identity check of the reader thread and the order of stop's waits   *)
(* all bear on it.                                                         *)
(***************************************************************************)
OneWorker == ~raced => \A s \in Sessions : Alive(s) => process = s

(***************************************************************************)
(* And then, when a stop has returned and no start came after it, there is *)
(* no worker, whatever other stops are still under way.                    *)
(***************************************************************************)
StopStops == ~raced /\ settled => \A s \in Sessions : ~Alive(s)

(***************************************************************************)
(* A session started when the older threads were over is left alone until  *)
(* someone stops it: its worker can reach the controller, and the results  *)
(* buffer holds its results only.                                          *)
(***************************************************************************)
Reachable(s) ==
  /\ worker[s] = "boot" => s \in listening
  /\ worker[s] = "connected" =>
       conn[s] = "open" \/ (conn[s] = "none" /\ s \in listening)

CalmSession ==
  calm /\ started # 0 =>
    /\ results \subseteq {started}
    /\ ~asked /\ Alive(started) => process = started /\ Reachable(started)

-----------------------------------------------------------------------------
(***************************************************************************)
(* What the safety properties rest on: the inductive invariant.            *)
(***************************************************************************)
\* A session not begun yet has left no trace.
FreshInv ==
  \A s \in Sessions : s > started =>
    /\ worker[s] = "none" /\ reader[s] = "none" /\ sock[s] = "none"
    /\ server[s] = None /\ peer[s] = None

\* A connection belongs to a worker that has got past its start.
ConnInv ==
  /\ \A s \in Sessions : conn[s] # "none" => worker[s] \notin {"none", "boot"}
  /\ connSock # None => conn[connSock] # "none"
  /\ \A s \in Sessions : peer[s] # None => conn[peer[s]] # "none"

\* A session's threads hold its own sockets or those of a later session.
ThreadInv ==
  /\ serverSock \in {None, started}
  /\ \A s \in Sessions :
       /\ server[s] # None => s <= server[s] /\ server[s] <= started
       /\ peer[s] # None => s <= peer[s] /\ peer[s] <= started
       /\ sock[s] = "accept" => server[s] # None
       /\ sock[s] \in {"accepted", "recv"} => peer[s] # None
       /\ reader[s] = "exited" => worker[s] \in {"closing", "dead"}

\* A stop waits for a process that was started, and ends its waiting when that
\* is gone; none is under way unless asked says so.
CallInv ==
  /\ process # None => worker[process] # "none"
  /\ \A c \in Callers :
       /\ pc[c] # "idle" => target[c] # None /\ worker[target[c]] # "none"
       /\ pc[c] = "finish" => worker[target[c]] = "dead"
  /\ ~asked => \A c \in Callers : pc[c] = "idle"

\* In a calm session the threads of the others are over, and its own have no
\* reason to end while it is left alone.
CalmInv ==
  calm /\ started # 0 =>
    /\ \A r \in Sessions : r # started => /\ reader[r] \in {"none", "done"}
                                          /\ sock[r] \in {"none", "done"}
    /\ ~asked /\ Alive(started) =>
         /\ sock[started] # "final"
         /\ sock[started] \in {"begin", "accept"} => conn[started] = "none"

IInv ==
  /\ TypeOK /\ FreshInv /\ ConnInv /\ ThreadInv /\ CallInv
  /\ OneWorker /\ StopStops /\ CalmInv /\ CalmSession

(***************************************************************************)
(* A stop that found a worker running ends that worker: at its own will,   *)
(* or killed when it does not go in time.                                  *)
(***************************************************************************)
StopEndsWorker ==
  \A c \in Callers, s \in Sessions :
    pc[c] = "send" /\ target[c] = s ~> worker[s] = "dead"

(***************************************************************************)
(* A worker that has exited does not stay the tracked one: the status says *)
(* so without anyone calling stop.                                         *)
(***************************************************************************)
ExitNoticed ==
  \A s \in Sessions : worker[s] = "dead" ~> process # s

(***************************************************************************)
(* pyradar_web/README.md:104, "POST /realtime/stop - stop worker": once a   *)
(* stop has returned and no start has come after it, no worker runs.  A    *)
(* stop that finishes after another request has started the next session   *)
(* forgets that session's process; nothing can stop it any more.           *)
(***************************************************************************)
StopMeansStopped == settled => \A s \in Sessions : ~Alive(s)

(***************************************************************************)
(* pyradar_web/README.md:112, the worker connects back to FastAPI over the *)
(* localhost socket: nobody but a stop takes that socket away.  The        *)
(* threads of the session before do, when they clean up late.              *)
(***************************************************************************)
KeepsItsSocket ==
  started # 0 /\ ~asked /\ Alive(started) => Reachable(started)
=============================================================================
