-------------------------------- MODULE Awr2243 --------------------------------
(***************************************************************************)
(* mmw_example_nonos.cpp: what the AWR2243 functions of the Python module  *)
(* fpga_udp do to the sensor.  Each MMWL function is a program: the        *)
(* sequence of its steps, one for a call that has an effect or a wait.  A  *)
(* call runs under the interpreter's lock, so there is one application     *)
(* thread; beside it a reader thread of mmWaveLink takes the events of the *)
(* device and sets the flags the waits look at.                            *)
(*                                                                         *)
(* A command is one step: MmWaveLink models how it is carried out, and     *)
(* that the thread it waits in has by then read every event the device     *)
(* sent before the response.  The contents of the configuration are left   *)
(* out, and so are the flags mmwl_bMssEsmFault and mmwl_bMssBootErrStatus: *)
(* the one wait that reads them ends in the same way with or without them. *)
(***************************************************************************)
EXTENDS Naturals, Sequences

CONSTANTS
  Files,     \* the configuration files, as far as the program looks at them
  MaxCalls,  \* bound: calls of the application
  MaxFaults  \* bound: faults of the device, the link and the board, and events
             \*   that come after the wait for them

None == "none"

Settings ==
  [AdvChirp : BOOLEAN, AdvFrame : BOOLEAN, ContMode : BOOLEAN,
   Fw : BOOLEAN, Calib : {"off", "store", "restore"}]

ASSUME FilesAssumption == Files \subseteq Settings
ASSUME BoundsAssumption == MaxCalls \in Nat /\ MaxFaults \in Nat

VARIABLES
  call,    \* the function under way, or None
  todo,    \* the steps it has left
  ret,     \* its retVal: "ok", "error" or "timeout"
  last,    \* the call that returned OK, if it is the last one
  flags,   \* the mmwl_b flags that are set
  file,    \* the configuration file that is open: {} or a singleton
  args,    \* rlDevGlobalCfgArgs
  linkUp,  \* isDriverInitialized
  hand,    \* the event the reader thread is handling
  stray,   \* events in the hands of readers of a link that was shut since
  dev,     \* the device: up, the RF subsystem started (rf) and calibrated, the
           \*   frames configured, what it transmits (tx), what it has yet to
           \*   report (busy) and the events it holds ready (out)
  calls, faults, \* how much of the bounds is used
  missed,  \* history: commands of the init that the device did not execute
  unheard, \* history: a response was given up since the device was reset
  regular  \* history: nothing went wrong or came late since then (see Reset)

appVars   == <<call, todo, ret, last>>
hostVars  == <<flags, file, args, linkUp, hand, stray>>
boundVars == <<calls, faults>>
histVars  == <<missed, unheard, regular>>
vars == <<appVars, hostVars, dev, boundVars, histVars>>

-----------------------------------------------------------------------------
(***************************************************************************)
(* The steps, and the programs made of them.                               *)
(***************************************************************************)
Step(d, a) == [do |-> d, arg |-> a]

Cmd(m)      == Step("cmd", {m})     \* retVal = the result of command m
Check       == Step("check", {})    \* return if retVal is not OK
Wait(f)     == Step("wait", {f})    \* until flag f is set, or a timeout
WaitIfOk(f) == Step("waitok", {f})  \* if retVal is OK: wait
WaitOff(f)  == Step("waitoff", {f}) \* until flag f is cleared, or a timeout
Until(f)    == Step("until", {f})   \* until flag f is cleared
OnlyIf(f)   == Step("onlyif", {f})  \* return if flag f is not set
Clear(F)    == Step("clear", F)
Board(m)    == Step("board", {m})   \* "sop" or "reset", over the FTDI chip
Link(m)     == Step("link", {m})    \* "on", "off" or "offlate"
CloseFile   == Step("close", {})

\* Commands one after the other, each result checked: it makes no difference
\* which of them is the first to fail, so they are one step.  A function that
\* does nothing else is the set of its commands.
Try(M) == <<Step("cmd", M), Check>>

MMWL_SOPControl  == <<Board("sop"), Check>>
MMWL_ResetDevice == <<Board("reset"), Check>>

PowerFlags == {"initComp", "startComp", "rfInitComp"}

\* Variant: the wait for the power-up event does not set retVal.
MMWL_powerOnMasterNoTimeout ==
  <<Clear(PowerFlags), Link("on"), Check, Clear({"initComp"})>>

\* The wait follows whether or not the link came up.
MMWL_powerOnMaster ==
  <<Clear(PowerFlags), Link("on"), Wait("initComp"), Clear({"initComp"}), Check>>

\* The first chunk carries the header; the others are alike.
MMWL_firmwareDownload == Try({"fileWrite"})

\* The results of the first two commands are overwritten.
MMWL_SwapResetAndPowerOn ==
  <<Cmd("internalConf"), Cmd("internalConf"), Cmd("coreReset"),
    WaitIfOk("initComp"), Link("offlate"), Clear({"initComp"}), Check>>

MMWL_setDeviceCrcType == {"crcType"}

\* The result of rlDeviceGetVersion is overwritten.
MMWL_rfEnable ==
  <<Cmd("rfStart"), Wait("startComp"), Clear({"startComp"}), Check,
    Cmd("version")>> \o Try({"dieId"})

MMWL_channelConfig     == {"channel"}
MMWL_adcOutConfig      == {"adcOut"}
MMWL_ldoBypassConfig   == {"ldoBypass"}
MMWL_dataFmtConfig     == {"dataFmt"}
MMWL_lowPowerConfig    == {"lowPower"}
MMWL_ApllSynthBwConfig == {"apllSynthBw"}
MMWL_setAsyncEventDir  == {"asyncEventDir"}
MMWL_setMiscConfig     == {"misc"}

\* Variant: the result of the data format's command is not looked at.
MMWL_basicConfigurationHasty(f) ==
  Try(MMWL_channelConfig \cup MMWL_adcOutConfig \cup MMWL_ldoBypassConfig)
    \o <<Step("cmd", MMWL_dataFmtConfig)>>
    \o Try(MMWL_lowPowerConfig \cup MMWL_ApllSynthBwConfig
             \cup MMWL_setAsyncEventDir
             \cup (IF f.AdvChirp THEN MMWL_setMiscConfig ELSE {}))

MMWL_basicConfiguration(f) ==
  Try(MMWL_channelConfig \cup MMWL_adcOutConfig \cup MMWL_ldoBypassConfig
        \cup MMWL_dataFmtConfig \cup MMWL_lowPowerConfig
        \cup MMWL_ApllSynthBwConfig \cup MMWL_setAsyncEventDir
        \cup (IF f.AdvChirp THEN MMWL_setMiscConfig ELSE {}))

\* The timeout of the first wait is overwritten by rlRfInit's result, the one
\* of the second by rlRfCalibDataStore's.
MMWL_rfInit(f) ==
  <<Clear({"rfInitComp"})>>
    \o (CASE f.Calib = "off"   -> <<>>
          [] f.Calib = "store" -> Try({"initCalibConfig"})
          [] OTHER -> Try({"initCalibConfig", "phShiftRestore"})
                        \o Try({"calibRestore"})
                        \o <<Wait("rfInitComp"), Clear({"rfInitComp"})>>)
    \o <<Cmd("rfInit"), Wait("rfInitComp"), Clear({"rfInitComp"})>>
    \o (IF f.Calib = "store" THEN Try({"calibStore", "phShiftStore"}) ELSE <<Check>>)

MMWL_progFiltConfig   == {"progFilt"}
MMWL_progFiltCoeffRam == {"coeffRam"}
MMWL_profileConfig    == {"profile"}

\* The result of rlSetChirpConfig is overwritten; a mismatch is only printed.
MMWL_chirpConfig == <<Cmd("chirp")>> \o Try({"getChirp"})

\* The ten parameters are configured alike; then the table is sent, twice.
MMWL_advChirpConfigAll == Try({"advChirp", "advLut"})

MMWL_dataPathConfig    == {"dataPath"}
MMWL_hsiDataRateConfig == {"dataPathClk"}
MMWL_setHsiClock       == {"hsiClk"}
MMWL_hsiClockConfig    == MMWL_hsiDataRateConfig \cup MMWL_setHsiClock
MMWL_laneConfig        == {"lane"}
MMWL_lvdsLaneConfig    == {"lvdsLane"}
MMWL_hsiLaneConfig     == MMWL_laneConfig \cup MMWL_lvdsLaneConfig

MMWL_frameConfig(n) == Try({IF n = 0 THEN "frameInfinite" ELSE "frameFinite"})

MMWL_advFrameConfig(n) == MMWL_frameConfig(n) \o Try({"getAdvFrame"})

\* Variant: the flag is cleared when the command has been sent.
MMWL_sensorStartLate ==
  <<Cmd("frameStart"), Clear({"sensorStarted"}), Wait("sensorStarted")>>

MMWL_sensorStart ==
  <<Clear({"sensorStarted"}), Cmd("frameStart"), Wait("sensorStarted")>>

\* Variant: the end of the frames is not waited for.
MMWL_sensorStopHasty == <<OnlyIf("sensorStarted")>> \o Try({"frameStop"})

MMWL_sensorStop ==
  <<OnlyIf("sensorStarted")>> \o Try({"frameStop"}) \o <<WaitOff("sensorStarted")>>

\* The result of the first command is overwritten.
MMWL_ContModeEnable(m) == <<Cmd("contStreaming")>> \o Try({m})

MMWL_powerOff == <<Link("off"), Clear(PowerFlags)>>

\* es10: how the version of the device reads; a failed read reads as ES1.0.
MMWL_App_init(f, downloadFw, es10) ==
  MMWL_SOPControl \o MMWL_ResetDevice \o MMWL_powerOnMaster \o <<Cmd("version")>>
    \o (IF downloadFw /\ f.Fw THEN MMWL_firmwareDownload ELSE <<>>)
    \o (IF downloadFw /\ es10 THEN MMWL_SwapResetAndPowerOn ELSE <<>>)
    \o Try(MMWL_setDeviceCrcType) \o MMWL_rfEnable \o MMWL_basicConfiguration(f)
    \o MMWL_rfInit(f)
    \o (IF f.ContMode THEN <<>>
        ELSE Try(MMWL_progFiltConfig \cup MMWL_progFiltCoeffRam
                   \cup MMWL_profileConfig)
               \o (IF f.AdvChirp THEN MMWL_advChirpConfigAll ELSE MMWL_chirpConfig))
    \o Try(MMWL_dataPathConfig \cup MMWL_hsiClockConfig \cup MMWL_hsiLaneConfig)

MMWL_App_setFrameCfg(n) ==
  IF args.AdvFrame THEN MMWL_advFrameConfig(n) ELSE MMWL_frameConfig(n)

MMWL_App_startCont == Try({"contModeConfig"}) \o MMWL_ContModeEnable("contOn")
MMWL_App_stopCont  == MMWL_ContModeEnable("contOff")

MMWL_App_waitSensorStop == <<Until("sensorStarted")>>

MMWL_App_firmwareDownload ==
  MMWL_SOPControl \o MMWL_ResetDevice \o MMWL_powerOnMaster \o <<Cmd("version")>>
    \o MMWL_firmwareDownload \o <<Cmd("version")>> \o MMWL_powerOff

MMWL_App_poweroff == MMWL_powerOff \o <<CloseFile>>

-----------------------------------------------------------------------------
(***************************************************************************)
(* The device.                                                             *)
(***************************************************************************)
\* What the device announces when it has done with a command, or booted, and
\* the flag the handler sets then.  The end of the frames clears a flag.
Announces ==
  [boot |-> "POWERUP", rfStart |-> "RFPOWERUP", rfInit |-> "INITCALIB",
   calibRestore |-> "INITCALIB", frameStart |-> "TRIGGER"]
Raises ==
  [POWERUP |-> "initComp", RFPOWERUP |-> "startComp",
   INITCALIB |-> "rfInitComp", TRIGGER |-> "sensorStarted"]

Flags == {Raises[e] : e \in DOMAIN Raises}

Booting == [up |-> FALSE, rf |-> FALSE, calibrated |-> FALSE, frames |-> None,
            tx |-> None, busy |-> {"boot"}, out |-> <<>>]

Transmitting == dev.tx # None

\* What the device does not take in the state it is in.
Refuses(M) ==
  \/ "frameStart" \in M /\ (Transmitting \/ dev.frames = None)
  \/ "frameStop" \in M /\ ~Transmitting

\* A stop lets the frame under way end.
Executed(M) ==
  IF "coreReset" \in M THEN Booting
  ELSE [dev EXCEPT
         !.rf     = @ \/ "rfStart" \in M,
         !.busy   = @ \cup (M \cap DOMAIN Announces),
         !.frames = CASE "frameFinite" \in M   -> "finite"
                      [] "frameInfinite" \in M -> "infinite"
                      [] OTHER                 -> @,
         !.tx     = CASE "frameStart" \in M -> dev.frames
                      [] "frameStop" \in M  -> "finite"
                      [] OTHER              -> @]

-----------------------------------------------------------------------------
Init ==
  /\ call = None /\ todo = <<>> /\ ret = "ok" /\ last = None
  /\ flags = {} /\ file = {} /\ linkUp = FALSE /\ hand = None /\ stray = {}
  /\ args = [AdvChirp |-> FALSE, AdvFrame |-> FALSE, ContMode |-> FALSE,
             Fw |-> FALSE, Calib |-> "off"]
  /\ dev = [Booting EXCEPT !.up = TRUE, !.busy = {}]
  /\ calls = 0 /\ faults = 0
  /\ missed = {} /\ unheard = FALSE /\ regular = TRUE

Fault == faults < MaxFaults /\ faults' = faults + 1

At(d) == call # None /\ todo # <<>> /\ Head(todo).do = d
Arg   == Head(todo).arg

\* The step ends with retVal = r; a check that follows is part of it.
Go(r) ==
  LET rest == Tail(todo)
  IN  /\ ret' = r
      /\ todo' = IF rest # <<>> /\ Head(rest) = Check
                 THEN IF r = "ok" THEN Tail(rest) ELSE <<>>
                 ELSE rest
      /\ UNCHANGED <<call, last, calls>>

Return ==
  /\ call # None /\ todo = <<>>
  /\ call' = None
  /\ last' = IF ret = "ok" THEN call ELSE None
  /\ ret' = "ok"
  /\ missed' = IF ret = "ok" /\ call = "init" THEN missed ELSE {}
  /\ UNCHANGED <<todo, hostVars, dev, boundVars, unheard, regular>>

-----------------------------------------------------------------------------
(***************************************************************************)
(* The calls of the application.                                           *)
(***************************************************************************)
Enter(c, program) ==
  /\ call = None /\ calls < MaxCalls
  /\ call' = c /\ todo' = program /\ ret' = "ok" /\ calls' = calls + 1
  /\ last' = None /\ missed' = {}
  /\ UNCHANGED <<flags, linkUp, hand, stray, dev, faults, unheard>>

Calling(c, program) == Enter(c, program) /\ UNCHANGED <<file, args, regular>>

\* MMWL_openConfigFile keeps a file that is open, whatever it is asked for.
CallInit(f, downloadFw, es10) ==
  LET g == IF file = {} THEN f ELSE CHOOSE x \in file : TRUE
  IN  /\ Enter("init", MMWL_App_init(g, downloadFw, es10))
      /\ file' = {g} /\ args' = g
      /\ UNCHANGED regular

\* A start while the frames run is refused, and clears the flag.
CallStartSensor ==
  /\ Enter("startSensor", MMWL_sensorStart)
  /\ regular' = (regular /\ ~Transmitting)
  /\ UNCHANGED <<file, args>>

Calls ==
  \/ \E f \in Files, downloadFw, es10 \in BOOLEAN :
       (es10 => downloadFw) /\ (downloadFw => f.Fw) /\ CallInit(f, downloadFw, es10)
  \/ \E n \in {0, 1} : Calling("setFrameCfg", MMWL_App_setFrameCfg(n))
  \/ CallStartSensor
  \/ Calling("stopSensor", MMWL_sensorStop)
  \/ Calling("waitSensorStop", MMWL_App_waitSensorStop)
  \/ Calling("startCont", MMWL_App_startCont)
  \/ Calling("stopCont", MMWL_App_stopCont)
  \/ Calling("firmwareDownload", MMWL_App_firmwareDownload)
  \/ Calling("poweroff", MMWL_App_poweroff)

-----------------------------------------------------------------------------
(***************************************************************************)
(* Commands.  The lock of the device is free and what it sent is read, or  *)
(* the link is down.                                                       *)
(***************************************************************************)
Heard == At("cmd") /\ linkUp /\ hand = None /\ dev.out = <<>>

NotExecuted ==
  dev' = dev /\ missed' = IF call = "init" THEN missed \cup Arg ELSE {}

CmdNoLink ==
  /\ At("cmd") /\ ~linkUp
  /\ NotExecuted
  /\ Go("error")
  /\ UNCHANGED <<hostVars, faults, unheard, regular>>

CmdDone ==
  /\ Heard /\ dev.up /\ ~Refuses(Arg)
  /\ dev' = Executed(Arg)
  /\ Go("ok")
  /\ UNCHANGED <<hostVars, faults, histVars>>

\* A command the device has no reason to refuse may be refused too, for what
\* it carries.
CmdRefused ==
  /\ Heard /\ dev.up /\ Arg # {"coreReset"}
  /\ IF Refuses(Arg) THEN UNCHANGED faults ELSE Fault
  /\ NotExecuted
  /\ Go("error")
  /\ UNCHANGED <<hostVars, unheard, regular>>

\* The command or its response is lost; no response is waited for after the
\* core's reset.
CmdUnheard(executed) ==
  /\ Heard /\ dev.up /\ Fault
  /\ IF executed /\ ~Refuses(Arg) THEN dev' = Executed(Arg) /\ UNCHANGED missed
                                   ELSE NotExecuted
  /\ Go(IF Arg = {"coreReset"} THEN "ok" ELSE "timeout")
  /\ unheard' = TRUE /\ regular' = FALSE
  /\ UNCHANGED <<hostVars>>

CmdSilent ==
  /\ Heard /\ ~dev.up
  /\ NotExecuted
  /\ Go(IF Arg = {"coreReset"} THEN "ok" ELSE "timeout")
  /\ UNCHANGED <<hostVars, faults, unheard, regular>>

\* The response to a command given up comes late, and confirms this one.
CmdMistaken ==
  /\ Heard /\ unheard
  /\ NotExecuted
  /\ Go("ok")
  /\ UNCHANGED <<hostVars, faults, unheard, regular>>

CmdStep == \/ CmdNoLink \/ CmdDone \/ CmdRefused \/ CmdSilent \/ CmdMistaken
           \/ \E executed \in BOOLEAN : CmdUnheard(executed)

-----------------------------------------------------------------------------
(***************************************************************************)
(* Waits and flags.                                                        *)
(***************************************************************************)
Wedged == hand = "CPUFAULT" \/ \E i \in DOMAIN dev.out : dev.out[i] = "CPUFAULT"

\* An event e is still to come.
Coming(e) ==
  /\ linkUp /\ ~Wedged
  /\ \/ hand = e \/ \E i \in DOMAIN dev.out : dev.out[i] = e
     \/ \E m \in dev.busy : Announces[m] = e
     \/ e = "END" /\ dev.tx = "finite"

\* The flag the wait waits for is there, or it does not wait.
WaitSeen ==
  /\ \/ At("wait") /\ Arg \subseteq flags
     \/ At("waitok") /\ (Arg \subseteq flags \/ ret # "ok")
     \/ At("waitoff") /\ ~(Arg \subseteq flags)
     \/ At("until") /\ ~(Arg \subseteq flags)
  /\ Go(ret)
  /\ UNCHANGED <<hostVars, dev, faults, histVars>>

\* Variant: the wait for the frames to end has no limit.
UnmetStart ==
  /\ At("wait") \/ (At("waitok") /\ ret = "ok")
  /\ ~(Arg \subseteq flags)

\* A wait with a limit whose flag is not yet what it waits for.
Unmet ==
  \/ /\ At("wait") \/ (At("waitok") /\ ret = "ok")
     /\ ~(Arg \subseteq flags)
  \/ At("waitoff") /\ Arg \subseteq flags

\* The loop has counted to its limit.
WaitTimeout ==
  LET e == IF At("waitoff") THEN "END"
           ELSE CHOOSE x \in DOMAIN Raises : Arg = {Raises[x]}
  IN  /\ Unmet
      /\ IF Coming(e) THEN Fault ELSE UNCHANGED faults
      /\ regular' = (regular /\ ~Coming(e))
      /\ Go("timeout")
      /\ UNCHANGED <<hostVars, dev, missed, unheard>>

ClearFlag ==
  /\ At("clear")
  /\ flags' = flags \ Arg
  /\ Go(ret)
  /\ UNCHANGED <<file, args, linkUp, hand, stray, dev, faults, histVars>>

CheckFlag ==
  /\ At("onlyif")
  /\ IF Arg \subseteq flags THEN Go(ret) ELSE todo' = <<>> /\ UNCHANGED <<call, ret, last, calls>>
  /\ UNCHANGED <<hostVars, dev, faults, histVars>>

\* MMWL_closeConfigFile
Close ==
  /\ At("close")
  /\ file' = {}
  /\ Go(ret)
  /\ UNCHANGED <<flags, args, linkUp, hand, stray, dev, faults, histVars>>

-----------------------------------------------------------------------------
(***************************************************************************)
(* The board and the link.                                                 *)
(***************************************************************************)
\* Only the result of the last of the three calls counts.
Sop(ok) ==
  /\ At("board") /\ Arg = {"sop"}
  /\ IF ok THEN UNCHANGED faults ELSE Fault
  /\ Go(IF ok THEN "ok" ELSE "error")
  /\ UNCHANGED <<hostVars, dev, histVars>>

\* A reset that fails is not reported: the closing of the handles, the last
\* call, succeeds.  What is in a reader's hand is of the time before, and
\* nothing clears the flag of frames that were not stopped.  The reset takes
\* long enough for a reader of a link shut before it to be over.
Reset(works) ==
  /\ At("board") /\ Arg = {"reset"}
  /\ stray \subseteq {"CPUFAULT"}
  /\ Go("ok")
  /\ IF works
     THEN /\ dev' = Booting
          /\ unheard' = FALSE
          /\ regular' = (hand = None /\ "sensorStarted" \notin flags)
          /\ UNCHANGED faults
     ELSE Fault /\ UNCHANGED <<dev, unheard, regular>>
  /\ UNCHANGED <<hostVars, missed>>

\* Variant: the reader goes on as if the link were up.
ShutLinkUnnoticed ==
  /\ linkUp' = FALSE
  /\ UNCHANGED <<hand, stray, regular>>

\* rlDevicePowerOff, then rlDriverDeInit: the polling thread is joined, a
\* reader is not.  The lock it holds cannot be destroyed: an error.
ShutLink ==
  /\ linkUp' = FALSE
  /\ hand' = None
  /\ stray' = stray \cup ({hand} \ {None})
  /\ regular' = (regular /\ hand = None)

LinkOff ==
  /\ At("link")
  /\ Arg = {"off"} \/ (Arg = {"offlate"} /\ ret = "timeout")
  /\ IF linkUp THEN ShutLink ELSE UNCHANGED <<linkUp, hand, stray, regular>>
  /\ Go(IF Arg = {"offlate"} THEN ret
        ELSE IF linkUp /\ hand = None THEN "ok" ELSE "error")
  /\ UNCHANGED <<flags, file, args, dev, faults, missed, unheard>>

LinkKeep ==
  /\ At("link") /\ Arg = {"offlate"} /\ ret # "timeout"
  /\ Go(ret)
  /\ UNCHANGED <<hostVars, dev, faults, histVars>>

\* rlDevicePowerOn: a link that is up is shut first, and an error of that ends
\* the call; so may an error of the FTDI chip.
LinkOn(opens) ==
  /\ At("link") /\ Arg = {"on"}
  /\ IF hand # None
     THEN ShutLink /\ Go("error") /\ UNCHANGED faults
     ELSE /\ IF opens THEN UNCHANGED faults ELSE Fault
          /\ linkUp' = opens
          /\ Go(IF opens THEN "ok" ELSE "error")
          /\ UNCHANGED <<hand, stray, regular>>
  /\ UNCHANGED <<flags, file, args, dev, missed, unheard>>

LinkStep == LinkOff \/ LinkKeep \/ \E opens \in BOOLEAN : LinkOn(opens)
BoardStep == \E ok \in BOOLEAN : Sop(ok) \/ Reset(ok)

AppStep == \/ CmdStep \/ WaitSeen \/ WaitTimeout \/ ClearFlag \/ CheckFlag
           \/ Close \/ LinkStep \/ BoardStep \/ Return

-----------------------------------------------------------------------------
(***************************************************************************)
(* Events.  The handler of a CPU fault never returns.                      *)
(***************************************************************************)
\* Variant: the end of the frames is not noticed.
AfterEventNoEnd(e) ==
  IF e = "END" THEN flags ELSE flags \cup {Raises[e]}

AfterEvent(e) ==
  IF e = "END" THEN flags \ {"sensorStarted"} ELSE flags \cup {Raises[e]}

ReadEvent ==
  /\ linkUp /\ hand = None /\ dev.out # <<>>
  /\ hand' = Head(dev.out)
  /\ dev' = [dev EXCEPT !.out = Tail(@)]
  /\ UNCHANGED <<appVars, flags, file, args, linkUp, stray, boundVars, histVars>>

HandleEvent ==
  /\ hand \notin {None, "CPUFAULT"}
  /\ flags' = AfterEvent(hand)
  /\ hand' = None
  /\ UNCHANGED <<appVars, file, args, linkUp, stray, dev, boundVars, histVars>>

\* The reader of a link that was shut had read its event, or not quite.
HandleStray(e, read) ==
  /\ e \in stray \ {"CPUFAULT"}
  /\ flags' = IF read THEN AfterEvent(e) ELSE flags
  /\ stray' = stray \ {e}
  /\ UNCHANGED <<appVars, file, args, linkUp, hand, dev, boundVars, histVars>>

\* The device has done with m and says so; or the event is lost.
DevEvent(m, lost) ==
  /\ m \in dev.busy
  /\ IF lost THEN Fault ELSE UNCHANGED faults
  /\ regular' = (regular /\ ~lost)
  /\ dev' = [dev EXCEPT !.busy = @ \ {m},
                        !.up   = @ \/ m = "boot",
                        !.calibrated = @ \/ m = "rfInit",
                        !.out  = IF lost THEN @ ELSE Append(@, Announces[m])]
  /\ UNCHANGED <<appVars, hostVars, calls, missed, unheard>>

\* The last frame is over.
FrameEnd(lost) ==
  /\ dev.tx = "finite" /\ "frameStart" \notin dev.busy
  /\ IF lost THEN Fault ELSE UNCHANGED faults
  /\ regular' = (regular /\ ~lost)
  /\ dev' = [dev EXCEPT !.tx = None, !.out = IF lost THEN @ ELSE Append(@, "END")]
  /\ UNCHANGED <<appVars, hostVars, calls, missed, unheard>>

CpuFault ==
  /\ dev.up /\ Fault
  /\ dev' = [dev EXCEPT !.out = Append(@, "CPUFAULT")]
  /\ regular' = FALSE
  /\ UNCHANGED <<appVars, hostVars, calls, missed, unheard>>

DevStep == \E lost \in BOOLEAN :
             FrameEnd(lost) \/ \E m \in DOMAIN Announces : DevEvent(m, lost)

StrayStep == \E e \in stray, read \in BOOLEAN : HandleStray(e, read)

Next ==
  \/ Calls \/ AppStep \/ ReadEvent \/ HandleEvent \/ DevStep \/ CpuFault
  \/ StrayStep

Spec == Init /\ [][Next]_vars

\* The application and the reader thread run on, and what the device does comes
\* to an end.
FairSpec ==
  /\ Spec
  /\ WF_vars(AppStep) /\ WF_vars(ReadEvent \/ HandleEvent) /\ WF_vars(StrayStep)
  /\ WF_vars(DevStep)

-----------------------------------------------------------------------------
Events == DOMAIN Raises \cup {"END", "CPUFAULT"}

Functions ==
  {"init", "setFrameCfg", "startSensor", "stopSensor", "waitSensorStop", "startCont",
   "stopCont", "firmwareDownload", "poweroff"}

Commands ==
  {"version", "fileWrite", "internalConf", "coreReset", "crcType", "rfStart", "dieId",
   "channel", "adcOut", "ldoBypass", "dataFmt", "lowPower", "apllSynthBw",
   "asyncEventDir", "misc", "initCalibConfig", "phShiftRestore", "calibRestore",
   "rfInit", "calibStore", "phShiftStore", "progFilt", "coeffRam", "profile", "chirp",
   "getChirp", "advChirp", "advLut", "dataPath", "dataPathClk", "hsiClk", "lane",
   "lvdsLane", "frameFinite", "frameInfinite", "getAdvFrame", "frameStart",
   "frameStop", "contModeConfig", "contStreaming", "contOn", "contOff"}

Steps ==
  [do : {"cmd"}, arg : SUBSET Commands]
    \cup [do : {"wait", "waitok", "waitoff", "until", "onlyif", "clear"}, arg : SUBSET Flags]
    \cup [do : {"board", "link"}, arg : SUBSET {"sop", "reset", "on", "off", "offlate"}]
    \cup [do : {"check", "close"}, arg : {{}}]

Frames == {None, "finite", "infinite"}

Devices ==
  [up : BOOLEAN, rf : BOOLEAN, calibrated : BOOLEAN, frames : Frames, tx : Frames,
   busy : SUBSET DOMAIN Announces, out : Seq(Events)]

TypeOK ==
  /\ {call, last} \subseteq Functions \cup {None} /\ todo \in Seq(Steps)
  /\ ret \in {"ok", "error", "timeout"}
  /\ flags \subseteq Flags /\ file \subseteq Files /\ args \in Settings
  /\ linkUp \in BOOLEAN /\ unheard \in BOOLEAN /\ regular \in BOOLEAN
  /\ hand \in Events \cup {None} /\ stray \subseteq Events
  /\ hand # None => linkUp
  /\ dev \in Devices
  /\ calls \in 0..MaxCalls /\ faults \in 0..MaxFaults
  /\ missed \subseteq Commands

(***************************************************************************)
(* When stopSensor has returned OK the sensor does not transmit frames.    *)
(* The function sends no stop when its flag is clear, and reports OK then: *)
(* that is right as long as the flag has followed the events.              *)
(***************************************************************************)
StopOkMeansQuiet == regular /\ last = "stopSensor" => ~Transmitting

(***************************************************************************)
(* When nothing is under way, isSensorStarted tells whether the sensor     *)
(* transmits, for every history of starts, stops, finite and endless       *)
(* frames, failed and repeated calls in between.                           *)
(***************************************************************************)
Quiescent == /\ call = None /\ linkUp /\ hand = None /\ stray = {}
             /\ dev.out = <<>> /\ dev.busy = {}

StartedAgrees ==
  regular /\ Quiescent => ("sensorStarted" \in flags <=> Transmitting)

(***************************************************************************)
(* When init has returned OK, the device has executed every command of it, *)
(* and is calibrated.  Several results are overwritten on the way: that of *)
(* rlSetChirpConfig is one, the others change nothing that lasts.  With    *)
(* calibration data to store, that of rlRfInit is one too: the data is     *)
(* then read from a device that is not calibrated.  With data stored or    *)
(* restored a timeout is overwritten as well.  The commands are executed   *)
(* on one device: one that was reset in between would not be calibrated.   *)
(***************************************************************************)
Overwritten == {"chirp", "version", "internalConf", "coreReset"}

InitOkConfigured ==
  last = "init" /\ ~unheard =>
    /\ missed \subseteq
         Overwritten \cup (IF args.Calib = "store" THEN {"rfInit"} ELSE {})
    /\ dev.rf
    /\ regular \/ args.Calib = "off" => dev.calibrated \/ "rfInit" \in missed

(***************************************************************************)
(* The RF subsystem is started once after a reset of the device, never on  *)
(* one that still has the configuration of an earlier init.  The failure   *)
(* of a reset is not reported: it is the wait for the power-up event that  *)
(* tells, and must not be satisfied by an event of an earlier boot.        *)
(***************************************************************************)
FreshStart ==
  [][At("cmd") /\ Arg = {"rfStart"} /\ ret' = "ok" /\ todo' # todo => ~dev.rf]_vars

(***************************************************************************)
(* Every call returns, whatever the device answers or fails to, but for    *)
(* waitSensorStop, which has no timeout, and for a CPU fault of the radar  *)
(* subsystem, whose handler keeps the lock of the device.                  *)
(***************************************************************************)
CallReturns ==
  call \notin {None, "waitSensorStop"} ~> call = None \/ Wedged

(***************************************************************************)
(* waitSensorStop returns when the frames are finite: the event that ends  *)
(* them comes after the one that starts them and finds the link up.        *)
(***************************************************************************)
WaitSeesEnd ==
  call = "waitSensorStop" /\ linkUp /\ dev.tx # "infinite" ~> call = None \/ ~regular

=============================================================================
