----------------------------- MODULE Awr2243Proofs -----------------------------
(***************************************************************************)
(* The safety of the sensor control for every set of configuration files,  *)
(* any number of calls and any number of faults.                           *)
(*                                                                         *)
(* Two arguments carry it.  As long as nothing is lost or late, an event   *)
(* is pending wherever the started flag and the frames of the device       *)
(* differ (FlagInv, TriggerInv): what stopSensor and isSensorStarted say   *)
(* follows.  And the program of an init is a path through points at which  *)
(* one knows what the device has done so far (Leads, Good): every step of  *)
(* it leads from what is true at one point to what is true at the next,    *)
(* whatever the device answers, and what the device and the reader thread  *)
(* do in between leaves each point true (InitInv).                         *)
(***************************************************************************)
EXTENDS Awr2243, SequenceTheorems, TLAPS

-----------------------------------------------------------------------------
(***************************************************************************)
(* What the device holds ready or the reader has in its hand.              *)
(***************************************************************************)
Ready == Range(dev.out)

Pending(e) == hand = e \/ e \in Ready

\* Event e is at most once in s; no f comes after an e.
Once(s, e)     == \A i, j \in DOMAIN s : s[i] = e /\ s[j] = e => i = j
Closes(s, e, f) == \A i, j \in DOMAIN s : s[i] = e /\ i < j => s[j] # f

\* The device as a reset leaves it, but for the events of its boot.
Virgin == /\ ~dev.rf /\ dev.tx = None /\ dev.busy \subseteq {"boot"}
          /\ Ready \subseteq {"POWERUP", "CPUFAULT"}

Fresh == Virgin /\ hand \in {None, "POWERUP", "CPUFAULT"}

\* A boot that is not over, or not yet heard of, is that of a fresh device.
BootInv ==
  /\ "boot" \in dev.busy => ~dev.up
  /\ "boot" \in dev.busy \/ Pending("POWERUP") => Virgin

(***************************************************************************)
(* As long as nothing is lost or late, the started flag follows the        *)
(* frames: an event is pending wherever the two differ.                    *)
(***************************************************************************)
CalmInv ==
  regular => ~unheard /\ stray \subseteq {"CPUFAULT"} /\ ~Pending("CPUFAULT")

\* The start of the frames is still to be told.
Trig == "frameStart" \in dev.busy \/ Pending("TRIGGER")

FlagInv ==
  regular =>
    /\ Transmitting => ~Pending("END") /\ ("sensorStarted" \in flags \/ Trig)
    /\ ~Transmitting => /\ "frameStart" \notin dev.busy
                        /\ "sensorStarted" \in flags \/ Trig => Pending("END")
    /\ Closes(dev.out, "END", "TRIGGER")
    /\ hand = "END" => "TRIGGER" \notin Ready

\* Only a start that waits for the event has one to come, and only one.
OneTrigger ==
  /\ "frameStart" \in dev.busy => ~Pending("TRIGGER")
  /\ hand = "TRIGGER" => "TRIGGER" \notin Ready
  /\ Once(dev.out, "TRIGGER")

TriggerInv ==
  regular /\ Trig =>
    /\ call = "startSensor" /\ todo = <<Wait("sensorStarted")>>
    /\ linkUp /\ "sensorStarted" \notin flags
    /\ OneTrigger

StartInv ==
  regular /\ call = "startSensor" =>
    /\ todo = MMWL_sensorStart => ~Transmitting
    /\ todo = Tail(MMWL_sensorStart) => "sensorStarted" \notin flags

StopInv ==
  regular /\ ret = "ok" /\ call = "stopSensor" /\ todo = <<>> => ~Transmitting

LastInv == /\ last # None => call = None
           /\ StopOkMeansQuiet /\ InitOkConfigured

(***************************************************************************)
(* Where a program may be.  A point says what is true of the host and the  *)
(* device when the init has come so far; it is sure, or holds if the       *)
(* result of the last steps is OK.                                         *)
(***************************************************************************)
Points == {"start", "reset", "swept", "fresh", "rf", "clean", "restore",
           "calib", "waited", "done"}
Labels == Points \X BOOLEAN
Sure(p) == <<p, TRUE>>
IfOk(p) == <<p, FALSE>>

\* The commands that take an init from one point to another, or do not belong
\* to it.
Major == {"boot", "coreReset", "rfStart", "calibRestore", "rfInit", "frameStart", "frameStop"}

IsCmd(s, M) == s.do = "cmd" /\ s.arg \cap M = {}

\* In an init for calibration data as in c, step s leads from a to b.
Leads(c, a, s, b) ==
  \/ /\ s = Check /\ b[2] = TRUE
     /\ \/ a[1] = b[1] /\ a[1] # "waited"
        \/ a = Sure("waited") /\ b[1] = "done" /\ c # "store"
  \/ s = Board("sop") /\ a = Sure("start") /\ b = IfOk("start")
  \/ s = Board("reset") /\ a = Sure("start") /\ b = IfOk("reset")
  \/ s = Clear(PowerFlags) /\ a = Sure("reset") /\ b = Sure("swept")
  \/ s = Link("on") /\ a = Sure("swept") /\ b = IfOk("swept")
  \/ s = Wait("initComp") /\ a = IfOk("swept") /\ b = IfOk("fresh")
  \/ s \in {Clear({"initComp"}), WaitIfOk("initComp"), Link("offlate")}
       /\ a[1] = "fresh" /\ b = IfOk("fresh")
  \/ s = Cmd("coreReset") /\ a = Sure("fresh") /\ b = a
  \/ /\ IsCmd(s, Major) /\ a[2] = TRUE /\ a[1] \in {"fresh", "rf", "clean", "done"}
     /\ b = IfOk(a[1]) \/ (b = a /\ s.arg \subseteq Overwritten)
  \/ s = Cmd("rfStart") /\ a = Sure("fresh") /\ b = IfOk("rf")
  \/ s \in {Wait("startComp"), Clear({"startComp"})} /\ a = IfOk("rf") /\ b = a
  \/ s = Clear({"rfInitComp"}) /\ a = Sure("rf") /\ b = Sure("clean")
  \/ s = Cmd("calibRestore") /\ c = "restore" /\ a = Sure("clean") /\ b = IfOk("restore")
  \/ s = Wait("rfInitComp") /\ c = "restore" /\ a = Sure("restore") /\ b = Sure("rf")
  \/ s = Cmd("rfInit") /\ a = Sure("clean") /\ b = Sure("calib")
  \/ s = Wait("rfInitComp") /\ a = Sure("calib") /\ b = Sure("waited")
  \/ s = Clear({"rfInitComp"}) /\ a = Sure("waited") /\ b = a
  \/ /\ IsCmd(s, Major) /\ c = "store"
     /\ a = Sure("waited") /\ b = IfOk("done")

\* The steps t lead from a to b.
Path(c, t, a, b) ==
  \E g \in [1..(Len(t) + 1) -> Labels] :
    /\ g[1] = a /\ g[Len(t) + 1] = b
    /\ \A i \in 1..Len(t) : Leads(c, g[i], t[i], g[i + 1])

-----------------------------------------------------------------------------
Kept(M)  == unheard \/ missed \subseteq Overwritten \cup M
Steady   == stray \subseteq {"CPUFAULT"}
HasRf    == dev.rf \/ unheard
Certain  == regular \/ args.Calib = "off"
Notified == "rfInitComp" \in flags
NoCalib  == dev.busy \cap {"rfInit", "calibRestore"} = {} /\ ~Pending("INITCALIB")

\* The event of the restored calibration is to come, once, or has come.
OneCalib ==
  /\ "rfInit" \notin dev.busy
  /\ \/ Notified /\ NoCalib
     \/ /\ ~Notified
        /\ "calibRestore" \in dev.busy \/ Pending("INITCALIB")
        /\ "calibRestore" \in dev.busy => ~Pending("INITCALIB")
        /\ hand = "INITCALIB" => "INITCALIB" \notin Ready
        /\ Once(dev.out, "INITCALIB")

Started == Kept({}) /\ Steady /\ HasRf

\* rfInit was carried out, as far as one can tell.
Tried == Kept({"rfInit"}) /\ HasRf /\ ("rfInit" \in missed => ret # "ok" \/ unheard)

\* What is true at each point.
AtStart == missed = {}
AtReset == missed = {} /\ Steady
AtSwept == missed = {} /\ Steady /\ ("initComp" \in flags => Fresh)
AtFresh == Kept({}) /\ Steady /\ Fresh
AtRf    == Started /\ (Certain => NoCalib)
AtClean == Started /\ (Certain => NoCalib /\ ~Notified)
AtRestore == Started /\ args.Calib = "restore" /\ (regular => linkUp /\ OneCalib)
AtCalib ==
  /\ Tried /\ Steady
  /\ Certain => /\ "calibRestore" \notin dev.busy
                /\ Notified \/ Pending("INITCALIB") => dev.calibrated
  /\ regular /\ "rfInit" \notin missed =>
       linkUp /\ (Notified \/ Pending("INITCALIB") \/ "rfInit" \in dev.busy)
AtWaited ==
  /\ Tried
  /\ regular => dev.calibrated \/ "rfInit" \in missed
  /\ args.Calib = "off" /\ ret = "ok" => dev.calibrated \/ unheard
AtDone ==
  ~unheard =>
    /\ missed \subseteq
         Overwritten \cup (IF args.Calib = "store" THEN {"rfInit"} ELSE {})
    /\ dev.rf
    /\ Certain => dev.calibrated \/ "rfInit" \in missed

Good(p) ==
  CASE p = "start"   -> AtStart
    [] p = "reset"   -> AtReset
    [] p = "swept"   -> AtSwept
    [] p = "fresh"   -> AtFresh
    [] p = "rf"      -> AtRf
    [] p = "clean"   -> AtClean
    [] p = "restore" -> AtRestore
    [] p = "calib"   -> AtCalib
    [] p = "waited"  -> AtWaited
    [] OTHER         -> AtDone

Holds(a) == Good(a[1]) \/ (a[2] = FALSE /\ ret # "ok")

InitInv ==
  call = "init" =>
    \/ todo = <<>> /\ ret # "ok"
    \/ \E a, b \in Labels : b[1] = "done" /\ Path(args.Calib, todo, a, b) /\ Holds(a)

\* The steps of the calls that neither reset the core of the device, nor start
\* its RF subsystem or frames.
Plain(s) ==
  /\ s.do = "cmd" => s.arg \cap Major = {}
  /\ s.do = "clear" => "sensorStarted" \notin s.arg

CallInv ==
  /\ call = None => todo = <<>>
  /\ call = "startSensor" =>
       todo \in {MMWL_sensorStart, Tail(MMWL_sensorStart), <<Wait("sensorStarted")>>, <<>>}
  /\ call = "stopSensor" =>
       todo \in {MMWL_sensorStop, Tail(MMWL_sensorStop), <<WaitOff("sensorStarted")>>, <<>>}
  /\ call \notin {"init", "startSensor", "stopSensor"} =>
       \A i \in DOMAIN todo : Plain(todo[i])

IInv == /\ TypeOK /\ BootInv /\ CalmInv /\ FlagInv /\ TriggerInv /\ StartInv
        /\ StopInv /\ LastInv /\ CallInv /\ InitInv

-----------------------------------------------------------------------------
\* Every program is a sequence of steps of these kinds.
LEMMA StepTypes ==
  /\ Check \in Steps /\ CloseFile \in Steps /\ Clear(PowerFlags) \in Steps
  /\ \A M \in SUBSET Commands : Step("cmd", M) \in Steps
  /\ \A m \in Commands : Cmd(m) \in Steps
  /\ \A f \in Flags : /\ Wait(f) \in Steps /\ WaitIfOk(f) \in Steps /\ WaitOff(f) \in Steps
                      /\ Until(f) \in Steps /\ OnlyIf(f) \in Steps /\ Clear({f}) \in Steps
  /\ \A m \in {"sop", "reset"} : Board(m) \in Steps
  /\ \A m \in {"on", "off", "offlate"} : Link(m) \in Steps
<1> USE DEF Steps, Step
<1>1. Check \in Steps /\ CloseFile \in Steps
  BY DEF Check, CloseFile
<1>2. Clear(PowerFlags) \in Steps
  BY DEF Clear, PowerFlags, Flags, Raises
<1>3. \A M \in SUBSET Commands : Step("cmd", M) \in Steps
  OBVIOUS
<1>4. \A m \in Commands : Cmd(m) \in Steps
  BY DEF Cmd
<1>5. \A f \in Flags : /\ Wait(f) \in Steps /\ WaitIfOk(f) \in Steps /\ WaitOff(f) \in Steps
                       /\ Until(f) \in Steps /\ OnlyIf(f) \in Steps /\ Clear({f}) \in Steps
  BY DEF Wait, WaitIfOk, WaitOff, Until, OnlyIf, Clear
<1>6. \A m \in {"sop", "reset"} : Board(m) \in Steps
  BY DEF Board
<1>7. \A m \in {"on", "off", "offlate"} : Link(m) \in Steps
  BY DEF Link
<1> QED
  BY <1>1, <1>2, <1>3, <1>4, <1>5, <1>6, <1>7

\* The sets of names, spelled out.
LEMMA Names ==
  /\ Flags = {"initComp", "startComp", "rfInitComp", "sensorStarted"}
  /\ DOMAIN Announces = {"boot", "rfStart", "rfInit", "calibRestore", "frameStart"}
  /\ Events = {"POWERUP", "RFPOWERUP", "INITCALIB", "TRIGGER", "END", "CPUFAULT"}
  BY DEF Flags, Raises, Announces, Events

\* Steps one after the other, in a program and along a path.
LEMMA ConcatType ==
  ASSUME NEW s \in Seq(Steps), NEW t \in Seq(Steps)
  PROVE  s \o t \in Seq(Steps)
  BY ConcatProperties

LEMMA LabelTypes ==
  \A p \in Points : Sure(p) \in Labels /\ IfOk(p) \in Labels
  BY DEF Sure, IfOk, Labels

\* Paths of no step, of one, and one after the other.
LEMMA PathNone ==
  ASSUME NEW c, NEW a \in Labels
  PROVE  Path(c, <<>>, a, a)
<1>1. <<a>> \in [1..1 -> Labels] /\ <<a>>[1] = a
  OBVIOUS
<1>2. Len(<<>>) = 0
  OBVIOUS
<1> QED
  BY <1>1, <1>2 DEF Path

LEMMA PathOne ==
  ASSUME NEW c, NEW s \in Steps, NEW a \in Labels, NEW b \in Labels, Leads(c, a, s, b)
  PROVE  Path(c, <<s>>, a, b)
<1>1. <<a, b>> \in [1..2 -> Labels] /\ <<a, b>>[1] = a /\ <<a, b>>[2] = b
  OBVIOUS
<1>2. Len(<<s>>) = 1 /\ <<s>>[1] = s
  OBVIOUS
<1> QED
  BY <1>1, <1>2 DEF Path

LEMMA PathConcat ==
  ASSUME NEW c, NEW s \in Seq(Steps), NEW t \in Seq(Steps), NEW a, NEW b, NEW d,
         Path(c, s, a, b), Path(c, t, b, d)
  PROVE  Path(c, s \o t, a, d)
<1>1. PICK g \in [1..(Len(s) + 1) -> Labels] :
        /\ g[1] = a /\ g[Len(s) + 1] = b
        /\ \A i \in 1..Len(s) : Leads(c, g[i], s[i], g[i + 1])
  BY DEF Path
<1>2. PICK h \in [1..(Len(t) + 1) -> Labels] :
        /\ h[1] = b /\ h[Len(t) + 1] = d
        /\ \A i \in 1..Len(t) : Leads(c, h[i], t[i], h[i + 1])
  BY DEF Path
<1>3. Len(s) \in Nat /\ Len(t) \in Nat /\ Len(s \o t) = Len(s) + Len(t)
  BY LenProperties, ConcatProperties
<1> DEFINE k == [i \in 1..(Len(s \o t) + 1) |-> IF i <= Len(s) THEN g[i] ELSE h[i - Len(s)]]
<1>4. k \in [1..(Len(s \o t) + 1) -> Labels]
  BY <1>1, <1>2, <1>3
<1>5. k[1] = a /\ k[Len(s \o t) + 1] = d
  BY <1>1, <1>2, <1>3
<1>6. ASSUME NEW i \in 1..Len(s \o t)
      PROVE  Leads(c, k[i], (s \o t)[i], k[i + 1])
  <2>1. CASE i <= Len(s)
    <3>1. (s \o t)[i] = s[i] /\ k[i] = g[i] /\ k[i + 1] = g[i + 1]
      BY <1>1, <1>2, <1>3, <1>6, <2>1, ConcatProperties
    <3>2. i \in 1..Len(s)
      BY <1>3, <1>6, <2>1
    <3> QED
      BY <1>1, <3>1, <3>2
  <2>2. CASE ~(i <= Len(s))
    <3>1. (s \o t)[i] = t[i - Len(s)] /\ k[i] = h[i - Len(s)] /\ k[i + 1] = h[(i - Len(s)) + 1]
      BY <1>1, <1>2, <1>3, <1>6, <2>2, ConcatProperties
    <3>2. i - Len(s) \in 1..Len(t)
      BY <1>3, <1>6, <2>2
    <3> HIDE DEF k
    <3> QED
      BY <1>2, <3>1, <3>2
  <2> QED
    BY <2>1, <2>2
<1> QED
  BY <1>4, <1>5, <1>6 DEF Path

\* The first step of a path.
LEMMA PathHead ==
  ASSUME NEW c, NEW t \in Seq(Steps), t # <<>>, NEW a, NEW b, Path(c, t, a, b)
  PROVE  \E d \in Labels : Leads(c, a, Head(t), d) /\ Path(c, Tail(t), d, b)
<1>1. PICK g \in [1..(Len(t) + 1) -> Labels] :
        /\ g[1] = a /\ g[Len(t) + 1] = b
        /\ \A i \in 1..Len(t) : Leads(c, g[i], t[i], g[i + 1])
  BY DEF Path
<1>2. /\ Len(t) \in Nat /\ Len(t) > 0 /\ Head(t) = t[1]
      /\ Tail(t) \in Seq(Steps) /\ Len(Tail(t)) = Len(t) - 1
      /\ \A i \in 1..Len(Tail(t)) : Tail(t)[i] = t[i + 1]
  BY HeadTailProperties, LenProperties, EmptySeq
<1> DEFINE h == [i \in 1..(Len(Tail(t)) + 1) |-> g[i + 1]]
<1>3. h \in [1..(Len(Tail(t)) + 1) -> Labels]
  BY <1>1, <1>2
<1>4. h[1] = g[2] /\ h[Len(Tail(t)) + 1] = b
  BY <1>1, <1>2
<1>5. \A i \in 1..Len(Tail(t)) : Leads(c, h[i], Tail(t)[i], h[i + 1])
  BY <1>1, <1>2
<1>6. Path(c, Tail(t), g[2], b)
  BY <1>3, <1>4, <1>5 DEF Path
<1>7. g[2] \in Labels /\ Leads(c, a, Head(t), g[2])
  BY <1>1, <1>2
<1> QED
  BY <1>6, <1>7

\* A program of steps that leads from a to b.
Leg(c, t, a, b) == t \in Seq(Steps) /\ Path(c, t, a, b)

\* A leg is a program that is a path.
LEMMA LegNone ==
  ASSUME NEW c, NEW a \in Labels
  PROVE  Leg(c, <<>>, a, a)
  BY PathNone DEF Leg

LEMMA LegOne ==
  ASSUME NEW c, NEW s \in Steps, NEW a \in Labels, NEW b \in Labels, Leads(c, a, s, b)
  PROVE  Leg(c, <<s>>, a, b)
  BY PathOne DEF Leg

LEMMA LegConcat ==
  ASSUME NEW c, NEW s, NEW t, NEW a, NEW b, NEW d, Leg(c, s, a, b), Leg(c, t, b, d)
  PROVE  Leg(c, s \o t, a, d)
  BY PathConcat, ConcatType DEF Leg

\* Legs of a few steps.
LEMMA LegTwo ==
  ASSUME NEW c, NEW s \in Steps, NEW t \in Steps,
         NEW a \in Labels, NEW b \in Labels, NEW d \in Labels,
         Leads(c, a, s, b), Leads(c, b, t, d)
  PROVE  Leg(c, <<s, t>>, a, d)
<1> DEFINE g == <<a, b, d>>
           p == <<s, t>>
<1>1. g \in [1..3 -> Labels] /\ g[1] = a /\ g[2] = b /\ g[3] = d
  OBVIOUS
<1>2. p \in Seq(Steps) /\ Len(p) = 2 /\ p[1] = s /\ p[2] = t
  OBVIOUS
<1> HIDE DEF g, p
<1>3. \A i \in 1..2 : Leads(c, g[i], p[i], g[i + 1])
  <2>1. Leads(c, g[1], p[1], g[1 + 1]) /\ Leads(c, g[2], p[2], g[2 + 1])
    BY <1>1, <1>2
  <2> QED
    BY <2>1
<1>4. Leg(c, p, a, d)
  BY <1>1, <1>2, <1>3 DEF Leg, Path
<1> QED
  BY <1>4 DEF p

LEMMA LegThree ==
  ASSUME NEW c, NEW s \in Steps, NEW t \in Steps, NEW u \in Steps,
         NEW a \in Labels, NEW b \in Labels, NEW d \in Labels, NEW e \in Labels,
         Leads(c, a, s, b), Leads(c, b, t, d), Leads(c, d, u, e)
  PROVE  Leg(c, <<s, t, u>>, a, e)
<1>1. <<s, t, u>> = <<s, t>> \o <<u>>
  OBVIOUS
<1>2. Leg(c, <<s, t>> \o <<u>>, a, e)
  BY LegOne, LegTwo, LegConcat
<1> QED
  BY <1>1, <1>2

LEMMA LegFive ==
  ASSUME NEW c, NEW s1 \in Steps, NEW s2 \in Steps, NEW s3 \in Steps, NEW s4 \in Steps,
         NEW s5 \in Steps, NEW a, NEW b, NEW d,
         Leg(c, <<s1, s2, s3>>, a, b), Leg(c, <<s4, s5>>, b, d)
  PROVE  Leg(c, <<s1, s2, s3, s4, s5>>, a, d)
<1>1. <<s1, s2, s3, s4, s5>> = <<s1, s2, s3>> \o <<s4, s5>>
  OBVIOUS
<1> QED
  BY <1>1, LegConcat

LEMMA LegSeven ==
  ASSUME NEW c, NEW s1 \in Steps, NEW s2 \in Steps, NEW s3 \in Steps, NEW s4 \in Steps,
         NEW s5 \in Steps, NEW s6 \in Steps, NEW s7 \in Steps, NEW a, NEW b, NEW d,
         Leg(c, <<s1, s2, s3>>, a, b), Leg(c, <<s4, s5, s6, s7>>, b, d)
  PROVE  Leg(c, <<s1, s2, s3, s4, s5, s6, s7>>, a, d)
<1>1. <<s1, s2, s3, s4, s5, s6, s7>> = <<s1, s2, s3>> \o <<s4, s5, s6, s7>>
  OBVIOUS
<1> QED
  BY <1>1, LegConcat

LEMMA LegFour ==
  ASSUME NEW c, NEW s1 \in Steps, NEW s2 \in Steps, NEW s3 \in Steps, NEW s4 \in Steps,
         NEW a, NEW b, NEW d,
         Leg(c, <<s1, s2>>, a, b), Leg(c, <<s3, s4>>, b, d)
  PROVE  Leg(c, <<s1, s2, s3, s4>>, a, d)
<1>1. <<s1, s2, s3, s4>> = <<s1, s2>> \o <<s3, s4>>
  OBVIOUS
<1> QED
  BY <1>1, LegConcat

-----------------------------------------------------------------------------
(***************************************************************************)
(* The init is a path from its start to its end.                           *)
(***************************************************************************)
LEMMA PointLabels ==
  /\ Sure("start") \in Labels /\ Sure("reset") \in Labels /\ Sure("swept") \in Labels
  /\ Sure("fresh") \in Labels /\ Sure("rf") \in Labels /\ Sure("clean") \in Labels
  /\ Sure("restore") \in Labels /\ Sure("calib") \in Labels /\ Sure("waited") \in Labels
  /\ Sure("done") \in Labels
  /\ IfOk("start") \in Labels /\ IfOk("reset") \in Labels /\ IfOk("swept") \in Labels
  /\ IfOk("fresh") \in Labels /\ IfOk("rf") \in Labels /\ IfOk("clean") \in Labels
  /\ IfOk("restore") \in Labels /\ IfOk("calib") \in Labels /\ IfOk("waited") \in Labels
  /\ IfOk("done") \in Labels
  BY LabelTypes DEF Points

\* Checked commands that belong to no point in particular.
LEMMA LegTry ==
  ASSUME NEW c, NEW p \in {"fresh", "rf", "clean", "done"},
         NEW M \in SUBSET Commands, M \cap Major = {}
  PROVE  Leg(c, Try(M), Sure(p), Sure(p))
<1>1. Leads(c, Sure(p), Step("cmd", M), IfOk(p))
  BY DEF Leads, IsCmd, Step, Sure, IfOk
<1>2. Leads(c, IfOk(p), Check, Sure(p))
  BY DEF Leads, Sure, IfOk
<1>3. Sure(p) \in Labels /\ IfOk(p) \in Labels
  BY PointLabels
<1>4. Step("cmd", M) \in Steps /\ Check \in Steps
  BY StepTypes
<1> QED
  BY <1>1, <1>2, <1>3, <1>4, LegTwo DEF Try

\* A command whose result is overwritten.
LEMMA LegCmd ==
  ASSUME NEW c, NEW p \in {"fresh", "rf", "clean", "done"},
         NEW m \in Commands, m \in Overwritten, m \notin Major
  PROVE  Leg(c, <<Cmd(m)>>, Sure(p), Sure(p))
<1>1. Leads(c, Sure(p), Cmd(m), Sure(p))
  BY DEF Leads, IsCmd, Cmd, Step, Sure, IfOk
<1>2. Sure(p) \in Labels /\ Cmd(m) \in Steps
  BY PointLabels, StepTypes
<1> QED
  BY <1>1, <1>2, LegOne

\* The legs of an init: the board, the link and the boot, ...
LEMMA LegBoard ==
  ASSUME NEW c
  PROVE  /\ Leg(c, MMWL_SOPControl, Sure("start"), Sure("start"))
         /\ Leg(c, MMWL_ResetDevice, Sure("start"), Sure("reset"))
<1>1. /\ Leads(c, Sure("start"), Board("sop"), IfOk("start"))
      /\ Leads(c, IfOk("start"), Check, Sure("start"))
      /\ Leads(c, Sure("start"), Board("reset"), IfOk("reset"))
      /\ Leads(c, IfOk("reset"), Check, Sure("reset"))
  BY DEF Leads, Sure, IfOk
<1>2. Board("sop") \in Steps /\ Board("reset") \in Steps /\ Check \in Steps
  BY StepTypes
<1>3. Leg(c, MMWL_SOPControl, Sure("start"), Sure("start"))
  BY <1>1, <1>2, PointLabels, LegTwo DEF MMWL_SOPControl
<1>4. Leg(c, MMWL_ResetDevice, Sure("start"), Sure("reset"))
  BY <1>1, <1>2, PointLabels, LegTwo DEF MMWL_ResetDevice
<1> QED
  BY <1>3, <1>4

LEMMA LegPowerOn ==
  ASSUME NEW c
  PROVE  Leg(c, MMWL_powerOnMaster, Sure("reset"), Sure("fresh"))
<1>1. /\ Leads(c, Sure("reset"), Clear(PowerFlags), Sure("swept"))
      /\ Leads(c, Sure("swept"), Link("on"), IfOk("swept"))
      /\ Leads(c, IfOk("swept"), Wait("initComp"), IfOk("fresh"))
      /\ Leads(c, IfOk("fresh"), Clear({"initComp"}), IfOk("fresh"))
      /\ Leads(c, IfOk("fresh"), Check, Sure("fresh"))
  BY DEF Leads, Sure, IfOk
<1>2. /\ Clear(PowerFlags) \in Steps /\ Link("on") \in Steps /\ Wait("initComp") \in Steps
      /\ Clear({"initComp"}) \in Steps /\ Check \in Steps
  BY StepTypes, Names
<1>3. Leg(c, <<Clear(PowerFlags), Link("on"), Wait("initComp")>>, Sure("reset"), IfOk("fresh"))
  BY <1>1, <1>2, PointLabels, LegThree
<1>4. Leg(c, <<Clear({"initComp"}), Check>>, IfOk("fresh"), Sure("fresh"))
  BY <1>1, <1>2, PointLabels, LegTwo
<1> QED
  BY <1>2, <1>3, <1>4, LegFive DEF MMWL_powerOnMaster

\* ... the firmware, ...
LEMMA LegSwap ==
  ASSUME NEW c
  PROVE  Leg(c, MMWL_SwapResetAndPowerOn, Sure("fresh"), Sure("fresh"))
<1>1. /\ Leads(c, Sure("fresh"), Cmd("internalConf"), Sure("fresh"))
      /\ Leads(c, Sure("fresh"), Cmd("coreReset"), Sure("fresh"))
  BY DEF Leads, IsCmd, Cmd, Step, Sure, IfOk, Overwritten, Major
<1>2. /\ Leads(c, Sure("fresh"), WaitIfOk("initComp"), IfOk("fresh"))
      /\ Leads(c, IfOk("fresh"), Link("offlate"), IfOk("fresh"))
      /\ Leads(c, IfOk("fresh"), Clear({"initComp"}), IfOk("fresh"))
      /\ Leads(c, IfOk("fresh"), Check, Sure("fresh"))
  BY DEF Leads, Sure, IfOk
<1>3. /\ WaitIfOk("initComp") \in Steps /\ Link("offlate") \in Steps
      /\ Clear({"initComp"}) \in Steps /\ Check \in Steps
  BY StepTypes, Names
<1>4. Cmd("internalConf") \in Steps /\ Cmd("coreReset") \in Steps
  BY StepTypes DEF Commands
<1>5. Leg(c, <<Cmd("internalConf"), Cmd("internalConf"), Cmd("coreReset")>>,
            Sure("fresh"), Sure("fresh"))
  BY <1>1, <1>4, PointLabels, LegThree
<1>6. Leg(c, <<WaitIfOk("initComp"), Link("offlate")>>, Sure("fresh"), IfOk("fresh"))
  BY <1>2, <1>3, PointLabels, LegTwo
<1>7. Leg(c, <<Clear({"initComp"}), Check>>, IfOk("fresh"), Sure("fresh"))
  BY <1>2, <1>3, PointLabels, LegTwo
<1>8. Leg(c, <<WaitIfOk("initComp"), Link("offlate"), Clear({"initComp"}), Check>>,
            Sure("fresh"), Sure("fresh"))
  BY <1>3, <1>6, <1>7, LegFour
<1> QED
  BY <1>3, <1>4, <1>5, <1>8, LegSeven DEF MMWL_SwapResetAndPowerOn

\* ... the RF subsystem, ...
LEMMA LegRfEnable ==
  ASSUME NEW c
  PROVE  Leg(c, MMWL_rfEnable, Sure("fresh"), Sure("rf"))
<1>1. /\ Leads(c, Sure("fresh"), Cmd("rfStart"), IfOk("rf"))
      /\ Leads(c, Sure("rf"), Cmd("version"), Sure("rf"))
  BY DEF Leads, IsCmd, Cmd, Step, Sure, IfOk, Overwritten, Major
<1>2. /\ Leads(c, IfOk("rf"), Wait("startComp"), IfOk("rf"))
      /\ Leads(c, IfOk("rf"), Clear({"startComp"}), IfOk("rf"))
      /\ Leads(c, IfOk("rf"), Check, Sure("rf"))
  BY DEF Leads, Sure, IfOk
<1>3. Wait("startComp") \in Steps /\ Clear({"startComp"}) \in Steps /\ Check \in Steps
  BY StepTypes, Names
<1>4. Cmd("rfStart") \in Steps /\ Cmd("version") \in Steps
  BY StepTypes DEF Commands
<1>5. Leg(c, <<Cmd("rfStart"), Wait("startComp"), Clear({"startComp"})>>,
            Sure("fresh"), IfOk("rf"))
  BY <1>1, <1>2, <1>3, <1>4, PointLabels, LegThree
<1>6. Leg(c, <<Check, Cmd("version")>>, IfOk("rf"), Sure("rf"))
  BY <1>1, <1>2, <1>3, <1>4, PointLabels, LegTwo
<1>7. Leg(c, <<Cmd("rfStart"), Wait("startComp"), Clear({"startComp"}), Check,
               Cmd("version")>>, Sure("fresh"), Sure("rf"))
  BY <1>3, <1>4, <1>5, <1>6, LegFive
<1>8. {"dieId"} \in SUBSET Commands /\ {"dieId"} \cap Major = {}
  BY DEF Commands, Major
<1>9. Leg(c, Try({"dieId"}), Sure("rf"), Sure("rf"))
  BY <1>8, LegTry
<1> QED
  BY <1>7, <1>9, LegConcat DEF MMWL_rfEnable

\* ... its configuration, ...
LEMMA LegBasic ==
  ASSUME NEW c, NEW f
  PROVE  Leg(c, MMWL_basicConfiguration(f), Sure("rf"), Sure("rf"))
<1> DEFINE M == MMWL_channelConfig \cup MMWL_adcOutConfig \cup MMWL_ldoBypassConfig
                  \cup MMWL_dataFmtConfig \cup MMWL_lowPowerConfig
                  \cup MMWL_ApllSynthBwConfig \cup MMWL_setAsyncEventDir
                  \cup (IF f.AdvChirp THEN MMWL_setMiscConfig ELSE {})
<1>1. M \in SUBSET Commands /\ M \cap Major = {}
  BY DEF Commands, Major, MMWL_channelConfig, MMWL_adcOutConfig, MMWL_ldoBypassConfig,
         MMWL_dataFmtConfig, MMWL_lowPowerConfig, MMWL_ApllSynthBwConfig,
         MMWL_setAsyncEventDir, MMWL_setMiscConfig
<1> HIDE DEF M
<1>2. Leg(c, Try(M), Sure("rf"), Sure("rf"))
  BY <1>1, LegTry
<1> QED
  BY <1>2 DEF M, MMWL_basicConfiguration

\* ... its calibration, ...
LEMMA LegRfInit ==
  ASSUME NEW f \in Settings
  PROVE  Leg(f.Calib, MMWL_rfInit(f), Sure("rf"), Sure("done"))
<1> DEFINE c == f.Calib
           clear == <<Clear({"rfInitComp"})>>
           prepare == CASE c = "off"   -> <<>>
                        [] c = "store" -> Try({"initCalibConfig"})
                        [] OTHER -> Try({"initCalibConfig", "phShiftRestore"})
                                      \o Try({"calibRestore"})
                                      \o <<Wait("rfInitComp"), Clear({"rfInitComp"})>>
           init == <<Cmd("rfInit"), Wait("rfInitComp"), Clear({"rfInitComp"})>>
           finish == IF c = "store" THEN Try({"calibStore", "phShiftStore"}) ELSE <<Check>>
<1>0. c \in {"off", "store", "restore"}
  BY DEF Settings
<1>1. /\ Wait("rfInitComp") \in Steps /\ Clear({"rfInitComp"}) \in Steps /\ Check \in Steps
  BY StepTypes, Names
<1>2. /\ Cmd("rfInit") \in Steps /\ Cmd("calibRestore") \in Steps
      /\ Step("cmd", {"calibStore", "phShiftStore"}) \in Steps
  BY StepTypes DEF Commands
<1>3. Leg(c, clear, Sure("rf"), Sure("clean"))
  <2>1. Leads(c, Sure("rf"), Clear({"rfInitComp"}), Sure("clean"))
    BY DEF Leads, Sure, IfOk
  <2> QED
    BY <1>1, <2>1, PointLabels, LegOne
<1>4. Leg(c, prepare, Sure("clean"), Sure("clean"))
  <2>1. CASE c = "off"
    <3>1. Leg(c, <<>>, Sure("clean"), Sure("clean"))
      BY LegNone, PointLabels
    <3> QED
      BY <2>1, <3>1
  <2>2. CASE c = "store"
    <3>1. {"initCalibConfig"} \in SUBSET Commands /\ {"initCalibConfig"} \cap Major = {}
      BY DEF Commands, Major
    <3>2. Leg(c, Try({"initCalibConfig"}), Sure("clean"), Sure("clean"))
      BY <3>1, LegTry
    <3> QED
      BY <2>2, <3>2
  <2>3. CASE c = "restore"
    <3>1. /\ {"initCalibConfig", "phShiftRestore"} \in SUBSET Commands
          /\ {"initCalibConfig", "phShiftRestore"} \cap Major = {}
      BY DEF Commands, Major
    <3>2. Leg(c, Try({"initCalibConfig", "phShiftRestore"}), Sure("clean"), Sure("clean"))
      BY <3>1, LegTry
    <3>3. /\ Leads(c, Sure("clean"), Cmd("calibRestore"), IfOk("restore"))
          /\ Leads(c, IfOk("restore"), Check, Sure("restore"))
          /\ Leads(c, Sure("restore"), Wait("rfInitComp"), Sure("rf"))
          /\ Leads(c, Sure("rf"), Clear({"rfInitComp"}), Sure("clean"))
      BY <2>3 DEF Leads, Sure, IfOk
    <3>4. Leg(c, Try({"calibRestore"}), Sure("clean"), Sure("restore"))
      BY <1>1, <1>2, <3>3, PointLabels, LegTwo DEF Try, Cmd
    <3>5. Leg(c, <<Wait("rfInitComp"), Clear({"rfInitComp"})>>, Sure("restore"), Sure("clean"))
      BY <1>1, <3>3, PointLabels, LegTwo
    <3>6. Leg(c, Try({"initCalibConfig", "phShiftRestore"}) \o Try({"calibRestore"})
                   \o <<Wait("rfInitComp"), Clear({"rfInitComp"})>>, Sure("clean"), Sure("clean"))
      BY <3>2, <3>4, <3>5, LegConcat
    <3> QED
      BY <2>3, <3>6
  <2> QED
    BY <1>0, <2>1, <2>2, <2>3
<1>5. Leg(c, init, Sure("clean"), Sure("waited"))
  <2>1. /\ Leads(c, Sure("clean"), Cmd("rfInit"), Sure("calib"))
        /\ Leads(c, Sure("calib"), Wait("rfInitComp"), Sure("waited"))
        /\ Leads(c, Sure("waited"), Clear({"rfInitComp"}), Sure("waited"))
    BY DEF Leads, Sure, IfOk
  <2> QED
    BY <1>1, <1>2, <2>1, PointLabels, LegThree
<1>6. Leg(c, finish, Sure("waited"), Sure("done"))
  <2>1. CASE c = "store"
    <3>1. /\ Leads(c, Sure("waited"), Step("cmd", {"calibStore", "phShiftStore"}), IfOk("done"))
          /\ Leads(c, IfOk("done"), Check, Sure("done"))
      BY <2>1 DEF Leads, IsCmd, Step, Sure, IfOk, Major
    <3>2. Leg(c, Try({"calibStore", "phShiftStore"}), Sure("waited"), Sure("done"))
      BY <1>1, <1>2, <3>1, PointLabels, LegTwo DEF Try
    <3> QED
      BY <2>1, <3>2
  <2>2. CASE c # "store"
    <3>1. Leads(c, Sure("waited"), Check, Sure("done"))
      BY <2>2 DEF Leads, Sure, IfOk
    <3>2. Leg(c, <<Check>>, Sure("waited"), Sure("done"))
      BY <1>1, <3>1, PointLabels, LegOne
    <3> QED
      BY <2>2, <3>2
  <2> QED
    BY <2>1, <2>2
<1>7. MMWL_rfInit(f) = clear \o prepare \o init \o finish
  BY DEF MMWL_rfInit
<1> HIDE DEF clear, prepare, init, finish
<1> QED
  BY <1>3, <1>4, <1>5, <1>6, <1>7, LegConcat

\* ... and the chirps.
LEMMA LegChirps ==
  ASSUME NEW c, NEW f
  PROVE  Leg(c, IF f.AdvChirp THEN MMWL_advChirpConfigAll ELSE MMWL_chirpConfig,
             Sure("done"), Sure("done"))
<1>1. /\ {"advChirp", "advLut"} \in SUBSET Commands /\ {"advChirp", "advLut"} \cap Major = {}
      /\ {"getChirp"} \in SUBSET Commands /\ {"getChirp"} \cap Major = {}
      /\ "chirp" \in Commands /\ "chirp" \in Overwritten /\ "chirp" \notin Major
  BY DEF Commands, Major, Overwritten
<1>2. Leg(c, MMWL_advChirpConfigAll, Sure("done"), Sure("done"))
  BY <1>1, LegTry DEF MMWL_advChirpConfigAll
<1>3. Leg(c, <<Cmd("chirp")>>, Sure("done"), Sure("done"))
  BY <1>1, LegCmd
<1>4. Leg(c, Try({"getChirp"}), Sure("done"), Sure("done"))
  BY <1>1, LegTry
<1>5. Leg(c, MMWL_chirpConfig, Sure("done"), Sure("done"))
  BY <1>3, <1>4, LegConcat DEF MMWL_chirpConfig
<1> QED
  BY <1>2, <1>5

\* The program of an init is a path from its start to its end.
LEMMA LegInit ==
  ASSUME NEW f \in Settings, NEW downloadFw, NEW es10
  PROVE  Leg(f.Calib, MMWL_App_init(f, downloadFw, es10), Sure("start"), Sure("done"))
<1> DEFINE c == f.Calib
           download == IF downloadFw /\ f.Fw THEN MMWL_firmwareDownload ELSE <<>>
           swap == IF downloadFw /\ es10 THEN MMWL_SwapResetAndPowerOn ELSE <<>>
           filter == MMWL_progFiltConfig \cup MMWL_progFiltCoeffRam \cup MMWL_profileConfig
           chirps == IF f.AdvChirp THEN MMWL_advChirpConfigAll ELSE MMWL_chirpConfig
           wave == IF f.ContMode THEN <<>> ELSE Try(filter) \o chirps
           data == MMWL_dataPathConfig \cup MMWL_hsiClockConfig \cup MMWL_hsiLaneConfig
<1>1. /\ Leg(c, MMWL_SOPControl, Sure("start"), Sure("start"))
      /\ Leg(c, MMWL_ResetDevice, Sure("start"), Sure("reset"))
      /\ Leg(c, MMWL_powerOnMaster, Sure("reset"), Sure("fresh"))
  BY LegBoard, LegPowerOn
<1>2. "version" \in Commands /\ "version" \in Overwritten /\ "version" \notin Major
  BY DEF Commands, Major, Overwritten
<1>3. Leg(c, <<Cmd("version")>>, Sure("fresh"), Sure("fresh"))
  BY <1>2, LegCmd
<1>4. {"fileWrite"} \in SUBSET Commands /\ {"fileWrite"} \cap Major = {}
  BY DEF Commands, Major
<1>5. Leg(c, MMWL_firmwareDownload, Sure("fresh"), Sure("fresh"))
  BY <1>4, LegTry DEF MMWL_firmwareDownload
<1>6. Leg(c, <<>>, Sure("fresh"), Sure("fresh")) /\ Leg(c, <<>>, Sure("done"), Sure("done"))
  BY LegNone, PointLabels
<1>7. Leg(c, download, Sure("fresh"), Sure("fresh"))
  BY <1>5, <1>6
<1>8. Leg(c, swap, Sure("fresh"), Sure("fresh"))
  BY <1>6, LegSwap
<1>9. MMWL_setDeviceCrcType \in SUBSET Commands /\ MMWL_setDeviceCrcType \cap Major = {}
  BY DEF Commands, Major, MMWL_setDeviceCrcType
<1>10. Leg(c, Try(MMWL_setDeviceCrcType), Sure("fresh"), Sure("fresh"))
  BY <1>9, LegTry
<1>11. /\ Leg(c, MMWL_rfEnable, Sure("fresh"), Sure("rf"))
       /\ Leg(c, MMWL_basicConfiguration(f), Sure("rf"), Sure("rf"))
       /\ Leg(c, MMWL_rfInit(f), Sure("rf"), Sure("done"))
  BY LegRfEnable, LegBasic, LegRfInit
<1>12. filter \in SUBSET Commands /\ filter \cap Major = {}
  BY DEF Commands, Major, MMWL_progFiltConfig, MMWL_progFiltCoeffRam, MMWL_profileConfig
<1>13. Leg(c, Try(filter), Sure("done"), Sure("done"))
  BY <1>12, LegTry
<1>14. Leg(c, Try(filter) \o chirps, Sure("done"), Sure("done"))
  BY <1>13, LegChirps, LegConcat
<1>15. Leg(c, wave, Sure("done"), Sure("done"))
  BY <1>6, <1>14
<1>16. data \in SUBSET Commands /\ data \cap Major = {}
  BY DEF Commands, Major, MMWL_dataPathConfig, MMWL_hsiClockConfig, MMWL_hsiLaneConfig,
         MMWL_hsiDataRateConfig, MMWL_setHsiClock, MMWL_laneConfig, MMWL_lvdsLaneConfig
<1>17. Leg(c, Try(data), Sure("done"), Sure("done"))
  BY <1>16, LegTry
<1>18. MMWL_App_init(f, downloadFw, es10)
         = MMWL_SOPControl \o MMWL_ResetDevice \o MMWL_powerOnMaster \o <<Cmd("version")>>
             \o download \o swap \o Try(MMWL_setDeviceCrcType) \o MMWL_rfEnable
             \o MMWL_basicConfiguration(f) \o MMWL_rfInit(f) \o wave \o Try(data)
  BY DEF MMWL_App_init
<1> HIDE DEF c, download, swap, wave, data
<1>19. Leg(c, MMWL_SOPControl \o MMWL_ResetDevice \o MMWL_powerOnMaster \o <<Cmd("version")>>
                \o download, Sure("start"), Sure("fresh"))
  BY <1>1, <1>3, <1>7, LegConcat
<1>20. Leg(c, MMWL_SOPControl \o MMWL_ResetDevice \o MMWL_powerOnMaster \o <<Cmd("version")>>
                \o download \o swap \o Try(MMWL_setDeviceCrcType) \o MMWL_rfEnable,
             Sure("start"), Sure("rf"))
  BY <1>8, <1>10, <1>11, <1>19, LegConcat
<1>21. Leg(c, MMWL_App_init(f, downloadFw, es10), Sure("start"), Sure("done"))
  BY <1>11, <1>15, <1>17, <1>18, <1>20, LegConcat
<1> QED
  BY <1>21 DEF c

-----------------------------------------------------------------------------
(***************************************************************************)
(* Types.                                                                  *)
(***************************************************************************)
Results == {"ok", "error", "timeout"}

LEMMA SensorTypes ==
  MMWL_sensorStart \in Seq(Steps) /\ MMWL_sensorStop \in Seq(Steps)
<1>1. /\ OnlyIf("sensorStarted") \in Steps /\ WaitOff("sensorStarted") \in Steps
      /\ Clear({"sensorStarted"}) \in Steps /\ Wait("sensorStarted") \in Steps /\ Check \in Steps
  BY StepTypes, Names
<1>2. Cmd("frameStart") \in Steps /\ Step("cmd", {"frameStop"}) \in Steps
  BY StepTypes DEF Commands
<1>3. MMWL_sensorStart \in Seq(Steps)
  BY <1>1, <1>2 DEF MMWL_sensorStart
<1>4. <<OnlyIf("sensorStarted"), Step("cmd", {"frameStop"}), Check, WaitOff("sensorStarted")>>
        = MMWL_sensorStop
  BY DEF MMWL_sensorStop, Try
<1>5. <<OnlyIf("sensorStarted"), Step("cmd", {"frameStop"}), Check, WaitOff("sensorStarted")>>
        \in Seq(Steps)
  BY <1>1, <1>2
<1> QED
  BY <1>3, <1>4, <1>5

\* The steps of the calls that neither reset the core of the device, nor start
\* its RF subsystem or frames, are plain.
PlainSeq == {t \in Seq(Steps) : \A i \in DOMAIN t : Plain(t[i])}

\* Programs made of plain steps.
LEMMA PlainConcat ==
  ASSUME NEW s \in PlainSeq, NEW t \in PlainSeq
  PROVE  s \o t \in PlainSeq
<1>1. s \o t \in Seq(Steps) /\ Len(s \o t) = Len(s) + Len(t) /\ DOMAIN (s \o t) = 1..Len(s \o t)
  BY ConcatType, ConcatProperties, LenProperties DEF PlainSeq
<1>2. Len(s) \in Nat /\ Len(t) \in Nat /\ DOMAIN s = 1..Len(s) /\ DOMAIN t = 1..Len(t)
  BY LenProperties DEF PlainSeq
<1>3. ASSUME NEW i \in 1..Len(s \o t)
      PROVE  Plain((s \o t)[i])
  <2>1. CASE i <= Len(s)
    <3>1. (s \o t)[i] = s[i] /\ i \in DOMAIN s
      BY <1>1, <1>2, <1>3, <2>1, ConcatProperties DEF PlainSeq
    <3> QED
      BY <3>1 DEF PlainSeq
  <2>2. CASE ~(i <= Len(s))
    <3>1. (s \o t)[i] = t[i - Len(s)] /\ i - Len(s) \in DOMAIN t
      BY <1>1, <1>2, <1>3, <2>2, ConcatProperties DEF PlainSeq
    <3> QED
      BY <3>1 DEF PlainSeq
  <2> QED
    BY <2>1, <2>2
<1> QED
  BY <1>1, <1>3 DEF PlainSeq

LEMMA PlainOne ==
  ASSUME NEW s \in Steps, Plain(s)
  PROVE  <<s>> \in PlainSeq
<1>1. <<s>> \in Seq(Steps) /\ DOMAIN <<s>> = {1} /\ <<s>>[1] = s
  OBVIOUS
<1> QED
  BY <1>1 DEF PlainSeq

LEMMA PlainTry ==
  ASSUME NEW M \in SUBSET Commands, M \cap Major = {}
  PROVE  /\ <<Step("cmd", M)>> \in PlainSeq /\ <<Check>> \in PlainSeq /\ Try(M) \in PlainSeq
<1>1. Step("cmd", M) \in Steps /\ Plain(Step("cmd", M)) /\ Check \in Steps /\ Plain(Check)
  BY StepTypes DEF Plain, Step, Check
<1>2. <<Step("cmd", M)>> \in PlainSeq /\ <<Check>> \in PlainSeq
  BY <1>1, PlainOne
<1>3. Try(M) = <<Step("cmd", M)>> \o <<Check>>
  BY DEF Try
<1> QED
  BY <1>2, <1>3, PlainConcat

\* The calls but init, startSensor and stopSensor are made of plain steps.
LEMMA PlainCalls ==
  /\ \A n \in {0, 1} : MMWL_App_setFrameCfg(n) \in PlainSeq
  /\ MMWL_App_waitSensorStop \in PlainSeq /\ MMWL_App_startCont \in PlainSeq
  /\ MMWL_App_stopCont \in PlainSeq /\ MMWL_App_firmwareDownload \in PlainSeq
  /\ MMWL_App_poweroff \in PlainSeq
<1>1. \A m \in {"frameInfinite", "frameFinite", "getAdvFrame", "contStreaming", "contModeConfig",
                "contOn", "contOff", "version", "fileWrite"} :
        {m} \in SUBSET Commands /\ {m} \cap Major = {}
  BY DEF Commands, Major
<1>2. \A m \in {"frameInfinite", "frameFinite", "getAdvFrame", "contStreaming", "contModeConfig",
                "contOn", "contOff", "version", "fileWrite"} :
        Try({m}) \in PlainSeq /\ <<Cmd(m)>> \in PlainSeq
  BY <1>1, PlainTry DEF Cmd
<1>3. ASSUME NEW n \in {0, 1}
      PROVE  MMWL_App_setFrameCfg(n) \in PlainSeq
  <2>1. MMWL_frameConfig(n) \in PlainSeq
    BY <1>2 DEF MMWL_frameConfig
  <2>2. MMWL_advFrameConfig(n) \in PlainSeq
    BY <1>2, <2>1, PlainConcat DEF MMWL_advFrameConfig
  <2> QED
    BY <2>1, <2>2 DEF MMWL_App_setFrameCfg
<1>4. MMWL_App_waitSensorStop \in PlainSeq
  <2>1. Until("sensorStarted") \in Steps /\ Plain(Until("sensorStarted"))
    BY StepTypes, Names DEF Plain, Until, Step
  <2> QED
    BY <2>1, PlainOne DEF MMWL_App_waitSensorStop
<1>5. MMWL_App_startCont \in PlainSeq /\ MMWL_App_stopCont \in PlainSeq
  BY <1>2, PlainConcat DEF MMWL_App_startCont, MMWL_App_stopCont, MMWL_ContModeEnable
<1>6. /\ \A m \in {"sop", "reset"} : <<Board(m)>> \in PlainSeq
      /\ \A m \in {"on", "off", "offlate"} : <<Link(m)>> \in PlainSeq
      /\ <<Check>> \in PlainSeq /\ <<CloseFile>> \in PlainSeq
      /\ <<Wait("initComp")>> \in PlainSeq /\ <<Clear({"initComp"})>> \in PlainSeq
      /\ <<Clear(PowerFlags)>> \in PlainSeq
  <2>1. \A m \in {"sop", "reset"} : Plain(Board(m))
    BY DEF Plain, Board, Step
  <2>2. \A m \in {"on", "off", "offlate"} : Plain(Link(m))
    BY DEF Plain, Link, Step
  <2>3. Plain(Check) /\ Plain(CloseFile) /\ Plain(Wait("initComp"))
    BY DEF Plain, Check, CloseFile, Wait, Step
  <2>4. Plain(Clear({"initComp"})) /\ Plain(Clear(PowerFlags))
    BY DEF Plain, Clear, Step, PowerFlags
  <2>5. Wait("initComp") \in Steps /\ Clear({"initComp"}) \in Steps
    BY StepTypes, Names
  <2> QED
    BY <2>1, <2>2, <2>3, <2>4, <2>5, StepTypes, PlainOne
<1>7. MMWL_SOPControl \in PlainSeq /\ MMWL_ResetDevice \in PlainSeq
  <2>1. MMWL_SOPControl = <<Board("sop")>> \o <<Check>>
    BY DEF MMWL_SOPControl
  <2>2. MMWL_ResetDevice = <<Board("reset")>> \o <<Check>>
    BY DEF MMWL_ResetDevice
  <2> QED
    BY <1>6, <2>1, <2>2, PlainConcat
<1>8. MMWL_powerOnMaster \in PlainSeq
  <2>1. MMWL_powerOnMaster = <<Clear(PowerFlags)>> \o <<Link("on")>> \o <<Wait("initComp")>>
                               \o <<Clear({"initComp"})>> \o <<Check>>
    BY DEF MMWL_powerOnMaster
  <2> QED
    BY <1>6, <2>1, PlainConcat
<1>9. MMWL_powerOff \in PlainSeq
  <2>1. MMWL_powerOff = <<Link("off")>> \o <<Clear(PowerFlags)>>
    BY DEF MMWL_powerOff
  <2> QED
    BY <1>6, <2>1, PlainConcat
<1>10. MMWL_App_firmwareDownload \in PlainSeq
  BY <1>2, <1>7, <1>8, <1>9, PlainConcat DEF MMWL_App_firmwareDownload, MMWL_firmwareDownload
<1>11. MMWL_App_poweroff \in PlainSeq
  BY <1>6, <1>9, PlainConcat DEF MMWL_App_poweroff
<1> QED
  BY <1>3, <1>4, <1>5, <1>10, <1>11

\* A step of a program leaves a program.
LEMMA GoType ==
  ASSUME TypeOK, todo # <<>>, NEW r \in Results, Go(r)
  PROVE  /\ todo' \in Seq(Steps) /\ ret' = r /\ r \in {"ok", "error", "timeout"}
         /\ call' = call /\ last' = last /\ calls' = calls
<1>1. todo \in Seq(Steps)
  BY DEF TypeOK
<1>2. Tail(todo) \in Seq(Steps)
  BY <1>1, HeadTailProperties
<1>3. Tail(todo) # <<>> => Tail(Tail(todo)) \in Seq(Steps)
  BY <1>2, HeadTailProperties
<1>4. <<>> \in Seq(Steps)
  OBVIOUS
<1>5. todo' \in Seq(Steps)
  BY <1>2, <1>3, <1>4 DEF Go
<1> QED
  BY <1>5 DEF Go, Results

\* What a step is about.
LEMMA HeadType ==
  ASSUME TypeOK, todo # <<>>
  PROVE  /\ Head(todo) \in Steps
         /\ Head(todo).do = "cmd" => Arg \subseteq Commands
         /\ Head(todo).do \in {"wait", "waitok", "waitoff", "until", "onlyif", "clear"} =>
              Arg \subseteq Flags
<1>1. todo \in Seq(Steps)
  BY DEF TypeOK
<1>2. Head(todo) \in Steps
  BY <1>1, HeadTailProperties
<1> QED
  BY <1>2 DEF Steps, Arg

\* The device after a command.
LEMMA ExecutedType ==
  ASSUME TypeOK, NEW M \in SUBSET Commands
  PROVE  Executed(M) \in Devices
<1>1. Booting \in Devices
  <2>1. <<>> \in Seq(Events) /\ {"boot"} \subseteq DOMAIN Announces
    BY Names
  <2> QED
    BY <2>1 DEF Booting, Devices, Frames, None
<1>2. CASE "coreReset" \in M
  BY <1>1, <1>2 DEF Executed
<1>3. CASE "coreReset" \notin M
  <2>1. dev \in Devices
    BY DEF TypeOK
  <2>2. dev.busy \cup (M \cap DOMAIN Announces) \in SUBSET DOMAIN Announces
    BY <2>1 DEF Devices
  <2>3. (dev.rf \/ "rfStart" \in M) \in BOOLEAN
    OBVIOUS
  <2> DEFINE fr == CASE "frameFinite" \in M -> "finite"
                     [] "frameInfinite" \in M -> "infinite"
                     [] OTHER                 -> dev.frames
             tx == CASE "frameStart" \in M -> dev.frames
                     [] "frameStop" \in M  -> "finite"
                     [] OTHER              -> dev.tx
  <2>4. fr \in Frames /\ tx \in Frames
    BY <2>1, Zenon DEF Devices, Frames
  <2>5. Executed(M) = [dev EXCEPT !.rf = dev.rf \/ "rfStart" \in M,
                                  !.busy = dev.busy \cup (M \cap DOMAIN Announces),
                                  !.frames = fr, !.tx = tx]
    BY <1>3, Zenon DEF Executed
  <2> HIDE DEF fr, tx
  <2> QED
    BY <2>1, <2>2, <2>3, <2>4, <2>5 DEF Devices
<1> QED
  BY <1>2, <1>3

\* Every action keeps the types.
LEMMA InitType == Init => TypeOK
<1> SUFFICES ASSUME Init PROVE TypeOK
  OBVIOUS
<1>1. dev \in Devices
  <2>1. <<>> \in Seq(Events) /\ {} \subseteq DOMAIN Announces
    OBVIOUS
  <2> QED
    BY <2>1 DEF Init, Booting, Devices, Frames, None
<1>2. args \in Settings
  BY DEF Init, Settings
<1>3. calls \in 0..MaxCalls /\ faults \in 0..MaxFaults
  BY BoundsAssumption DEF Init
<1>4. todo \in Seq(Steps) /\ hand \in Events \cup {None} /\ stray \subseteq Events
  BY DEF Init
<1> QED
  BY <1>1, <1>2, <1>3, <1>4 DEF Init, TypeOK

LEMMA EnterType ==
  ASSUME TypeOK, NEW c \in Functions, NEW p \in Seq(Steps), Enter(c, p),
         file' \subseteq Files, args' \in Settings, regular' \in BOOLEAN
  PROVE  TypeOK'
<1>1. calls' \in 0..MaxCalls
  BY BoundsAssumption DEF Enter, TypeOK
<1> QED
  BY <1>1 DEF Enter, TypeOK

LEMMA CallsType ==
  ASSUME TypeOK, Calls
  PROVE  TypeOK'
<1>1. ASSUME NEW c \in Functions, NEW p \in Seq(Steps), Calling(c, p)
      PROVE  TypeOK'
  BY <1>1, EnterType DEF Calling, TypeOK
<1>2. ASSUME NEW f \in Files, NEW downloadFw \in BOOLEAN, NEW es10 \in BOOLEAN,
             CallInit(f, downloadFw, es10)
      PROVE  TypeOK'
  <2> DEFINE g == IF file = {} THEN f ELSE CHOOSE x \in file : TRUE
  <2>1. g \in Files
    BY <1>2 DEF TypeOK
  <2>2. g \in Settings
    BY <2>1, FilesAssumption
  <2>3. /\ Enter("init", MMWL_App_init(g, downloadFw, es10))
        /\ file' = {g} /\ args' = g /\ regular' = regular
    BY <1>2 DEF CallInit
  <2> HIDE DEF g
  <2>4. MMWL_App_init(g, downloadFw, es10) \in Seq(Steps)
    BY <2>2, LegInit DEF Leg
  <2>5. "init" \in Functions
    BY DEF Functions
  <2> QED
    BY <2>1, <2>2, <2>3, <2>4, <2>5, EnterType DEF TypeOK
<1>3. ASSUME CallStartSensor
      PROVE  TypeOK'
  <2>1. regular' \in BOOLEAN
    BY <1>3 DEF CallStartSensor
  <2> QED
    BY <1>3, <2>1, SensorTypes, EnterType DEF CallStartSensor, TypeOK, Functions
<1>4. /\ \A n \in {0, 1} : MMWL_App_setFrameCfg(n) \in Seq(Steps)
      /\ MMWL_App_waitSensorStop \in Seq(Steps) /\ MMWL_App_startCont \in Seq(Steps)
      /\ MMWL_App_stopCont \in Seq(Steps) /\ MMWL_App_firmwareDownload \in Seq(Steps)
      /\ MMWL_App_poweroff \in Seq(Steps) /\ MMWL_sensorStop \in Seq(Steps)
  BY PlainCalls, SensorTypes DEF PlainSeq
<1>5. /\ "setFrameCfg" \in Functions /\ "stopSensor" \in Functions
      /\ "waitSensorStop" \in Functions /\ "startCont" \in Functions
      /\ "stopCont" \in Functions /\ "firmwareDownload" \in Functions
      /\ "poweroff" \in Functions
  BY DEF Functions
<1> QED
  BY <1>1, <1>2, <1>3, <1>4, <1>5 DEF Calls

LEMMA ReturnType ==
  ASSUME TypeOK, Return
  PROVE  TypeOK'
  BY DEF Return, TypeOK, hostVars, boundVars

LEMMA FaultType ==
  ASSUME TypeOK, Fault \/ UNCHANGED faults
  PROVE  faults' \in 0..MaxFaults
  BY BoundsAssumption DEF TypeOK, Fault

\* What a command does, whatever becomes of it.
LEMMA CmdType ==
  ASSUME TypeOK, CmdStep
  PROVE  TypeOK'
<1>1. todo # <<>> /\ At("cmd") /\ Head(todo).do = "cmd"
  BY DEF CmdStep, CmdNoLink, CmdDone, CmdRefused, CmdSilent, CmdMistaken, CmdUnheard, Heard, At
<1>2. Arg \in SUBSET Commands
  BY <1>1, HeadType
<1>3. PICK r \in Results : Go(r)
  BY DEF CmdStep, CmdNoLink, CmdDone, CmdRefused, CmdSilent, CmdMistaken, CmdUnheard, Results
<1>4. /\ todo' \in Seq(Steps) /\ ret' \in {"ok", "error", "timeout"}
      /\ call' = call /\ last' = last /\ calls' = calls
  BY <1>1, <1>3, GoType
<1>5. dev' \in Devices
  <2>1. dev' = dev \/ dev' = Executed(Arg)
    BY DEF CmdStep, CmdNoLink, CmdDone, CmdRefused, CmdSilent, CmdMistaken, CmdUnheard, NotExecuted
  <2> QED
    BY <1>2, <2>1, ExecutedType DEF TypeOK
<1>6. missed' \subseteq Commands
  <2>1. missed' \in {missed, missed \cup Arg, {}}
    BY DEF CmdStep, CmdNoLink, CmdDone, CmdRefused, CmdSilent, CmdMistaken, CmdUnheard,
           NotExecuted, histVars
  <2> QED
    BY <1>2, <2>1 DEF TypeOK
<1>7. UNCHANGED hostVars
  BY DEF CmdStep, CmdNoLink, CmdDone, CmdRefused, CmdSilent, CmdMistaken, CmdUnheard
<1>8. Fault \/ UNCHANGED faults
  BY DEF CmdStep, CmdNoLink, CmdDone, CmdRefused, CmdSilent, CmdMistaken, CmdUnheard
<1>9. unheard' \in BOOLEAN /\ regular' \in BOOLEAN
  BY DEF CmdStep, CmdNoLink, CmdDone, CmdRefused, CmdSilent, CmdMistaken, CmdUnheard,
         histVars, TypeOK
<1>10. faults' \in 0..MaxFaults
  BY <1>8, FaultType
<1> QED
  BY <1>4, <1>5, <1>6, <1>7, <1>9, <1>10 DEF TypeOK, hostVars

LEMMA WaitType ==
  ASSUME TypeOK, WaitSeen \/ WaitTimeout \/ ClearFlag \/ CheckFlag \/ Close
  PROVE  TypeOK'
<1>0. todo # <<>>
  BY DEF WaitSeen, WaitTimeout, Unmet, ClearFlag, CheckFlag, Close, At
<1>1. CASE WaitSeen
  <2>1. ret \in Results /\ Go(ret)
    BY <1>1 DEF WaitSeen, TypeOK, Results
  <2> QED
    BY <1>0, <1>1, <2>1, GoType DEF WaitSeen, TypeOK, hostVars, histVars
<1>2. CASE WaitTimeout
  <2>1. "timeout" \in Results /\ Go("timeout")
    BY <1>2 DEF WaitTimeout, Results
  <2>2. Fault \/ UNCHANGED faults
    BY <1>2 DEF WaitTimeout
  <2>3. /\ regular' \in BOOLEAN /\ UNCHANGED <<hostVars, dev, missed, unheard>>
    BY <1>2 DEF WaitTimeout
  <2> QED
    BY <1>0, <2>1, <2>2, <2>3, GoType, FaultType DEF TypeOK, hostVars
<1>3. CASE ClearFlag
  <2>1. ret \in Results /\ Go(ret)
    BY <1>3 DEF ClearFlag, TypeOK, Results
  <2> QED
    BY <1>0, <1>3, <2>1, GoType DEF ClearFlag, TypeOK, histVars
<1>4. CASE CheckFlag
  <2>1. UNCHANGED <<hostVars, dev, faults, histVars>>
    BY <1>4 DEF CheckFlag
  <2>2. CASE Go(ret)
    <3>1. ret \in Results
      BY DEF TypeOK, Results
    <3> QED
      BY <1>0, <2>1, <2>2, <3>1, GoType DEF TypeOK, hostVars, histVars
  <2>3. CASE todo' = <<>> /\ UNCHANGED <<call, ret, last, calls>>
    BY <2>1, <2>3 DEF TypeOK, hostVars, histVars
  <2> QED
    BY <1>4, <2>2, <2>3 DEF CheckFlag
<1>5. CASE Close
  <2>1. ret \in Results /\ Go(ret)
    BY <1>5 DEF Close, TypeOK, Results
  <2> QED
    BY <1>0, <1>5, <2>1, GoType DEF Close, TypeOK, histVars
<1> QED
  BY <1>1, <1>2, <1>3, <1>4, <1>5

LEMMA BoardType ==
  ASSUME TypeOK, BoardStep
  PROVE  TypeOK'
<1>1. PICK ok \in BOOLEAN : Sop(ok) \/ Reset(ok)
  BY DEF BoardStep
<1>2. todo # <<>>
  BY <1>1 DEF Sop, Reset, At
<1>3. PICK r \in Results : Go(r)
  BY <1>1 DEF Sop, Reset, Results
<1>4. Fault \/ UNCHANGED faults
  BY <1>1 DEF Sop, Reset
<1>5. dev' \in Devices
  <2>1. Booting \in Devices
    <3>1. <<>> \in Seq(Events) /\ {"boot"} \subseteq DOMAIN Announces
      BY Names
    <3> QED
      BY <3>1 DEF Booting, Devices, Frames, None
  <2>2. dev' = dev \/ dev' = Booting
    BY <1>1 DEF Sop, Reset
  <2> QED
    BY <2>1, <2>2 DEF TypeOK
<1>6. /\ unheard' \in BOOLEAN /\ regular' \in BOOLEAN /\ missed' = missed
      /\ UNCHANGED hostVars
  BY <1>1 DEF Sop, Reset, histVars, TypeOK
<1> QED
  BY <1>2, <1>3, <1>4, <1>5, <1>6, GoType, FaultType DEF TypeOK, hostVars

LEMMA LinkType ==
  ASSUME TypeOK, LinkStep
  PROVE  TypeOK'
<1>1. PICK opens \in BOOLEAN : LinkOff \/ LinkKeep \/ LinkOn(opens)
  BY DEF LinkStep
<1>2. todo # <<>>
  BY <1>1 DEF LinkOff, LinkKeep, LinkOn, At
<1>3. PICK r \in Results : Go(r)
  BY <1>1 DEF LinkOff, LinkKeep, LinkOn, Results, TypeOK
<1>4. Fault \/ UNCHANGED faults
  BY <1>1 DEF LinkOff, LinkKeep, LinkOn, ShutLink
<1>5. /\ linkUp' \in BOOLEAN /\ hand' \in Events \cup {None} /\ stray' \subseteq Events
      /\ hand' # None => linkUp'
      /\ regular' \in BOOLEAN
  BY <1>1 DEF LinkOff, LinkKeep, LinkOn, ShutLink, TypeOK, hostVars, histVars
<1>6. UNCHANGED <<flags, file, args, dev, missed, unheard>>
  BY <1>1 DEF LinkOff, LinkKeep, LinkOn, hostVars, histVars
<1> QED
  BY <1>2, <1>3, <1>4, <1>5, <1>6, GoType, FaultType DEF TypeOK

LEMMA AfterEventType ==
  ASSUME TypeOK, NEW e \in Events \ {"CPUFAULT"}
  PROVE  AfterEvent(e) \subseteq Flags
<1>1. CASE e = "END"
  BY <1>1 DEF AfterEvent, TypeOK
<1>2. CASE e # "END"
  <2>1. Raises[e] \in Flags
    BY <1>2 DEF Flags, Events
  <2> QED
    BY <1>2, <2>1 DEF AfterEvent, TypeOK
<1> QED
  BY <1>1, <1>2

LEMMA DevType ==
  ASSUME TypeOK, NEW e \in Events
  PROVE  Append(dev.out, e) \in Seq(Events)
  BY AppendProperties DEF TypeOK, Devices

LEMMA EventType ==
  ASSUME TypeOK, ReadEvent \/ HandleEvent \/ DevStep \/ CpuFault \/ StrayStep
  PROVE  TypeOK'
<1>1. CASE ReadEvent
  <2>1. dev.out \in Seq(Events) /\ dev \in Devices
    BY DEF TypeOK, Devices
  <2>2. Head(dev.out) \in Events /\ Tail(dev.out) \in Seq(Events)
    BY <1>1, <2>1, HeadTailProperties DEF ReadEvent
  <2>3. dev' \in Devices
    BY <1>1, <2>1, <2>2 DEF ReadEvent, Devices
  <2> QED
    BY <1>1, <2>2, <2>3 DEF ReadEvent, TypeOK, appVars, boundVars, histVars
<1>2. CASE HandleEvent
  <2>1. flags' \subseteq Flags
    BY <1>2, AfterEventType DEF HandleEvent, TypeOK
  <2> QED
    BY <1>2, <2>1 DEF HandleEvent, TypeOK, appVars, boundVars, histVars
<1>3. CASE DevStep
  <2>1. ASSUME NEW lost \in BOOLEAN, FrameEnd(lost)
        PROVE  TypeOK'
    <3>1. Append(dev.out, "END") \in Seq(Events) /\ dev \in Devices
      BY DevType, Names DEF TypeOK
    <3>2. dev' \in Devices
      BY <2>1, <3>1 DEF FrameEnd, Devices, Frames
    <3>3. Fault \/ UNCHANGED faults
      BY <2>1 DEF FrameEnd
    <3>4. /\ regular' \in BOOLEAN
          /\ UNCHANGED <<appVars, hostVars, calls, missed, unheard>>
      BY <2>1 DEF FrameEnd
    <3> QED
      BY <3>2, <3>3, <3>4, FaultType DEF TypeOK, appVars, hostVars
  <2>2. ASSUME NEW lost \in BOOLEAN, NEW m \in DOMAIN Announces, DevEvent(m, lost)
        PROVE  TypeOK'
    <3>1. Announces[m] \in Events
      BY Names DEF Announces
    <3>2. Append(dev.out, Announces[m]) \in Seq(Events) /\ dev \in Devices
      BY <3>1, DevType DEF TypeOK
    <3>3. dev' \in Devices
      BY <2>2, <3>2 DEF DevEvent, Devices
    <3>4. Fault \/ UNCHANGED faults
      BY <2>2 DEF DevEvent
    <3>5. /\ regular' \in BOOLEAN
          /\ UNCHANGED <<appVars, hostVars, calls, missed, unheard>>
      BY <2>2 DEF DevEvent
    <3> QED
      BY <3>3, <3>4, <3>5, FaultType DEF TypeOK, appVars, hostVars
  <2> QED
    BY <1>3, <2>1, <2>2 DEF DevStep
<1>4. CASE CpuFault
  <2>1. Append(dev.out, "CPUFAULT") \in Seq(Events) /\ dev \in Devices
    BY DevType, Names DEF TypeOK
  <2>2. dev' \in Devices
    BY <1>4, <2>1 DEF CpuFault, Devices
  <2>3. Fault
    BY <1>4 DEF CpuFault
  <2>4. /\ regular' \in BOOLEAN
        /\ UNCHANGED <<appVars, hostVars, calls, missed, unheard>>
    BY <1>4 DEF CpuFault
  <2> QED
    BY <2>2, <2>3, <2>4, FaultType DEF TypeOK, appVars, hostVars
<1>5. CASE StrayStep
  <2>1. PICK e \in stray, read \in BOOLEAN : HandleStray(e, read)
    BY <1>5 DEF StrayStep
  <2>2. flags' \subseteq Flags
    BY <2>1, AfterEventType DEF HandleStray, TypeOK
  <2> QED
    BY <2>1, <2>2 DEF HandleStray, TypeOK, appVars, boundVars, histVars
<1> QED
  BY <1>1, <1>2, <1>3, <1>4, <1>5

LEMMA TypeNext ==
  ASSUME TypeOK, [Next]_vars
  PROVE  TypeOK'
<1>1. CASE Next
  BY <1>1, CallsType, ReturnType, CmdType, WaitType, BoardType, LinkType, EventType
  DEF Next, AppStep
<1>2. CASE UNCHANGED vars
  BY <1>2 DEF vars, appVars, hostVars, boundVars, histVars, TypeOK
<1> QED
  BY <1>1, <1>2

\* The state of the application, the host and the device has its type, for
\* every set of files and every bound.
THEOREM TypeCorrect == Spec => []TypeOK
  BY InitType, TypeNext, PTL DEF Spec

-----------------------------------------------------------------------------
(***************************************************************************)
(* Events in line.                                                         *)
(***************************************************************************)
LEMMA InLine ==
  ASSUME NEW s \in Seq(Events), NEW x \in Events
  PROVE  /\ Range(Append(s, x)) = Range(s) \cup {x}
         /\ \A e : Once(s, e) /\ (x = e => e \notin Range(s)) => Once(Append(s, x), e)
         /\ \A e, f : Closes(s, e, f) /\ (x = f => e \notin Range(s)) => Closes(Append(s, x), e, f)
<1> DEFINE t == Append(s, x)
<1>1. /\ Len(s) \in Nat /\ Len(t) = Len(s) + 1 /\ t[Len(s) + 1] = x
      /\ \A i \in 1..Len(s) : t[i] = s[i]
      /\ DOMAIN s = 1..Len(s) /\ DOMAIN t = 1..(Len(s) + 1)
  BY AppendProperties, LenProperties
<1> HIDE DEF t
<1>2. Range(t) = Range(s) \cup {x}
  BY <1>1 DEF Range
<1>3. ASSUME NEW e, Once(s, e), x = e => e \notin Range(s)
      PROVE  Once(t, e)
  BY <1>1, <1>3 DEF Once, Range
<1>4. ASSUME NEW e, NEW f, Closes(s, e, f), x = f => e \notin Range(s)
      PROVE  Closes(t, e, f)
  <2> SUFFICES ASSUME NEW i \in DOMAIN t, NEW j \in DOMAIN t, t[i] = e, i < j, t[j] = f
               PROVE  FALSE
    BY DEF Closes
  <2>1. i \in DOMAIN s /\ s[i] = e
    BY <1>1
  <2>2. CASE j \in DOMAIN s
    BY <1>1, <1>4, <2>1, <2>2 DEF Closes
  <2>3. CASE j = Len(s) + 1
    BY <1>1, <1>4, <2>1, <2>3 DEF Range
  <2> QED
    BY <1>1, <2>2, <2>3
<1> QED
  BY <1>2, <1>3, <1>4 DEF t

LEMMA OutOfLine ==
  ASSUME NEW s \in Seq(Events), s # <<>>
  PROVE  /\ Head(s) \in Events /\ Tail(s) \in Seq(Events)
         /\ Range(s) = Range(Tail(s)) \cup {Head(s)}
         /\ \A e : Once(s, e) => Once(Tail(s), e) /\ (Head(s) = e => e \notin Range(Tail(s)))
         /\ \A e, f : Closes(s, e, f) =>
              Closes(Tail(s), e, f) /\ (Head(s) = e => f \notin Range(Tail(s)))
<1> DEFINE t == Tail(s)
<1>1. /\ Len(s) \in Nat /\ Len(s) > 0 /\ Len(t) = Len(s) - 1 /\ Head(s) = s[1]
      /\ t \in Seq(Events) /\ Head(s) \in Events
      /\ \A i \in 1..Len(t) : t[i] = s[i + 1]
  BY HeadTailProperties, LenProperties, EmptySeq
<1>2. DOMAIN s = 1..Len(s) /\ DOMAIN t = 1..Len(t)
  BY <1>1, LenProperties
<1> HIDE DEF t
<1>3. Range(s) = Range(t) \cup {Head(s)}
  <2>1. ASSUME NEW i \in DOMAIN t
        PROVE  t[i] \in Range(s)
    <3>1. i + 1 \in DOMAIN s /\ t[i] = s[i + 1]
      BY <1>1, <1>2
    <3> QED
      BY <3>1 DEF Range
  <2>2. \A i \in DOMAIN s : i = 1 \/ (i - 1 \in DOMAIN t /\ s[i] = t[i - 1])
    BY <1>1, <1>2
  <2>3. Head(s) \in Range(s)
    BY <1>1, <1>2 DEF Range
  <2> QED
    BY <1>1, <2>1, <2>2, <2>3 DEF Range
<1>4. ASSUME NEW e, Once(s, e)
      PROVE  Once(t, e) /\ (Head(s) = e => e \notin Range(t))
  <2>1. \A i \in DOMAIN t : i + 1 \in DOMAIN s /\ t[i] = s[i + 1]
    BY <1>1, <1>2
  <2>2. Once(t, e)
    <3> SUFFICES ASSUME NEW i \in DOMAIN t, NEW j \in DOMAIN t, t[i] = e, t[j] = e
                 PROVE  i = j
      BY DEF Once
    <3>1. i + 1 = j + 1
      BY <1>4, <2>1 DEF Once
    <3> QED
      BY <1>2, <3>1
  <2>3. ASSUME Head(s) = e, e \in Range(t)
        PROVE  FALSE
    <3>1. PICK i \in DOMAIN t : t[i] = e
      BY <2>3 DEF Range
    <3>2. 1 \in DOMAIN s /\ s[1] = e
      BY <1>1, <1>2, <2>3
    <3>3. 1 = i + 1
      BY <1>4, <2>1, <3>1, <3>2 DEF Once
    <3> QED
      BY <1>2, <3>3
  <2> QED
    BY <2>2, <2>3
<1>5. ASSUME NEW e, NEW f, Closes(s, e, f)
      PROVE  Closes(t, e, f) /\ (Head(s) = e => f \notin Range(t))
  <2>1. \A i \in DOMAIN t : i + 1 \in DOMAIN s /\ t[i] = s[i + 1]
    BY <1>1, <1>2
  <2>2. Closes(t, e, f)
    <3> SUFFICES ASSUME NEW i \in DOMAIN t, NEW j \in DOMAIN t, t[i] = e, i < j
                 PROVE  t[j] # f
      BY DEF Closes
    <3>1. i + 1 < j + 1
      BY <1>2
    <3> QED
      BY <1>5, <2>1, <3>1 DEF Closes
  <2>3. ASSUME Head(s) = e, f \in Range(t)
        PROVE  FALSE
    <3>1. PICK j \in DOMAIN t : t[j] = f
      BY <2>3 DEF Range
    <3>2. 1 \in DOMAIN s /\ s[1] = e /\ 1 < j + 1
      BY <1>1, <1>2, <2>3
    <3> QED
      BY <1>5, <2>1, <3>1, <3>2 DEF Closes
  <2> QED
    BY <2>2, <2>3
<1> QED
  BY <1>1, <1>3, <1>4, <1>5 DEF t

LEMMA NoneInLine ==
  ASSUME NEW e, NEW f
  PROVE  Range(<<>>) = {} /\ Once(<<>>, e) /\ Closes(<<>>, e, f)
  BY DEF Range, Once, Closes

-----------------------------------------------------------------------------
(***************************************************************************)
(* What the steps change.                                                  *)
(***************************************************************************)
\* The device but for its events.
DevKept == /\ dev'.up = dev.up /\ dev'.rf = dev.rf /\ dev'.calibrated = dev.calibrated
           /\ dev'.frames = dev.frames /\ dev'.tx = dev.tx /\ dev'.busy = dev.busy

\* Events that are read, handled, sent by the device or left over.
LEMMA ReadFacts ==
  ASSUME TypeOK, ReadEvent
  PROVE  /\ hand = None /\ linkUp /\ dev.out # <<>> /\ hand' = Head(dev.out)
         /\ dev'.out = Tail(dev.out) /\ DevKept
         /\ hand' \in Events /\ Ready = Ready' \cup {hand'}
         /\ \A e \in Events : Pending(e)' <=> Pending(e)
         /\ UNCHANGED <<appVars, flags, file, args, linkUp, stray, boundVars, histVars>>
<1>1. /\ hand = None /\ linkUp /\ dev.out # <<>> /\ hand' = Head(dev.out)
      /\ dev' = [dev EXCEPT !.out = Tail(dev.out)]
      /\ UNCHANGED <<appVars, flags, file, args, linkUp, stray, boundVars, histVars>>
  BY DEF ReadEvent
<1>2. dev \in Devices /\ dev.out \in Seq(Events)
  BY DEF TypeOK, Devices
<1>3. dev'.out = Tail(dev.out) /\ DevKept
  BY <1>1, <1>2 DEF Devices, DevKept
<1>4. hand' \in Events /\ Ready = Ready' \cup {hand'}
  BY <1>1, <1>2, <1>3, OutOfLine DEF Ready
<1>5. \A e \in Events : Pending(e)' <=> Pending(e)
  BY <1>1, <1>4, Names DEF Pending, None
<1> QED
  BY <1>1, <1>3, <1>4, <1>5

LEMMA HandleFacts ==
  ASSUME TypeOK, HandleEvent
  PROVE  /\ hand \in Events \ {"CPUFAULT"} /\ hand' = None
         /\ hand = "END" => flags' = flags \ {"sensorStarted"}
         /\ hand # "END" => flags' = flags \cup {Raises[hand]}
         /\ \A e \in Events : Pending(e)' <=> e \in Ready
         /\ Ready' = Ready
         /\ UNCHANGED <<appVars, file, args, linkUp, stray, dev, boundVars, histVars>>
<1>1. /\ hand \in Events \ {"CPUFAULT"} /\ hand' = None
      /\ flags' = AfterEvent(hand)
      /\ UNCHANGED <<appVars, file, args, linkUp, stray, dev, boundVars, histVars>>
  BY DEF HandleEvent, TypeOK
<1>2. Ready' = Ready
  BY <1>1 DEF Ready
<1>3. \A e \in Events : Pending(e)' <=> e \in Ready
  BY <1>1, <1>2, Names DEF Pending, None
<1> QED
  BY <1>1, <1>2, <1>3 DEF AfterEvent

\* What the commands announce, and the flags the events set.
LEMMA RaisesFacts ==
  /\ Raises["POWERUP"] = "initComp" /\ Raises["RFPOWERUP"] = "startComp"
  /\ Raises["INITCALIB"] = "rfInitComp" /\ Raises["TRIGGER"] = "sensorStarted"
  /\ Announces["boot"] = "POWERUP" /\ Announces["rfStart"] = "RFPOWERUP"
  /\ Announces["rfInit"] = "INITCALIB" /\ Announces["calibRestore"] = "INITCALIB"
  /\ Announces["frameStart"] = "TRIGGER"
  BY DEF Raises, Announces

LEMMA DevEventFacts ==
  ASSUME TypeOK, NEW m, NEW lost \in BOOLEAN, DevEvent(m, lost)
  PROVE  /\ m \in dev.busy /\ m \in DOMAIN Announces /\ Announces[m] \in Events
         /\ dev'.up = (dev.up \/ m = "boot") /\ dev'.rf = dev.rf
         /\ dev'.calibrated = (dev.calibrated \/ m = "rfInit")
         /\ dev'.frames = dev.frames /\ dev'.tx = dev.tx /\ dev'.busy = dev.busy \ {m}
         /\ lost => ~regular' /\ dev'.out = dev.out /\ Ready' = Ready
         /\ ~lost => /\ regular' = regular /\ dev'.out = Append(dev.out, Announces[m])
                     /\ Ready' = Ready \cup {Announces[m]}
         /\ regular' => regular
         /\ UNCHANGED <<appVars, hostVars, calls, missed, unheard>>
<1>1. /\ m \in dev.busy /\ regular' = (regular /\ ~lost)
      /\ dev' = [dev EXCEPT !.busy = dev.busy \ {m},
                            !.up   = dev.up \/ m = "boot",
                            !.calibrated = dev.calibrated \/ m = "rfInit",
                            !.out  = IF lost THEN dev.out ELSE Append(dev.out, Announces[m])]
      /\ UNCHANGED <<appVars, hostVars, calls, missed, unheard>>
  BY DEF DevEvent
<1>2. dev \in Devices /\ dev.out \in Seq(Events)
  BY DEF TypeOK, Devices
<1>3. m \in DOMAIN Announces /\ Announces[m] \in Events
  BY <1>1, <1>2, Names, RaisesFacts DEF Devices
<1>4. /\ dev'.up = (dev.up \/ m = "boot") /\ dev'.rf = dev.rf
      /\ dev'.calibrated = (dev.calibrated \/ m = "rfInit")
      /\ dev'.frames = dev.frames /\ dev'.tx = dev.tx /\ dev'.busy = dev.busy \ {m}
      /\ dev'.out = IF lost THEN dev.out ELSE Append(dev.out, Announces[m])
  BY <1>1, <1>2 DEF Devices
<1>5. lost => Ready' = Ready
  BY <1>4 DEF Ready
<1>6. ~lost => Ready' = Ready \cup {Announces[m]}
  BY <1>2, <1>3, <1>4, InLine DEF Ready
<1>7. regular \in BOOLEAN
  BY DEF TypeOK
<1> QED
  BY <1>1, <1>3, <1>4, <1>5, <1>6, <1>7

LEMMA FrameEndFacts ==
  ASSUME TypeOK, NEW lost \in BOOLEAN, FrameEnd(lost)
  PROVE  /\ dev.tx = "finite" /\ "frameStart" \notin dev.busy
         /\ dev'.up = dev.up /\ dev'.rf = dev.rf /\ dev'.calibrated = dev.calibrated
         /\ dev'.frames = dev.frames /\ dev'.tx = None /\ dev'.busy = dev.busy
         /\ lost => ~regular' /\ dev'.out = dev.out /\ Ready' = Ready
         /\ ~lost => /\ regular' = regular /\ dev'.out = Append(dev.out, "END")
                     /\ Ready' = Ready \cup {"END"}
         /\ regular' => regular
         /\ UNCHANGED <<appVars, hostVars, calls, missed, unheard>>
<1>1. /\ dev.tx = "finite" /\ "frameStart" \notin dev.busy /\ regular' = (regular /\ ~lost)
      /\ dev' = [dev EXCEPT !.tx = None,
                            !.out = IF lost THEN dev.out ELSE Append(dev.out, "END")]
      /\ UNCHANGED <<appVars, hostVars, calls, missed, unheard>>
  BY DEF FrameEnd
<1>2. dev \in Devices /\ dev.out \in Seq(Events) /\ "END" \in Events
  BY Names DEF TypeOK, Devices
<1>3. /\ dev'.up = dev.up /\ dev'.rf = dev.rf /\ dev'.calibrated = dev.calibrated
      /\ dev'.frames = dev.frames /\ dev'.tx = None /\ dev'.busy = dev.busy
      /\ dev'.out = IF lost THEN dev.out ELSE Append(dev.out, "END")
  BY <1>1, <1>2 DEF Devices
<1>4. lost => Ready' = Ready
  BY <1>3 DEF Ready
<1>5. ~lost => Ready' = Ready \cup {"END"}
  BY <1>2, <1>3, InLine DEF Ready
<1>6. regular \in BOOLEAN
  BY DEF TypeOK
<1> QED
  BY <1>1, <1>3, <1>4, <1>5, <1>6

LEMMA CpuFaultFacts ==
  ASSUME TypeOK, CpuFault
  PROVE  /\ dev.up /\ ~regular' /\ DevKept
         /\ dev'.out = Append(dev.out, "CPUFAULT")
         /\ Ready' = Ready \cup {"CPUFAULT"}
         /\ UNCHANGED <<appVars, hostVars, calls, missed, unheard>>
<1>1. /\ dev.up /\ ~regular' /\ dev' = [dev EXCEPT !.out = Append(dev.out, "CPUFAULT")]
      /\ UNCHANGED <<appVars, hostVars, calls, missed, unheard>>
  BY DEF CpuFault
<1>2. dev \in Devices /\ dev.out \in Seq(Events) /\ "CPUFAULT" \in Events
  BY Names DEF TypeOK, Devices
<1>3. dev'.out = Append(dev.out, "CPUFAULT") /\ DevKept
  BY <1>1, <1>2 DEF Devices, DevKept
<1>4. Ready' = Ready \cup {"CPUFAULT"}
  BY <1>2, <1>3, InLine DEF Ready
<1> QED
  BY <1>1, <1>3, <1>4

LEMMA StrayFacts ==
  ASSUME TypeOK, NEW e, NEW read \in BOOLEAN, HandleStray(e, read)
  PROVE  /\ e \in stray \ {"CPUFAULT"} /\ stray' = stray \ {e}
         /\ UNCHANGED <<appVars, file, args, linkUp, hand, dev, boundVars, histVars>>
  BY DEF HandleStray

\* What a command changes of the device.
LEMMA ExecutedFacts ==
  ASSUME TypeOK, NEW M \in SUBSET Commands, dev' = Executed(M)
  PROVE  /\ "coreReset" \in M => dev' = Booting
         /\ "coreReset" \notin M =>
              /\ dev'.up = dev.up /\ dev'.rf = (dev.rf \/ "rfStart" \in M)
              /\ dev'.calibrated = dev.calibrated
              /\ dev'.busy = dev.busy \cup (M \cap DOMAIN Announces)
              /\ dev'.out = dev.out
              /\ M \cap {"frameStart", "frameStop"} = {} => dev'.tx = dev.tx
              /\ "frameStart" \in M /\ "frameStop" \notin M => dev'.tx = dev.frames
              /\ "frameStop" \in M /\ "frameStart" \notin M => dev'.tx = "finite"
<1>1. CASE "coreReset" \in M
  BY <1>1 DEF Executed
<1>2. CASE "coreReset" \notin M
  <2> DEFINE fr == CASE "frameFinite" \in M -> "finite"
                     [] "frameInfinite" \in M -> "infinite"
                     [] OTHER                 -> dev.frames
             tx == CASE "frameStart" \in M -> dev.frames
                     [] "frameStop" \in M  -> "finite"
                     [] OTHER              -> dev.tx
  <2>1. dev \in Devices
    BY DEF TypeOK
  <2>2. dev' = [dev EXCEPT !.rf = dev.rf \/ "rfStart" \in M,
                           !.busy = dev.busy \cup (M \cap DOMAIN Announces),
                           !.frames = fr, !.tx = tx]
    BY <1>2, Zenon DEF Executed
  <2>3. /\ M \cap {"frameStart", "frameStop"} = {} => tx = dev.tx
        /\ "frameStart" \in M /\ "frameStop" \notin M => tx = dev.frames
        /\ "frameStop" \in M /\ "frameStart" \notin M => tx = "finite"
    <3>1. M \cap {"frameStart", "frameStop"} = {} => "frameStart" \notin M /\ "frameStop" \notin M
      OBVIOUS
    <3>2. "frameStart" \notin M /\ "frameStop" \notin M => tx = dev.tx
      BY Zenon
    <3>3. "frameStart" \in M /\ "frameStop" \notin M => tx = dev.frames
      BY Zenon
    <3>4. "frameStop" \in M /\ "frameStart" \notin M => tx = "finite"
      BY Zenon
    <3> QED
      BY <3>1, <3>2, <3>3, <3>4
  <2> HIDE DEF fr, tx
  <2>4. /\ dev'.up = dev.up /\ dev'.rf = (dev.rf \/ "rfStart" \in M)
        /\ dev'.calibrated = dev.calibrated
        /\ dev'.busy = dev.busy \cup (M \cap DOMAIN Announces)
        /\ dev'.out = dev.out /\ dev'.tx = tx
    BY <2>1, <2>2 DEF Devices
  <2> QED
    BY <1>2, <2>3, <2>4
<1> QED
  BY <1>1, <1>2

LEMMA BootingFacts ==
  /\ ~Booting.up /\ ~Booting.rf /\ ~Booting.calibrated /\ Booting.tx = None
  /\ Booting.busy = {"boot"} /\ Booting.out = <<>>
  BY DEF Booting

\* What the commands have in common.
LEMMA CmdFacts ==
  ASSUME TypeOK, CmdStep
  PROVE  /\ At("cmd") /\ call # None /\ todo # <<>> /\ Head(todo).do = "cmd"
         /\ Arg \in SUBSET Commands
         /\ UNCHANGED hostVars
         /\ \E r \in Results : Go(r)
         /\ dev' # dev => /\ dev' = Executed(Arg) /\ ~Refuses(Arg) /\ dev.up
                          /\ linkUp /\ hand = None /\ dev.out = <<>>
         /\ missed' \subseteq missed \cup Arg
         /\ unheard => unheard'
         /\ regular' => regular /\ unheard' = unheard
         /\ \/ unheard' \/ ret' # "ok" \/ (Arg = {"coreReset"} /\ missed' \subseteq missed \cup Arg)
            \/ /\ dev' = Executed(Arg) /\ missed' = missed
               /\ linkUp /\ hand = None /\ dev.out = <<>> /\ ~Refuses(Arg)
<1>1. /\ At("cmd") /\ call # None /\ todo # <<>> /\ Head(todo).do = "cmd"
  BY DEF CmdStep, CmdNoLink, CmdDone, CmdRefused, CmdSilent, CmdMistaken, CmdUnheard, Heard, At
<1>2. Arg \in SUBSET Commands
  BY <1>1, HeadType
<1>3. \E r \in Results : Go(r)
  BY DEF CmdStep, CmdNoLink, CmdDone, CmdRefused, CmdSilent, CmdMistaken, CmdUnheard, Results
<1>4. UNCHANGED hostVars
  BY DEF CmdStep, CmdNoLink, CmdDone, CmdRefused, CmdSilent, CmdMistaken, CmdUnheard
<1>5. dev' # dev => /\ dev' = Executed(Arg) /\ ~Refuses(Arg) /\ dev.up
                    /\ linkUp /\ hand = None /\ dev.out = <<>>
  BY DEF CmdStep, CmdNoLink, CmdDone, CmdRefused, CmdSilent, CmdMistaken, CmdUnheard,
         NotExecuted, Heard
<1>6. missed' \subseteq missed \cup Arg
  BY DEF CmdStep, CmdNoLink, CmdDone, CmdRefused, CmdSilent, CmdMistaken, CmdUnheard,
         NotExecuted, histVars
<1>7. (unheard => unheard') /\ (regular' => regular /\ unheard' = unheard)
  BY DEF CmdStep, CmdNoLink, CmdDone, CmdRefused, CmdSilent, CmdMistaken, CmdUnheard, histVars
<1>8. \/ unheard' \/ ret' # "ok" \/ (Arg = {"coreReset"} /\ missed' \subseteq missed \cup Arg)
      \/ /\ dev' = Executed(Arg) /\ missed' = missed
         /\ linkUp /\ hand = None /\ dev.out = <<>> /\ ~Refuses(Arg)
  <2>1. CASE CmdNoLink \/ CmdRefused \/ CmdSilent
    BY <1>6, <2>1 DEF CmdNoLink, CmdRefused, CmdSilent, Go
  <2>2. CASE CmdDone
    BY <2>2 DEF CmdDone, histVars, Heard
  <2>3. CASE CmdMistaken \/ \E executed \in BOOLEAN : CmdUnheard(executed)
    BY <2>3 DEF CmdMistaken, CmdUnheard
  <2> QED
    BY <2>1, <2>2, <2>3 DEF CmdStep
<1> QED
  BY <1>1, <1>2, <1>3, <1>4, <1>5, <1>6, <1>7, <1>8

-----------------------------------------------------------------------------
(***************************************************************************)
(* The next step of a program.                                             *)
(***************************************************************************)
LEMMA LeadsCmd ==
  ASSUME NEW c, NEW a, NEW s, NEW b, Leads(c, a, s, b), s.do = "cmd"
  PROVE  \/ s.arg = {"coreReset"} /\ a = Sure("fresh") /\ b = a
         \/ /\ s.arg \cap Major = {} /\ a[2] = TRUE /\ a[1] \in {"fresh", "rf", "clean", "done"}
            /\ b = IfOk(a[1]) \/ (b = a /\ s.arg \subseteq Overwritten)
         \/ s.arg = {"rfStart"} /\ a = Sure("fresh") /\ b = IfOk("rf")
         \/ s.arg = {"calibRestore"} /\ c = "restore" /\ a = Sure("clean") /\ b = IfOk("restore")
         \/ s.arg = {"rfInit"} /\ a = Sure("clean") /\ b = Sure("calib")
         \/ s.arg \cap Major = {} /\ c = "store" /\ a = Sure("waited") /\ b = IfOk("done")
  BY DEF Leads, IsCmd, Cmd, Check, Board, Clear, Link, Wait, WaitIfOk, Step

\* A wait, a clearing of flags, the board, the link, and a check likewise.
LEMMA LeadsWait ==
  ASSUME NEW c, NEW a, NEW s, NEW b, Leads(c, a, s, b), s.do \in {"wait", "waitok"}
  PROVE  \/ s.arg = {"initComp"} /\ s.do = "wait" /\ a = IfOk("swept") /\ b = IfOk("fresh")
         \/ s.arg = {"initComp"} /\ s.do = "waitok" /\ a[1] = "fresh" /\ b = IfOk("fresh")
         \/ s.arg = {"startComp"} /\ a = IfOk("rf") /\ b = a
         \/ s.arg = {"rfInitComp"} /\ s.do = "wait" /\ c = "restore" /\ a = Sure("restore") /\ b = Sure("rf")
         \/ s.arg = {"rfInitComp"} /\ s.do = "wait" /\ a = Sure("calib") /\ b = Sure("waited")
  BY DEF Leads, IsCmd, Cmd, Check, Board, Clear, Link, Wait, WaitIfOk, Step

LEMMA LeadsClear ==
  ASSUME NEW c, NEW a, NEW s, NEW b, Leads(c, a, s, b), s.do = "clear"
  PROVE  \/ s.arg = PowerFlags /\ a = Sure("reset") /\ b = Sure("swept")
         \/ s.arg = {"initComp"} /\ a[1] = "fresh" /\ b = IfOk("fresh")
         \/ s.arg = {"startComp"} /\ a = IfOk("rf") /\ b = a
         \/ s.arg = {"rfInitComp"} /\ a = Sure("rf") /\ b = Sure("clean")
         \/ s.arg = {"rfInitComp"} /\ a = Sure("waited") /\ b = a
  BY DEF Leads, IsCmd, Cmd, Check, Board, Clear, Link, Wait, WaitIfOk, Step

LEMMA LeadsBoard ==
  ASSUME NEW c, NEW a, NEW s, NEW b, Leads(c, a, s, b), s.do \in {"board", "link"}
  PROVE  \/ s = Board("sop") /\ a = Sure("start") /\ b = IfOk("start")
         \/ s = Board("reset") /\ a = Sure("start") /\ b = IfOk("reset")
         \/ s = Link("on") /\ a = Sure("swept") /\ b = IfOk("swept")
         \/ s = Link("offlate") /\ a[1] = "fresh" /\ b = IfOk("fresh")
  BY DEF Leads, IsCmd, Cmd, Check, Board, Clear, Link, Wait, WaitIfOk, Step

LEMMA LeadsCheck ==
  ASSUME NEW c, NEW a, NEW b, Leads(c, a, Check, b)
  PROVE  /\ b[2] = TRUE
         /\ \/ a[1] = b[1] /\ a[1] # "waited"
            \/ a = Sure("waited") /\ b[1] = "done" /\ c # "store"
  BY DEF Leads, IsCmd, Cmd, Check, Board, Clear, Link, Wait, WaitIfOk, Step

LEMMA LeadsKinds ==
  ASSUME NEW c, NEW a, NEW s, NEW b, Leads(c, a, s, b)
  PROVE  s.do \in {"check", "cmd", "wait", "waitok", "clear", "board", "link"}
  BY DEF Leads, IsCmd, Cmd, Check, Board, Clear, Link, Wait, WaitIfOk, Step

\* A sure point holds; another holds if the result is OK.
LEMMA Labelled ==
  \A p : /\ Sure(p)[1] = p /\ Sure(p)[2] = TRUE /\ IfOk(p)[1] = p /\ IfOk(p)[2] = FALSE
         /\ Holds(Sure(p)) <=> Good(p)
         /\ Holds(IfOk(p)) <=> Good(p) \/ ret # "ok"
  BY DEF Sure, IfOk, Holds

\* An init is at a point, and its next step leads to another.
LEMMA InitHead ==
  ASSUME TypeOK, InitInv, call = "init", todo # <<>>
  PROVE  \E a, b, d \in Labels :
           /\ b[1] = "done" /\ Holds(a) /\ Leads(args.Calib, a, Head(todo), d)
           /\ Path(args.Calib, Tail(todo), d, b)
<1>1. PICK a \in Labels, b \in Labels :
        b[1] = "done" /\ Path(args.Calib, todo, a, b) /\ Holds(a)
  BY DEF InitInv
<1>2. \E d \in Labels : Leads(args.Calib, a, Head(todo), d) /\ Path(args.Calib, Tail(todo), d, b)
  BY <1>1, PathHead DEF TypeOK
<1> QED
  BY <1>1, <1>2

\* Heads and tails of short sequences.
LEMMA TailOfOne ==
  ASSUME NEW s, NEW x, s = <<x>>
  PROVE  s # <<>> /\ Head(s) = x /\ Tail(s) = <<>>
  OBVIOUS

LEMMA TailOfTwo ==
  ASSUME NEW s, NEW x, NEW y, s = <<x, y>>
  PROVE  s # <<>> /\ Head(s) = x /\ Tail(s) = <<y>>
  OBVIOUS

LEMMA TailOfThree ==
  ASSUME NEW s, NEW x, NEW y, NEW z, s = <<x, y, z>>
  PROVE  s # <<>> /\ Head(s) = x /\ Tail(s) = <<y, z>>
  OBVIOUS

LEMMA TailOfFour ==
  ASSUME NEW s, NEW w, NEW x, NEW y, NEW z, s = <<w, x, y, z>>
  PROVE  s # <<>> /\ Head(s) = w /\ Tail(s) = <<x, y, z>>
  OBVIOUS

\* startSensor and stopSensor, step by step.
LEMMA SensorSteps ==
  /\ MMWL_sensorStart # <<>> /\ Head(MMWL_sensorStart) = Clear({"sensorStarted"})
  /\ Tail(MMWL_sensorStart) = <<Cmd("frameStart"), Wait("sensorStarted")>>
  /\ Tail(MMWL_sensorStart) # <<>> /\ Head(Tail(MMWL_sensorStart)) = Cmd("frameStart")
  /\ Tail(Tail(MMWL_sensorStart)) = <<Wait("sensorStarted")>>
  /\ Tail(<<Wait("sensorStarted")>>) = <<>> /\ Head(<<Wait("sensorStarted")>>) = Wait("sensorStarted")
  /\ MMWL_sensorStop # <<>> /\ Head(MMWL_sensorStop) = OnlyIf("sensorStarted")
  /\ Tail(MMWL_sensorStop) = <<Cmd("frameStop"), Check, WaitOff("sensorStarted")>>
  /\ Tail(MMWL_sensorStop) # <<>> /\ Head(Tail(MMWL_sensorStop)) = Cmd("frameStop")
  /\ Tail(Tail(MMWL_sensorStop)) = <<Check, WaitOff("sensorStarted")>>
  /\ Tail(Tail(MMWL_sensorStop)) # <<>> /\ Head(Tail(Tail(MMWL_sensorStop))) = Check
  /\ Tail(Tail(Tail(MMWL_sensorStop))) = <<WaitOff("sensorStarted")>>
  /\ Tail(<<WaitOff("sensorStarted")>>) = <<>>
  /\ Head(<<WaitOff("sensorStarted")>>) = WaitOff("sensorStarted")
<1>1. MMWL_sensorStart = <<Clear({"sensorStarted"}), Cmd("frameStart"), Wait("sensorStarted")>>
  BY DEF MMWL_sensorStart
<1>2. <<OnlyIf("sensorStarted"), Cmd("frameStop"), Check, WaitOff("sensorStarted")>>
        = MMWL_sensorStop
  BY DEF MMWL_sensorStop, Try, Cmd
<1>3. /\ MMWL_sensorStart # <<>> /\ Head(MMWL_sensorStart) = Clear({"sensorStarted"})
      /\ Tail(MMWL_sensorStart) = <<Cmd("frameStart"), Wait("sensorStarted")>>
  BY <1>1, TailOfThree
<1>4. /\ Tail(MMWL_sensorStart) # <<>> /\ Head(Tail(MMWL_sensorStart)) = Cmd("frameStart")
      /\ Tail(Tail(MMWL_sensorStart)) = <<Wait("sensorStarted")>>
  BY <1>3, TailOfTwo
<1>5. /\ Tail(<<Wait("sensorStarted")>>) = <<>>
      /\ Head(<<Wait("sensorStarted")>>) = Wait("sensorStarted")
  BY TailOfOne
<1>6. /\ MMWL_sensorStop # <<>> /\ Head(MMWL_sensorStop) = OnlyIf("sensorStarted")
      /\ Tail(MMWL_sensorStop) = <<Cmd("frameStop"), Check, WaitOff("sensorStarted")>>
  BY <1>2, TailOfFour
<1>7. /\ Tail(MMWL_sensorStop) # <<>> /\ Head(Tail(MMWL_sensorStop)) = Cmd("frameStop")
      /\ Tail(Tail(MMWL_sensorStop)) = <<Check, WaitOff("sensorStarted")>>
  <2> DEFINE t == Tail(MMWL_sensorStop)
  <2>1. t = <<Cmd("frameStop"), Check, WaitOff("sensorStarted")>>
    BY <1>6
  <2> HIDE DEF t
  <2>2. t # <<>> /\ Head(t) = Cmd("frameStop") /\ Tail(t) = <<Check, WaitOff("sensorStarted")>>
    BY <2>1, TailOfThree
  <2> QED
    BY <2>2 DEF t
<1>8. /\ Tail(Tail(MMWL_sensorStop)) # <<>> /\ Head(Tail(Tail(MMWL_sensorStop))) = Check
      /\ Tail(Tail(Tail(MMWL_sensorStop))) = <<WaitOff("sensorStarted")>>
  BY <1>7, TailOfTwo
<1>9. /\ Tail(<<WaitOff("sensorStarted")>>) = <<>>
      /\ Head(<<WaitOff("sensorStarted")>>) = WaitOff("sensorStarted")
  BY TailOfOne
<1> QED
  BY <1>3, <1>4, <1>5, <1>6, <1>7, <1>8, <1>9

\* The commands that matter to the frames, the core and the RF subsystem.
LEMMA CmdHead ==
  ASSUME TypeOK, CallInv, InitInv, At("cmd")
  PROVE  /\ "boot" \notin Arg
         /\ "frameStart" \in Arg =>
              /\ Arg = {"frameStart"} /\ call = "startSensor" /\ todo = Tail(MMWL_sensorStart)
         /\ "frameStop" \in Arg => Arg = {"frameStop"} /\ call = "stopSensor"
         /\ "coreReset" \in Arg => Arg = {"coreReset"} /\ call = "init" /\ Good("fresh")
         /\ "rfStart" \in Arg => Arg = {"rfStart"} /\ call = "init" /\ Good("fresh")
         /\ Arg \cap {"rfInit", "calibRestore"} # {} => call = "init"
<1>1. call # None /\ todo # <<>> /\ Head(todo).do = "cmd" /\ todo \in Seq(Steps)
  BY DEF At, TypeOK
<1>2. CASE call = "init"
  <2>1. PICK a \in Labels, b \in Labels, d \in Labels :
          Holds(a) /\ Leads(args.Calib, a, Head(todo), d)
    BY <1>1, <1>2, InitHead
  <2>2. \/ Arg = {"coreReset"} /\ a = Sure("fresh")
        \/ Arg \cap Major = {}
        \/ Arg = {"rfStart"} /\ a = Sure("fresh")
        \/ Arg = {"calibRestore"}
        \/ Arg = {"rfInit"}
    BY <1>1, <2>1, LeadsCmd DEF Arg
  <2>3. a = Sure("fresh") => Good("fresh")
    BY <2>1, Labelled
  <2> QED
    BY <1>2, <2>2, <2>3 DEF Major
<1>3. CASE call = "startSensor"
  <2>1. todo \in {MMWL_sensorStart, Tail(MMWL_sensorStart), <<Wait("sensorStarted")>>}
    BY <1>1, <1>3 DEF CallInv
  <2>2. /\ Head(MMWL_sensorStart).do # "cmd" /\ Head(<<Wait("sensorStarted")>>).do # "cmd"
        /\ Head(Tail(MMWL_sensorStart)) = Cmd("frameStart")
    BY SensorSteps DEF Clear, Wait, Step
  <2>3. Head(todo) = Cmd("frameStart") /\ todo = Tail(MMWL_sensorStart)
    BY <1>1, <2>1, <2>2
  <2>4. Arg = {"frameStart"}
    <3>1. Head(todo) = Cmd("frameStart")
      BY <2>3
    <3> QED
      BY <3>1 DEF Arg, Cmd, Step
  <2> QED
    BY <1>3, <2>3, <2>4
<1>4. CASE call = "stopSensor"
  <2>1. todo \in {MMWL_sensorStop, Tail(MMWL_sensorStop), <<WaitOff("sensorStarted")>>}
    BY <1>1, <1>4 DEF CallInv
  <2>2. /\ Head(MMWL_sensorStop).do # "cmd" /\ Head(<<WaitOff("sensorStarted")>>).do # "cmd"
        /\ Head(Tail(MMWL_sensorStop)) = Cmd("frameStop")
    BY SensorSteps DEF OnlyIf, WaitOff, Step
  <2>3. Head(todo) = Cmd("frameStop")
    BY <1>1, <2>1, <2>2
  <2>4. Arg = {"frameStop"}
    BY <2>3 DEF Arg, Cmd, Step
  <2> QED
    BY <1>4, <2>4
<1>5. CASE call \notin {"init", "startSensor", "stopSensor"}
  <2>1. Plain(Head(todo))
    <3>1. Head(todo) = todo[1] /\ 1 \in DOMAIN todo
      BY <1>1, HeadTailProperties, LenProperties, EmptySeq
    <3> QED
      BY <1>5, <3>1 DEF CallInv
  <2> QED
    BY <1>1, <2>1 DEF Plain, Arg, Major
<1> QED
  BY <1>2, <1>3, <1>4, <1>5

-----------------------------------------------------------------------------
(***************************************************************************)
(* A boot that is not over is that of a fresh device.                      *)
(***************************************************************************)
\* The steps of the application that leave the device and the reader alone.
LEMMA QuietFacts ==
  ASSUME Calls \/ Return \/ WaitSeen \/ WaitTimeout \/ ClearFlag \/ CheckFlag \/ Close
  PROVE  UNCHANGED <<dev, hand, linkUp, stray>>
  BY DEF Calls, Calling, CallInit, CallStartSensor, Enter, Return, WaitSeen, WaitTimeout,
         ClearFlag, CheckFlag, Close, hostVars

\* The steps on the board and on the link.
LEMMA BoardFacts ==
  ASSUME TypeOK, BoardStep
  PROVE  /\ At("board") /\ UNCHANGED <<hostVars, missed>>
         /\ \E r \in Results : Go(r)
         /\ \/ Arg = {"sop"} /\ UNCHANGED <<dev, histVars>>
            \/ Arg = {"reset"} /\ Go("ok") /\ stray \subseteq {"CPUFAULT"}
                 /\ UNCHANGED <<dev, unheard, regular>>
            \/ Arg = {"reset"} /\ Go("ok") /\ stray \subseteq {"CPUFAULT"}
                 /\ dev' = Booting /\ unheard' = FALSE
                 /\ regular' = (hand = None /\ "sensorStarted" \notin flags)
<1>1. PICK ok \in BOOLEAN : Sop(ok) \/ Reset(ok)
  BY DEF BoardStep
<1>2. CASE Sop(ok)
  BY <1>2 DEF Sop, Results, histVars
<1>3. CASE Reset(ok)
  BY <1>3 DEF Reset, Results
<1> QED
  BY <1>1, <1>2, <1>3

LEMMA LinkFacts ==
  ASSUME TypeOK, LinkStep
  PROVE  /\ At("link") /\ UNCHANGED <<flags, file, args, dev, missed, unheard>>
         /\ \E r \in Results : Go(r)
         /\ \/ UNCHANGED <<hand, stray, regular>>
            \/ /\ hand' = None /\ stray' = stray \cup ({hand} \ {None})
               /\ regular' = (regular /\ hand = None)
         /\ Arg = {"on"} /\ (hand # None \/ linkUp' # TRUE) => Go("error")
         /\ Arg = {"on"} /\ hand = None => UNCHANGED <<hand, stray, regular>>
         /\ Arg = {"offlate"} => Go(ret) /\ (ret # "timeout" => UNCHANGED <<hand, stray, regular, linkUp>>)
<1>1. At("link") /\ UNCHANGED <<flags, file, args, dev, missed, unheard>>
  BY DEF LinkStep, LinkOff, LinkKeep, LinkOn, hostVars, histVars
<1>2. \E r \in Results : Go(r)
  BY DEF LinkStep, LinkOff, LinkKeep, LinkOn, Results, TypeOK
<1>3. \/ UNCHANGED <<hand, stray, regular>>
      \/ /\ hand' = None /\ stray' = stray \cup ({hand} \ {None})
         /\ regular' = (regular /\ hand = None)
  BY DEF LinkStep, LinkOff, LinkKeep, LinkOn, ShutLink, hostVars, histVars
<1>4. ASSUME Arg = {"on"}
      PROVE  /\ hand # None \/ linkUp' # TRUE => Go("error")
             /\ hand = None => UNCHANGED <<hand, stray, regular>>
  <2>1. PICK opens \in BOOLEAN : LinkOn(opens)
    BY <1>4 DEF LinkStep, LinkOff, LinkKeep
  <2> QED
    BY <2>1 DEF LinkOn
<1>5. ASSUME Arg = {"offlate"}
      PROVE  Go(ret) /\ (ret # "timeout" => UNCHANGED <<hand, stray, regular, linkUp>>)
  <2>1. LinkOff \/ LinkKeep
    BY <1>5 DEF LinkStep, LinkOn
  <2> QED
    BY <1>5, <2>1 DEF LinkOff, LinkKeep, hostVars, histVars
<1> QED
  BY <1>1, <1>2, <1>3, <1>4, <1>5

LEMMA BootingVirgin ==
  ASSUME dev' = Booting
  PROVE  /\ Virgin' /\ Ready' = {} /\ dev'.busy = {"boot"} /\ ~dev'.up /\ ~dev'.rf
         /\ dev'.tx = None /\ dev'.out = <<>>
  BY BootingFacts, NoneInLine DEF Virgin, Ready

\* Every step keeps a boot that is not over that of a fresh device.
LEMMA BootNext ==
  ASSUME TypeOK, BootInv, CallInv, InitInv, [Next]_vars
  PROVE  BootInv'
<1>1. ASSUME UNCHANGED dev, hand' \in {hand, None}
      PROVE  BootInv'
  <2>1. Ready' = Ready /\ (Virgin' <=> Virgin)
    BY <1>1 DEF Ready, Virgin
  <2> QED
    BY <1>1, <2>1 DEF BootInv, Pending, None
<1>2. ASSUME dev' = Booting
      PROVE  BootInv'
  BY <1>2, BootingVirgin DEF BootInv
<1>3. CASE CmdStep
  <2>1. CASE dev' = dev
    BY <1>1, <1>3, <2>1, CmdFacts DEF hostVars
  <2>2. CASE dev' # dev
    <3>1. /\ dev' = Executed(Arg) /\ dev.up /\ hand = None /\ dev.out = <<>> /\ hand' = hand
          /\ At("cmd") /\ Arg \in SUBSET Commands
      BY <1>3, <2>2, CmdFacts DEF hostVars
    <3>2. CASE "coreReset" \in Arg
      BY <1>2, <3>1, <3>2, ExecutedFacts
    <3>3. CASE "coreReset" \notin Arg
      <4>1. dev'.up = dev.up /\ dev'.out = <<>> /\ dev'.busy = dev.busy \cup (Arg \cap DOMAIN Announces)
        BY <3>1, <3>3, ExecutedFacts
      <4>2. "boot" \notin dev'.busy
        BY <3>1, <4>1, CmdHead DEF BootInv
      <4>3. ~Pending("POWERUP")'
        BY <3>1, <4>1, NoneInLine DEF Pending, Ready, None
      <4> QED
        BY <4>2, <4>3 DEF BootInv
    <3> QED
      BY <3>2, <3>3
  <2> QED
    BY <2>1, <2>2
<1>4. CASE Calls \/ Return \/ WaitSeen \/ WaitTimeout \/ ClearFlag \/ CheckFlag \/ Close
  BY <1>1, <1>4, QuietFacts
<1>5. CASE BoardStep
  BY <1>1, <1>2, <1>5, BoardFacts DEF hostVars, histVars
<1>6. CASE LinkStep
  BY <1>1, <1>6, LinkFacts
<1>7. CASE ReadEvent
  <2>1. (Pending("POWERUP")' <=> Pending("POWERUP")) /\ Ready' \subseteq Ready /\ DevKept
    BY <1>7, ReadFacts, Names
  <2> QED
    BY <2>1 DEF BootInv, Virgin, DevKept
<1>8. CASE HandleEvent
  <2>1. dev' = dev /\ hand' = None
    BY <1>8, HandleFacts
  <2> QED
    BY <1>1, <2>1
<1>9. ASSUME NEW m, NEW lost \in BOOLEAN, DevEvent(m, lost)
      PROVE  BootInv'
  <2>1. /\ m \in dev.busy /\ dev'.rf = dev.rf /\ dev'.tx = dev.tx /\ dev'.busy = dev.busy \ {m}
        /\ dev'.up = (dev.up \/ m = "boot") /\ hand' = hand
        /\ Ready' = Ready \/ Ready' = Ready \cup {Announces[m]}
        /\ m \in DOMAIN Announces
    BY <1>9, DevEventFacts DEF hostVars
  <2>2. CASE m = "boot"
    <3>1. Virgin /\ Announces[m] = "POWERUP"
      BY <2>1, <2>2, RaisesFacts DEF BootInv
    <3> QED
      BY <2>1, <2>2, <3>1 DEF BootInv, Virgin
  <2>3. CASE m # "boot"
    <3>1. ~Virgin /\ Announces[m] # "POWERUP"
      BY <2>1, <2>3, RaisesFacts, Names DEF Virgin
    <3> QED
      BY <2>1, <2>3, <3>1 DEF BootInv, Virgin, Pending
  <2> QED
    BY <2>2, <2>3
<1>10. ASSUME NEW lost \in BOOLEAN, FrameEnd(lost)
       PROVE  BootInv'
  <2>1. /\ ~Virgin /\ dev'.busy = dev.busy /\ hand' = hand
        /\ Ready' \subseteq Ready \cup {"END"}
    BY <1>10, FrameEndFacts DEF hostVars, Virgin, None
  <2> QED
    BY <2>1 DEF BootInv, Pending
<1>11. CASE CpuFault
  <2>1. DevKept /\ Ready' = Ready \cup {"CPUFAULT"} /\ hand' = hand
    BY <1>11, CpuFaultFacts DEF hostVars
  <2> QED
    BY <2>1 DEF BootInv, Virgin, Pending, DevKept
<1>12. CASE StrayStep
  <2>1. UNCHANGED <<hand, dev>>
    BY <1>12 DEF StrayStep, HandleStray
  <2> QED
    BY <1>1, <2>1
<1>13. CASE UNCHANGED vars
  BY <1>1, <1>13 DEF vars, hostVars
<1> QED
  BY <1>3, <1>4, <1>5, <1>6, <1>7, <1>8, <1>9, <1>10, <1>11, <1>12, <1>13
  DEF Next, AppStep, DevStep

-----------------------------------------------------------------------------
(***************************************************************************)
(* Where the programs are.                                                 *)
(***************************************************************************)
LEMMA GoCases ==
  ASSUME NEW r, Go(r)
  PROVE  /\ ret' = r /\ call' = call /\ last' = last
         /\ \/ todo' = Tail(todo) /\ (Tail(todo) = <<>> \/ Head(Tail(todo)) # Check)
            \/ /\ Tail(todo) # <<>> /\ Head(Tail(todo)) = Check
               /\ r = "ok" /\ todo' = Tail(Tail(todo))
            \/ /\ Tail(todo) # <<>> /\ Head(Tail(todo)) = Check
               /\ r # "ok" /\ todo' = <<>>
  BY DEF Go

ProgramStep == \/ CmdStep \/ WaitSeen \/ WaitTimeout \/ ClearFlag \/ CheckFlag
               \/ Close \/ LinkStep \/ BoardStep

\* What the steps of a program have in common.
LEMMA ProgramFacts ==
  ASSUME TypeOK, ProgramStep
  PROVE  /\ call # None /\ todo # <<>> /\ call' = call /\ last' = last /\ args' = args
         /\ \/ \E r \in Results : Go(r)
            \/ todo' = <<>> /\ ret' = ret /\ At("onlyif")
<1>1. CASE CmdStep
  BY <1>1, CmdFacts DEF Go, hostVars
<1>2. CASE BoardStep
  BY <1>2, BoardFacts DEF Go, hostVars, At
<1>3. CASE LinkStep
  BY <1>3, LinkFacts DEF Go, At
<1>4. ret \in Results /\ "timeout" \in Results
  BY DEF TypeOK, Results
<1>5. CASE WaitSeen
  BY <1>4, <1>5 DEF WaitSeen, Go, hostVars, At
<1>6. CASE WaitTimeout
  BY <1>4, <1>6 DEF WaitTimeout, Go, hostVars, At, Unmet
<1>7. CASE ClearFlag \/ Close
  BY <1>4, <1>7 DEF ClearFlag, Close, Go, At
<1>8. CASE CheckFlag
  BY <1>4, <1>8 DEF CheckFlag, Go, hostVars, At
<1> QED
  BY <1>1, <1>2, <1>3, <1>5, <1>6, <1>7, <1>8 DEF ProgramStep

\* Tails of plain programs are plain.
LEMMA PlainTail ==
  ASSUME NEW t \in Seq(Steps), t # <<>>, \A i \in DOMAIN t : Plain(t[i])
  PROVE  Tail(t) \in Seq(Steps) /\ \A i \in DOMAIN Tail(t) : Plain(Tail(t)[i])
<1>1. /\ Len(t) \in Nat /\ Len(t) > 0 /\ Tail(t) \in Seq(Steps) /\ Len(Tail(t)) = Len(t) - 1
      /\ \A i \in 1..Len(Tail(t)) : Tail(t)[i] = t[i + 1]
  BY HeadTailProperties, LenProperties, EmptySeq
<1>2. DOMAIN t = 1..Len(t) /\ DOMAIN Tail(t) = 1..Len(Tail(t))
  BY <1>1, LenProperties
<1>3. \A i \in DOMAIN Tail(t) : i + 1 \in DOMAIN t /\ Tail(t)[i] = t[i + 1]
  BY <1>1, <1>2
<1> QED
  BY <1>1, <1>3

\* Every step keeps a call in its program.
LEMMA CallNext ==
  ASSUME TypeOK, CallInv, [Next]_vars
  PROVE  CallInv'
<1>1. CASE UNCHANGED appVars
  BY <1>1 DEF CallInv, appVars
<1>2. CASE Return
  BY <1>2 DEF Return, CallInv, None
<1>3. ASSUME NEW c, NEW p \in PlainSeq, Calling(c, p), c \notin {"init", "startSensor", "stopSensor", None}
      PROVE  CallInv'
  BY <1>3 DEF Calling, Enter, CallInv, PlainSeq
<1>4. CASE Calls
  <2>1. CASE \E f \in Files, downloadFw, es10 \in BOOLEAN : CallInit(f, downloadFw, es10)
    BY <2>1 DEF CallInit, Enter, CallInv, None
  <2>2. CASE CallStartSensor
    BY <2>2 DEF CallStartSensor, Enter, CallInv, None
  <2>3. CASE Calling("stopSensor", MMWL_sensorStop)
    BY <2>3 DEF Calling, Enter, CallInv, None
  <2> QED
    BY <1>3, <1>4, <2>1, <2>2, <2>3, PlainCalls DEF Calls, None
<1>5. CASE ProgramStep
  <2>1. /\ call # None /\ todo # <<>> /\ call' = call
        /\ \/ \E r \in Results : Go(r)
           \/ todo' = <<>> /\ At("onlyif")
    BY <1>5, ProgramFacts
  <2>2. \/ todo' = Tail(todo) /\ (Tail(todo) = <<>> \/ Head(Tail(todo)) # Check)
        \/ Tail(todo) # <<>> /\ Head(Tail(todo)) = Check /\ todo' = Tail(Tail(todo))
        \/ todo' = <<>>
    BY <2>1, GoCases
  <2>3. CASE call = "startSensor"
    <3>1. todo \in {MMWL_sensorStart, Tail(MMWL_sensorStart), <<Wait("sensorStarted")>>}
      BY <2>1, <2>3 DEF CallInv
    <3>2. Head(Tail(MMWL_sensorStart)) # Check /\ Head(<<Wait("sensorStarted")>>) # Check
      BY SensorSteps DEF Cmd, Wait, Check, Step
    <3>3. todo' \in {Tail(MMWL_sensorStart), <<Wait("sensorStarted")>>, <<>>}
      BY <2>2, <3>1, <3>2, SensorSteps
    <3> QED
      BY <2>1, <2>3, <3>3 DEF CallInv, None
  <2>4. CASE call = "stopSensor"
    <3>1. todo \in {MMWL_sensorStop, Tail(MMWL_sensorStop), <<WaitOff("sensorStarted")>>}
      BY <2>1, <2>4 DEF CallInv
    <3>2. Head(Tail(MMWL_sensorStop)) # Check
      BY SensorSteps DEF Cmd, Check, Step
    <3>3. todo' \in {Tail(MMWL_sensorStop), <<WaitOff("sensorStarted")>>, <<>>}
      BY <2>2, <3>1, <3>2, SensorSteps
    <3> QED
      BY <2>1, <2>4, <3>3 DEF CallInv, None
  <2>5. CASE call = "init"
    BY <2>1, <2>5 DEF CallInv, None
  <2>6. CASE call \notin {"init", "startSensor", "stopSensor"}
    <3>1. todo \in Seq(Steps) /\ \A i \in DOMAIN todo : Plain(todo[i])
      BY <2>6 DEF CallInv, TypeOK
    <3>2. Tail(todo) \in Seq(Steps) /\ \A i \in DOMAIN Tail(todo) : Plain(Tail(todo)[i])
      BY <2>1, <3>1, PlainTail
    <3>3. Tail(todo) # <<>> => \A i \in DOMAIN Tail(Tail(todo)) : Plain(Tail(Tail(todo))[i])
      BY <3>2, PlainTail
    <3>4. \A i \in DOMAIN <<>> : Plain(<<>>[i])
      OBVIOUS
    <3>5. \A i \in DOMAIN todo' : Plain(todo'[i])
      BY <2>2, <3>2, <3>3, <3>4
    <3> QED
      BY <2>1, <2>6, <3>5 DEF CallInv, None
  <2> QED
    BY <2>3, <2>4, <2>5, <2>6
<1>6. CASE ReadEvent \/ HandleEvent \/ DevStep \/ CpuFault \/ StrayStep \/ UNCHANGED vars
  BY <1>1, <1>6 DEF ReadEvent, HandleEvent, DevStep, DevEvent, FrameEnd, CpuFault, StrayStep,
                    HandleStray, vars
<1> QED
  BY <1>2, <1>4, <1>5, <1>6 DEF Next, AppStep, ProgramStep

-----------------------------------------------------------------------------
(***************************************************************************)
(* As long as nothing is lost or late, the started flag follows the        *)
(* frames.                                                                 *)
(***************************************************************************)
\* A command leaves the line of events as it is, or empty.
LEMMA CmdOut ==
  ASSUME TypeOK, CmdStep
  PROVE  /\ Ready' = Ready \/ Ready' = {}
         /\ dev' # dev => dev'.out = <<>> /\ Ready' = {} /\ Ready = {}
<1>1. CASE dev' = dev
  BY <1>1 DEF Ready
<1>2. CASE dev' # dev
  <2>1. dev' = Executed(Arg) /\ dev.out = <<>> /\ Arg \in SUBSET Commands
    BY <1>2, CmdFacts
  <2>2. dev'.out = <<>>
    BY <2>1, ExecutedFacts, BootingFacts
  <2> QED
    BY <2>1, <2>2, NoneInLine DEF Ready
<1> QED
  BY <1>1, <1>2

\* The steps of the application cannot make a history regular.
LEMMA QuietRegular ==
  ASSUME Calls \/ Return \/ WaitSeen \/ WaitTimeout \/ ClearFlag \/ CheckFlag \/ Close
  PROVE  (regular' => regular) /\ unheard' = unheard
<1>1. CASE Calls
  <2>1. CASE \E f \in Files, downloadFw, es10 \in BOOLEAN : CallInit(f, downloadFw, es10)
    BY <2>1 DEF CallInit, Enter
  <2>2. CASE CallStartSensor
    BY <2>2 DEF CallStartSensor, Enter
  <2>3. CASE \E c, p : Calling(c, p)
    BY <2>3 DEF Calling, Enter
  <2> QED
    BY <1>1, <2>1, <2>2, <2>3, Zenon DEF Calls
<1>2. CASE WaitTimeout
  BY <1>2, Zenon DEF WaitTimeout
<1>3. CASE Return \/ WaitSeen \/ ClearFlag \/ CheckFlag \/ Close
  BY <1>3 DEF Return, WaitSeen, ClearFlag, CheckFlag, Close, histVars
<1> QED
  BY <1>1, <1>2, <1>3

\* Nothing is lost, left over or wedged in a regular history.
LEMMA CalmNext ==
  ASSUME TypeOK, CalmInv, [Next]_vars
  PROVE  CalmInv'
<1>1. ASSUME regular' => /\ regular /\ unheard' = unheard
                         /\ stray' \subseteq stray
                         /\ Pending("CPUFAULT")' => Pending("CPUFAULT")
      PROVE  CalmInv'
  BY <1>1 DEF CalmInv
<1>2. ASSUME UNCHANGED <<dev, hand>>
      PROVE  Pending("CPUFAULT")' <=> Pending("CPUFAULT")
  BY <1>2 DEF Pending, Ready
<1>3. CASE CmdStep
  <2>1. (regular' => regular /\ unheard' = unheard) /\ hand' = hand /\ stray' = stray
    BY <1>3, CmdFacts DEF hostVars
  <2>2. Pending("CPUFAULT")' => Pending("CPUFAULT")
    BY <1>3, <2>1, CmdOut DEF Pending
  <2> QED
    BY <1>1, <2>1, <2>2
<1>4. CASE Calls \/ Return \/ WaitSeen \/ WaitTimeout \/ ClearFlag \/ CheckFlag \/ Close
  <2>1. (regular' => regular) /\ unheard' = unheard
    BY <1>4, QuietRegular
  <2>2. UNCHANGED <<dev, hand, stray>>
    BY <1>4, QuietFacts
  <2> QED
    BY <1>1, <1>2, <2>1, <2>2
<1>5. CASE BoardStep
  <2>1. UNCHANGED <<hand, stray>>
    BY <1>5, BoardFacts DEF hostVars
  <2>2. CASE UNCHANGED <<dev, unheard, regular>>
    BY <1>1, <1>2, <2>1, <2>2
  <2>3. CASE /\ stray \subseteq {"CPUFAULT"} /\ dev' = Booting /\ unheard' = FALSE
             /\ regular' = (hand = None /\ "sensorStarted" \notin flags)
    BY <2>1, <2>3, BootingVirgin DEF CalmInv, Pending, None
  <2> QED
    BY <1>5, <2>2, <2>3, BoardFacts DEF histVars
<1>6. CASE LinkStep
  <2>1. UNCHANGED <<dev, unheard>>
    BY <1>6, LinkFacts
  <2>2. CASE UNCHANGED <<hand, stray, regular>>
    BY <1>1, <1>2, <2>1, <2>2
  <2>3. CASE /\ hand' = None /\ stray' = stray \cup ({hand} \ {None})
             /\ regular' = (regular /\ hand = None)
    BY <1>1, <1>2, <2>1, <2>3
  <2> QED
    BY <1>6, <2>2, <2>3, LinkFacts
<1>7. CASE ReadEvent
  BY <1>1, <1>7, ReadFacts, Names DEF histVars
<1>8. CASE HandleEvent
  <2>1. Pending("CPUFAULT")' => Pending("CPUFAULT")
    BY <1>8, HandleFacts, Names DEF Pending
  <2> QED
    BY <1>1, <1>8, <2>1, HandleFacts DEF histVars
<1>9. ASSUME NEW m, NEW lost \in BOOLEAN, DevEvent(m, lost)
      PROVE  CalmInv'
  <2>1. /\ regular' => regular /\ unheard' = unheard /\ stray' = stray
        /\ Ready' = Ready \/ Ready' = Ready \cup {Announces[m]}
        /\ m \in DOMAIN Announces /\ hand' = hand
    BY <1>9, DevEventFacts DEF hostVars
  <2>2. Announces[m] # "CPUFAULT"
    BY <2>1, RaisesFacts, Names
  <2>3. Pending("CPUFAULT")' => Pending("CPUFAULT")
    BY <2>1, <2>2 DEF Pending
  <2> QED
    BY <1>1, <1>9, <2>1, <2>3, DevEventFacts DEF hostVars
<1>10. ASSUME NEW lost \in BOOLEAN, FrameEnd(lost)
       PROVE  CalmInv'
  <2>1. Pending("CPUFAULT")' => Pending("CPUFAULT")
    BY <1>10, FrameEndFacts DEF Pending, hostVars
  <2> QED
    BY <1>1, <1>10, <2>1, FrameEndFacts DEF hostVars
<1>11. CASE CpuFault
  BY <1>11, CpuFaultFacts DEF CalmInv
<1>12. CASE StrayStep
  <2>1. PICK e \in stray, read \in BOOLEAN : HandleStray(e, read)
    BY <1>12 DEF StrayStep
  <2> QED
    BY <1>1, <1>2, <2>1, StrayFacts DEF histVars
<1>13. CASE UNCHANGED vars
  BY <1>1, <1>2, <1>13 DEF vars, hostVars, histVars
<1> QED
  BY <1>3, <1>4, <1>5, <1>6, <1>7, <1>8, <1>9, <1>10, <1>11, <1>12, <1>13
  DEF Next, AppStep, DevStep

\* The started flag is cleared by startSensor alone, before its command.
LEMMA ClearHead ==
  ASSUME TypeOK, CallInv, InitInv, At("clear"), "sensorStarted" \in Arg
  PROVE  call = "startSensor" /\ todo = MMWL_sensorStart
<1>1. call # None /\ todo # <<>> /\ Head(todo).do = "clear" /\ todo \in Seq(Steps)
  BY DEF At, TypeOK
<1>2. CASE call = "init"
  <2>1. PICK a \in Labels, b \in Labels, d \in Labels : Leads(args.Calib, a, Head(todo), d)
    BY <1>1, <1>2, InitHead
  <2> QED
    BY <1>1, <2>1, LeadsClear DEF Arg, PowerFlags
<1>3. CASE call = "startSensor"
  <2>1. todo \in {MMWL_sensorStart, Tail(MMWL_sensorStart), <<Wait("sensorStarted")>>}
    BY <1>1, <1>3 DEF CallInv
  <2>2. /\ Head(<<Wait("sensorStarted")>>).do # "clear"
        /\ Head(Tail(MMWL_sensorStart)).do # "clear"
    BY SensorSteps DEF Cmd, Wait, Step
  <2> QED
    BY <1>1, <1>3, <2>1, <2>2
<1>4. CASE call = "stopSensor"
  <2>1. todo \in {MMWL_sensorStop, Tail(MMWL_sensorStop), <<WaitOff("sensorStarted")>>}
    BY <1>1, <1>4 DEF CallInv
  <2>2. /\ Head(MMWL_sensorStop).do # "clear" /\ Head(<<WaitOff("sensorStarted")>>).do # "clear"
        /\ Head(Tail(MMWL_sensorStop)).do # "clear"
    BY SensorSteps DEF OnlyIf, WaitOff, Cmd, Step
  <2> QED
    BY <1>1, <2>1, <2>2
<1>5. CASE call \notin {"init", "startSensor", "stopSensor"}
  <2>1. Head(todo) = todo[1] /\ 1 \in DOMAIN todo
    BY <1>1, HeadTailProperties, LenProperties, EmptySeq
  <2> QED
    BY <1>1, <1>5, <2>1 DEF CallInv, Plain, Arg
<1> QED
  BY <1>2, <1>3, <1>4, <1>5

\* What a command does to the frames.
LEMMA CmdFrames ==
  ASSUME TypeOK, CallInv, InitInv, CmdStep, dev' # dev
  PROVE  /\ hand = None /\ hand' = None /\ Ready = {} /\ Ready' = {} /\ dev'.out = <<>> /\ linkUp
         /\ \/ dev' = Booting /\ Fresh
            \/ /\ Arg = {"frameStart"} /\ dev'.tx # None /\ "frameStart" \in dev'.busy
               /\ call = "startSensor" /\ todo = Tail(MMWL_sensorStart)
            \/ /\ dev'.tx # None <=> Transmitting
               /\ "frameStart" \in dev'.busy <=> "frameStart" \in dev.busy
<1>1. /\ dev' = Executed(Arg) /\ ~Refuses(Arg) /\ linkUp /\ hand = None /\ hand' = hand
      /\ Arg \in SUBSET Commands /\ At("cmd")
  BY CmdFacts DEF hostVars
<1>2. Ready = {} /\ Ready' = {} /\ dev'.out = <<>>
  BY CmdOut
<1>3. CASE "coreReset" \in Arg
  BY <1>1, <1>2, <1>3, CmdHead, ExecutedFacts DEF Good, AtFresh
<1>4. CASE "coreReset" \notin Arg /\ "frameStart" \in Arg
  <2>1. Arg = {"frameStart"} /\ call = "startSensor" /\ todo = Tail(MMWL_sensorStart)
    BY <1>1, <1>4, CmdHead
  <2>2. dev'.tx = dev.frames /\ dev.frames # None
    BY <1>1, <1>4, <2>1, ExecutedFacts DEF Refuses
  <2>3. "frameStart" \in dev'.busy
    BY <1>1, <1>4, <2>1, ExecutedFacts, Names
  <2> QED
    BY <1>1, <1>2, <2>1, <2>2, <2>3
<1>5. CASE "coreReset" \notin Arg /\ "frameStart" \notin Arg /\ "frameStop" \in Arg
  BY <1>1, <1>2, <1>5, ExecutedFacts DEF Refuses, Transmitting, None
<1>6. CASE "coreReset" \notin Arg /\ "frameStart" \notin Arg /\ "frameStop" \notin Arg
  BY <1>1, <1>2, <1>6, ExecutedFacts DEF Transmitting
<1> QED
  BY <1>3, <1>4, <1>5, <1>6

\* The flags are set and cleared by events and clearings alone.
LEMMA QuietFlags ==
  ASSUME Calls \/ Return \/ WaitSeen \/ WaitTimeout \/ CheckFlag \/ Close \/ LinkStep \/ BoardStep \/ CmdStep,
         TypeOK
  PROVE  flags' = flags
<1>1. CASE Calls
  BY <1>1 DEF Calls, Calling, CallInit, CallStartSensor, Enter
<1>2. CASE WaitTimeout \/ WaitSeen \/ Return \/ CheckFlag \/ Close
  BY <1>2 DEF WaitTimeout, WaitSeen, Return, CheckFlag, Close, hostVars
<1>3. CASE LinkStep \/ BoardStep \/ CmdStep
  BY <1>3, LinkFacts, BoardFacts, CmdFacts DEF hostVars
<1> QED
  BY <1>1, <1>2, <1>3

\* An event is pending wherever the flag and the frames differ.
LEMMA FlagNext ==
  ASSUME TypeOK, CalmInv, FlagInv, StartInv, CallInv, InitInv, [Next]_vars
  PROVE  FlagInv'
<1>0. regular \in BOOLEAN /\ dev.out \in Seq(Events)
  BY DEF TypeOK, Devices
<1>1. ASSUME UNCHANGED <<dev, hand>>, regular' => regular,
             "sensorStarted" \in flags' <=> "sensorStarted" \in flags
      PROVE  FlagInv'
  BY <1>1 DEF FlagInv, Transmitting, Pending, Ready, Trig
<1>2. ASSUME dev' = Booting, hand' = None, regular' => "sensorStarted" \notin flags'
      PROVE  FlagInv'
  BY <1>2, BootingVirgin, NoneInLine DEF FlagInv, Transmitting, Pending, Trig, None
<1>3. CASE CmdStep
  <2>1. (regular' => regular) /\ UNCHANGED <<flags, hand>>
    BY <1>3, CmdFacts DEF hostVars
  <2>2. CASE dev' = dev
    BY <1>1, <2>1, <2>2
  <2>3. CASE dev' # dev
    <3>1. /\ hand = None /\ hand' = None /\ Ready = {} /\ Ready' = {} /\ dev'.out = <<>>
          /\ Closes(dev'.out, "END", "TRIGGER")
      BY <1>3, <2>3, CmdFrames, NoneInLine
    <3>2. CASE dev' = Booting /\ Fresh
      <4>1. regular => "sensorStarted" \notin flags
        BY <3>1, <3>2 DEF FlagInv, Fresh, Virgin, Transmitting, Pending, None
      <4> QED
        BY <1>2, <2>1, <3>1, <3>2, <4>1
    <3>3. CASE Arg = {"frameStart"} /\ dev'.tx # None /\ "frameStart" \in dev'.busy
      BY <3>1, <3>3 DEF FlagInv, Transmitting, Pending, Trig, None
    <3>4. CASE /\ dev'.tx # None <=> Transmitting
               /\ "frameStart" \in dev'.busy <=> "frameStart" \in dev.busy
      BY <2>1, <3>1, <3>4 DEF FlagInv, Transmitting, Pending, Trig, None
    <3> QED
      BY <1>3, <2>3, <3>2, <3>3, <3>4, CmdFrames
  <2> QED
    BY <2>2, <2>3
<1>4. CASE Calls \/ Return \/ WaitSeen \/ WaitTimeout \/ CheckFlag \/ Close
  BY <1>1, <1>4, QuietFacts, QuietRegular, QuietFlags
<1>5. CASE ClearFlag
  <2>1. /\ At("clear") /\ flags' = flags \ Arg /\ UNCHANGED <<dev, hand>> /\ regular' = regular
    BY <1>5 DEF ClearFlag, histVars
  <2>2. CASE "sensorStarted" \notin Arg
    BY <1>1, <2>1, <2>2
  <2>3. CASE "sensorStarted" \in Arg
    <3>1. regular => ~Transmitting
      BY <2>1, <2>3, ClearHead DEF StartInv
    <3> QED
      BY <2>1, <2>3, <3>1 DEF FlagInv, Transmitting, Pending, Ready, Trig
  <2> QED
    BY <2>2, <2>3
<1>6. CASE BoardStep
  <2>1. UNCHANGED <<hand, flags>>
    BY <1>6, BoardFacts DEF hostVars
  <2>2. CASE UNCHANGED <<dev, unheard, regular>>
    BY <1>1, <2>1, <2>2
  <2>3. CASE dev' = Booting /\ regular' = (hand = None /\ "sensorStarted" \notin flags)
    <3>1. CASE hand = None
      BY <1>2, <2>1, <2>3, <3>1
    <3>2. CASE hand # None
      BY <2>3, <3>2 DEF FlagInv
    <3> QED
      BY <3>1, <3>2
  <2> QED
    BY <1>6, <2>2, <2>3, BoardFacts DEF histVars
<1>7. CASE LinkStep
  <2>1. UNCHANGED <<dev, flags>>
    BY <1>7, LinkFacts
  <2>2. CASE UNCHANGED <<hand, stray, regular>>
    BY <1>1, <2>1, <2>2
  <2>3. CASE hand' = None /\ regular' = (regular /\ hand = None)
    <3>1. CASE hand = None
      BY <1>1, <2>1, <2>3, <3>1
    <3>2. CASE hand # None
      BY <2>3, <3>2 DEF FlagInv
    <3> QED
      BY <3>1, <3>2
  <2> QED
    BY <1>7, <2>2, <2>3, LinkFacts
<1>8. CASE ReadEvent
  <2>1. /\ hand = None /\ dev.out # <<>> /\ hand' = Head(dev.out) /\ dev'.out = Tail(dev.out)
        /\ DevKept /\ (Pending("END")' <=> Pending("END")) /\ (Pending("TRIGGER")' <=> Pending("TRIGGER"))
        /\ UNCHANGED <<flags, regular>>
    BY <1>8, ReadFacts, Names DEF histVars
  <2>2. Closes(dev.out, "END", "TRIGGER") =>
          /\ Closes(dev'.out, "END", "TRIGGER")
          /\ hand' = "END" => "TRIGGER" \notin Ready'
    BY <1>0, <2>1, OutOfLine DEF Ready
  <2> QED
    BY <2>1, <2>2 DEF FlagInv, Transmitting, Trig, DevKept
<1>9. CASE HandleEvent
  <2>1. /\ hand \in Events \ {"CPUFAULT"} /\ hand' = None /\ Ready' = Ready /\ UNCHANGED <<dev, regular>>
        /\ Pending("END")' <=> "END" \in Ready
        /\ Pending("TRIGGER")' <=> "TRIGGER" \in Ready
        /\ hand = "END" => flags' = flags \ {"sensorStarted"}
        /\ hand # "END" => flags' = flags \cup {Raises[hand]}
    BY <1>9, HandleFacts, Names DEF histVars
  <2>2. CASE hand = "END"
    BY <2>1, <2>2 DEF FlagInv, Transmitting, Trig, Pending, None
  <2>3. CASE hand = "TRIGGER"
    <3>1. "sensorStarted" \in flags'
      BY <2>1, <2>3, RaisesFacts
    <3> QED
      BY <2>1, <2>3, <3>1 DEF FlagInv, Transmitting, Trig, Pending, None
  <2>4. CASE hand \notin {"END", "TRIGGER"}
    <3>1. "sensorStarted" \in flags' <=> "sensorStarted" \in flags
      BY <2>1, <2>4, RaisesFacts, Names
    <3> QED
      BY <2>1, <2>4, <3>1 DEF FlagInv, Transmitting, Trig, Pending, None
  <2> QED
    BY <2>2, <2>3, <2>4
<1>10. ASSUME NEW m, NEW lost \in BOOLEAN, DevEvent(m, lost)
       PROVE  FlagInv'
  <2>1. /\ m \in dev.busy /\ m \in DOMAIN Announces /\ Announces[m] \in Events
        /\ dev'.tx = dev.tx /\ dev'.busy = dev.busy \ {m} /\ UNCHANGED <<hand, flags>>
    BY <1>10, DevEventFacts DEF hostVars
  <2>2. CASE lost
    BY <1>10, <2>2, DevEventFacts DEF FlagInv
  <2>3. CASE ~lost
    <3>1. /\ regular' = regular /\ dev'.out = Append(dev.out, Announces[m])
          /\ Ready' = Ready \cup {Announces[m]}
      BY <1>10, <2>3, DevEventFacts
    <3>2. /\ Announces[m] # "END"
          /\ Announces[m] = "TRIGGER" <=> m = "frameStart"
      BY <2>1, RaisesFacts, Names
    <3>3. Closes(dev.out, "END", "TRIGGER") /\ (m = "frameStart" => "END" \notin Ready)
            => Closes(dev'.out, "END", "TRIGGER")
      BY <1>0, <2>1, <3>1, <3>2, InLine DEF Ready
    <3> QED
      BY <2>1, <3>1, <3>2, <3>3 DEF FlagInv, Transmitting, Trig, Pending
  <2> QED
    BY <2>2, <2>3
<1>11. ASSUME NEW lost \in BOOLEAN, FrameEnd(lost)
       PROVE  FlagInv'
  <2>1. /\ dev.tx = "finite" /\ "frameStart" \notin dev.busy /\ dev'.tx = None /\ dev'.busy = dev.busy
        /\ UNCHANGED <<hand, flags>>
    BY <1>11, FrameEndFacts DEF hostVars
  <2>2. CASE lost
    BY <1>11, <2>2, FrameEndFacts DEF FlagInv
  <2>3. CASE ~lost
    <3>1. /\ regular' = regular /\ dev'.out = Append(dev.out, "END")
          /\ Ready' = Ready \cup {"END"}
      BY <1>11, <2>3, FrameEndFacts
    <3>2. Closes(dev.out, "END", "TRIGGER") => Closes(dev'.out, "END", "TRIGGER")
      BY <1>0, <3>1, Names, InLine
    <3> QED
      BY <2>1, <3>1, <3>2 DEF FlagInv, Transmitting, Trig, Pending, None
  <2> QED
    BY <2>2, <2>3
<1>12. CASE CpuFault
  BY <1>12, CpuFaultFacts DEF FlagInv
<1>13. CASE StrayStep
  <2>1. PICK e \in stray, read \in BOOLEAN : HandleStray(e, read)
    BY <1>13 DEF StrayStep
  <2>2. ~regular /\ regular' = regular
    BY <2>1, StrayFacts DEF CalmInv, histVars
  <2> QED
    BY <2>2 DEF FlagInv
<1>14. CASE UNCHANGED vars
  BY <1>1, <1>14 DEF vars, hostVars, histVars
<1> QED
  BY <1>3, <1>4, <1>5, <1>6, <1>7, <1>8, <1>9, <1>10, <1>11, <1>12, <1>13, <1>14
  DEF Next, AppStep, DevStep

\* The kind of step that each action of a program takes.
LEMMA StepKinds ==
  ASSUME TypeOK
  PROVE  /\ CmdStep => At("cmd")
         /\ WaitSeen => \E d \in {"wait", "waitok", "waitoff", "until"} : At(d)
         /\ WaitTimeout => \E d \in {"wait", "waitok", "waitoff"} : At(d)
         /\ ClearFlag => At("clear")
         /\ CheckFlag => At("onlyif")
         /\ Close => At("close")
         /\ LinkStep => At("link")
         /\ BoardStep => At("board")
  BY CmdFacts, LinkFacts, BoardFacts
  DEF WaitSeen, WaitTimeout, Unmet, ClearFlag, CheckFlag, Close

\* A wait that gives up does so on an event that is not to come, or makes the
\* history irregular.
LEMMA TimeoutFacts ==
  ASSUME TypeOK, WaitTimeout
  PROVE  /\ Go("timeout") /\ UNCHANGED <<hostVars, dev, missed, unheard>>
         /\ regular' => regular
         /\ At("wait") =>
              /\ ~(Arg \subseteq flags)
              /\ \A e \in DOMAIN Raises : Arg = {Raises[e]} /\ Coming(e) => ~regular'
<1>1. /\ Go("timeout") /\ UNCHANGED <<hostVars, dev, missed, unheard>>
      /\ regular' => regular
  BY Zenon DEF WaitTimeout
<1>2. ASSUME At("wait")
      PROVE  ~(Arg \subseteq flags)
  BY <1>2 DEF WaitTimeout, Unmet, At
<1>3. ASSUME At("wait"), NEW e \in DOMAIN Raises, Arg = {Raises[e]}, Coming(e)
      PROVE  ~regular'
  <2>1. ~At("waitoff")
    BY <1>3 DEF At
  <2>2. \A x \in DOMAIN Raises : Arg = {Raises[x]} => x = e
    BY <1>3 DEF Raises
  <2>3. (CHOOSE x \in DOMAIN Raises : Arg = {Raises[x]}) = e
    BY <1>3, <2>2
  <2>4. (IF At("waitoff") THEN "END" ELSE CHOOSE x \in DOMAIN Raises : Arg = {Raises[x]}) = e
    BY <2>1, <2>3, Zenon
  <2>5. regular' = (regular /\ ~Coming(e))
    BY <2>4, Zenon DEF WaitTimeout
  <2> QED
    BY <1>3, <2>5
<1> QED
  BY <1>1, <1>2, <1>3

\* What is ready or in the hand of the reader comes, and so does what the
\* device has yet to report.
LEMMA ComingFacts ==
  ASSUME TypeOK, CalmInv, regular, linkUp, NEW e \in DOMAIN Raises
  PROVE  /\ Pending(e) => Coming(e)
         /\ \A m \in dev.busy : Announces[m] = e => Coming(e)
<1>1. ~Wedged
  BY DEF CalmInv, Wedged, Pending, Ready, Range
<1> QED
  BY <1>1 DEF Coming, Pending, Ready, Range

\* Only a start that waits has the start of the frames to come.
LEMMA TriggerNext ==
  ASSUME TypeOK, CalmInv, FlagInv, TriggerInv, StartInv, CallInv, InitInv, [Next]_vars
  PROVE  TriggerInv'
<1>0. regular \in BOOLEAN /\ dev.out \in Seq(Events)
  BY DEF TypeOK, Devices
<1>1. ASSUME UNCHANGED <<dev, hand>>, regular' => regular, ~Trig
      PROVE  TriggerInv'
  BY <1>1 DEF TriggerInv, Pending, Ready, Trig
<1>2. ASSUME UNCHANGED <<dev, hand, call, todo, linkUp, flags>>, regular' => regular
      PROVE  TriggerInv'
  BY <1>2 DEF TriggerInv, Pending, Ready, Trig, OneTrigger
<1>3. ASSUME regular, Trig
      PROVE  /\ ~(Calls \/ Return \/ CmdStep \/ WaitSeen \/ ClearFlag \/ CheckFlag)
             /\ ~(Close \/ LinkStep \/ BoardStep)
             /\ WaitTimeout => ~regular'
  <2>1. /\ call = "startSensor" /\ todo = <<Wait("sensorStarted")>>
        /\ linkUp /\ "sensorStarted" \notin flags
    BY <1>3 DEF TriggerInv
  <2>2. Head(todo) = Wait("sensorStarted") /\ todo # <<>>
    BY <2>1, SensorSteps
  <2>3. Head(todo).do = "wait" /\ Arg = {"sensorStarted"}
    BY <2>2 DEF Wait, Step, Arg
  <2>4. /\ At("wait")
        /\ \A d \in {"cmd", "waitok", "waitoff", "until", "clear", "onlyif", "close", "link", "board"} : ~At(d)
    BY <2>1, <2>2, <2>3 DEF At, None
  <2>5. ~Calls /\ ~Return
    <3>1. ~Return
      BY <2>2 DEF Return
    <3>2. \A c, p : ~Enter(c, p)
      BY <2>1 DEF Enter, None
    <3>3. ~Calls
      BY <3>2 DEF Calls, Calling, CallInit, CallStartSensor
    <3> QED
      BY <3>1, <3>3
  <2>6. ~WaitSeen
    BY <2>1, <2>3, <2>4 DEF WaitSeen
  <2>7. ~(CmdStep \/ ClearFlag \/ CheckFlag \/ Close \/ LinkStep \/ BoardStep)
    BY <2>4, StepKinds
  <2>8. Coming("TRIGGER")
    <3>1. "TRIGGER" \in DOMAIN Raises
      BY DEF Raises
    <3> QED
      BY <1>3, <2>1, <3>1, ComingFacts, RaisesFacts DEF Trig
  <2>9. WaitTimeout => ~regular'
    <3>1. "TRIGGER" \in DOMAIN Raises
      BY DEF Raises
    <3> QED
      BY <2>3, <2>4, <2>8, <3>1, TimeoutFacts, RaisesFacts
  <2> QED
    BY <2>5, <2>6, <2>7, <2>9
<1>4. CASE CmdStep
  <2>1. (regular' => regular) /\ UNCHANGED <<flags, hand, linkUp>>
    BY <1>4, CmdFacts DEF hostVars
  <2>2. CASE dev' = dev
    BY <1>0, <1>1, <1>3, <1>4, <2>1, <2>2 DEF TriggerInv
  <2>3. CASE dev' # dev
    <3>1. /\ hand = None /\ hand' = None /\ Ready = {} /\ Ready' = {} /\ dev'.out = <<>> /\ linkUp
          /\ Once(dev'.out, "TRIGGER")
      BY <1>4, <2>3, CmdFrames, NoneInLine
    <3>2. CASE dev' = Booting
      BY <3>1, <3>2, BootingVirgin DEF TriggerInv, Trig, Pending, None
    <3>3. CASE /\ Arg = {"frameStart"} /\ "frameStart" \in dev'.busy
               /\ call = "startSensor" /\ todo = Tail(MMWL_sensorStart)
      <4>1. PICK r : Go(r)
        BY <1>4, CmdFacts
      <4>2. Head(Tail(todo)) # Check /\ Tail(todo) = <<Wait("sensorStarted")>> /\ Tail(todo) # <<>>
        <5>1. Tail(todo) = <<Wait("sensorStarted")>> /\ Head(Tail(todo)) = Wait("sensorStarted")
          BY <3>3, SensorSteps
        <5>2. Wait("sensorStarted") # Check
          BY DEF Wait, Check, Step
        <5>3. Tail(todo) # <<>>
          BY <5>1, TailOfOne
        <5> QED
          BY <5>1, <5>2, <5>3
      <4>3. call' = "startSensor" /\ todo' = <<Wait("sensorStarted")>>
        BY <3>3, <4>1, <4>2, GoCases
      <4>4. regular => "sensorStarted" \notin flags
        BY <3>3 DEF StartInv
      <4> QED
        BY <2>1, <3>1, <4>3, <4>4 DEF TriggerInv, OneTrigger, Pending, None
    <3>4. CASE "frameStart" \in dev'.busy <=> "frameStart" \in dev.busy
      <4>1. Trig' => Trig
        BY <3>1, <3>4 DEF Trig, Pending, None
      <4> QED
        BY <1>3, <1>4, <2>1, <4>1 DEF TriggerInv
    <3> QED
      BY <1>4, <2>3, <3>2, <3>3, <3>4, CmdFrames
  <2> QED
    BY <2>2, <2>3
<1>5. CASE Calls \/ Return \/ WaitSeen \/ WaitTimeout \/ ClearFlag \/ CheckFlag \/ Close
  <2>1. UNCHANGED <<dev, hand>> /\ (regular' => regular)
    BY <1>5, QuietFacts, QuietRegular
  <2>2. CASE Trig /\ regular
    BY <1>3, <1>5, <2>2 DEF TriggerInv
  <2>3. CASE ~Trig \/ ~regular
    BY <1>1, <2>1, <2>3 DEF TriggerInv
  <2> QED
    BY <2>2, <2>3
<1>6. CASE BoardStep
  <2>1. hand' = hand
    BY <1>6, BoardFacts DEF hostVars
  <2>2. CASE UNCHANGED <<dev, unheard, regular>>
    BY <1>1, <1>3, <1>6, <2>1, <2>2 DEF TriggerInv
  <2>3. CASE dev' = Booting /\ regular' = (hand = None /\ "sensorStarted" \notin flags)
    BY <2>1, <2>3, BootingVirgin DEF TriggerInv, Trig, Pending, None
  <2> QED
    BY <1>6, <2>2, <2>3, BoardFacts DEF histVars
<1>7. CASE LinkStep
  <2>1. /\ dev' = dev
        /\ \/ hand' = hand /\ regular' = regular
           \/ hand' = None /\ regular' = (regular /\ hand = None)
    BY <1>7, LinkFacts
  <2>2. CASE Trig /\ regular
    BY <1>3, <1>7, <2>2
  <2>3. CASE ~Trig \/ ~regular
    BY <1>1, <2>1, <2>3 DEF TriggerInv
  <2> QED
    BY <2>2, <2>3
<1>8. CASE ReadEvent
  <2>1. /\ hand = None /\ dev.out # <<>> /\ hand' = Head(dev.out) /\ dev'.out = Tail(dev.out)
        /\ DevKept /\ (Pending("TRIGGER")' <=> Pending("TRIGGER"))
        /\ UNCHANGED <<flags, regular, call, todo, linkUp>>
    BY <1>8, ReadFacts, Names DEF histVars, appVars
  <2>2. Once(dev.out, "TRIGGER") =>
          Once(dev'.out, "TRIGGER") /\ (hand' = "TRIGGER" => "TRIGGER" \notin Ready')
    BY <1>0, <2>1, OutOfLine DEF Ready
  <2> QED
    BY <2>1, <2>2 DEF TriggerInv, OneTrigger, Trig, DevKept
<1>9. CASE HandleEvent
  <2>1. /\ hand \in Events \ {"CPUFAULT"} /\ hand' = None /\ Ready' = Ready
        /\ UNCHANGED <<dev, regular, call, todo, linkUp>>
        /\ Pending("TRIGGER")' <=> "TRIGGER" \in Ready
        /\ hand = "END" => flags' = flags \ {"sensorStarted"}
        /\ hand # "END" => flags' = flags \cup {Raises[hand]}
    BY <1>9, HandleFacts, Names DEF histVars, appVars
  <2>2. CASE hand = "TRIGGER"
    BY <2>1, <2>2 DEF TriggerInv, OneTrigger, Trig, Pending
  <2>3. CASE hand # "TRIGGER"
    <3>1. "sensorStarted" \in flags' => "sensorStarted" \in flags
      BY <2>1, <2>3, RaisesFacts, Names
    <3> QED
      BY <2>1, <2>3, <3>1 DEF TriggerInv, OneTrigger, Trig, Pending, None
  <2> QED
    BY <2>2, <2>3
<1>10. ASSUME NEW m, NEW lost \in BOOLEAN, DevEvent(m, lost)
       PROVE  TriggerInv'
  <2>1. /\ m \in dev.busy /\ m \in DOMAIN Announces /\ Announces[m] \in Events
        /\ dev'.busy = dev.busy \ {m} /\ UNCHANGED <<hand, flags, linkUp, call, todo>>
    BY <1>10, DevEventFacts DEF hostVars, appVars
  <2>2. CASE lost
    BY <1>10, <2>2, DevEventFacts DEF TriggerInv
  <2>3. CASE ~lost
    <3>1. /\ regular' = regular /\ dev'.out = Append(dev.out, Announces[m])
          /\ Ready' = Ready \cup {Announces[m]}
      BY <1>10, <2>3, DevEventFacts
    <3>2. Announces[m] = "TRIGGER" <=> m = "frameStart"
      BY <2>1, RaisesFacts, Names
    <3>3. Once(dev.out, "TRIGGER") /\ (m = "frameStart" => "TRIGGER" \notin Ready)
            => Once(dev'.out, "TRIGGER")
      BY <1>0, <2>1, <3>1, <3>2, InLine DEF Ready
    <3>4. CASE m = "frameStart"
      BY <2>1, <3>1, <3>2, <3>3, <3>4 DEF TriggerInv, OneTrigger, Trig, Pending
    <3>5. CASE m # "frameStart"
      BY <2>1, <3>1, <3>2, <3>3, <3>5 DEF TriggerInv, OneTrigger, Trig, Pending
    <3> QED
      BY <3>4, <3>5
  <2> QED
    BY <2>2, <2>3
<1>11. ASSUME NEW lost \in BOOLEAN, FrameEnd(lost)
       PROVE  TriggerInv'
  <2>1. dev'.busy = dev.busy /\ UNCHANGED <<hand, flags, linkUp, call, todo>>
    BY <1>11, FrameEndFacts DEF hostVars, appVars
  <2>2. CASE lost
    BY <1>11, <2>2, FrameEndFacts DEF TriggerInv
  <2>3. CASE ~lost
    <3>1. /\ regular' = regular /\ dev'.out = Append(dev.out, "END")
          /\ Ready' = Ready \cup {"END"}
      BY <1>11, <2>3, FrameEndFacts
    <3>2. Once(dev.out, "TRIGGER") => Once(dev'.out, "TRIGGER")
      BY <1>0, <3>1, Names, InLine
    <3> QED
      BY <2>1, <3>1, <3>2 DEF TriggerInv, OneTrigger, Trig, Pending
  <2> QED
    BY <2>2, <2>3
<1>12. CASE CpuFault
  BY <1>12, CpuFaultFacts DEF TriggerInv
<1>13. CASE StrayStep
  <2>1. PICK e \in stray, read \in BOOLEAN : HandleStray(e, read)
    BY <1>13 DEF StrayStep
  <2>2. ~regular /\ regular' = regular
    BY <2>1, StrayFacts DEF CalmInv, histVars
  <2> QED
    BY <2>2 DEF TriggerInv
<1>14. CASE UNCHANGED vars
  BY <1>2, <1>14 DEF vars, hostVars, histVars, appVars
<1> QED
  BY <1>4, <1>5, <1>6, <1>7, <1>8, <1>9, <1>10, <1>11, <1>12, <1>13, <1>14
  DEF Next, AppStep, DevStep

\* startSensor goes from step to step.
LEMMA StartSteps ==
  ASSUME TypeOK, CallInv, ProgramStep, call = "startSensor"
  PROVE  /\ todo' # MMWL_sensorStart
         /\ todo' = Tail(MMWL_sensorStart) => ClearFlag /\ Arg = {"sensorStarted"}
         /\ ~BoardStep /\ ~LinkStep
<1>1. /\ todo # <<>> /\ \E r : Go(r) \/ todo' = <<>>
      /\ todo \in {MMWL_sensorStart, Tail(MMWL_sensorStart), <<Wait("sensorStarted")>>}
  BY ProgramFacts DEF CallInv
<1>2. /\ Head(MMWL_sensorStart) = Clear({"sensorStarted"})
      /\ Head(Tail(MMWL_sensorStart)) = Cmd("frameStart")
      /\ Head(<<Wait("sensorStarted")>>) = Wait("sensorStarted")
  BY SensorSteps
<1>3. /\ Clear({"sensorStarted"}).do = "clear" /\ Clear({"sensorStarted"}).arg = {"sensorStarted"}
      /\ Cmd("frameStart").do = "cmd" /\ Wait("sensorStarted").do = "wait"
      /\ Cmd("frameStart") # Check /\ Wait("sensorStarted") # Check
  BY DEF Clear, Cmd, Wait, Check, Step
<1>4. \/ todo = MMWL_sensorStart /\ Head(todo).do = "clear" /\ Arg = {"sensorStarted"}
      \/ todo = Tail(MMWL_sensorStart) /\ Head(todo).do = "cmd"
      \/ todo = <<Wait("sensorStarted")>> /\ Head(todo).do = "wait"
  BY <1>1, <1>2, <1>3 DEF Arg
<1>5. /\ ~BoardStep /\ ~LinkStep
      /\ ProgramStep /\ Head(todo).do = "clear" => ClearFlag
  BY <1>1, <1>4, StepKinds DEF ProgramStep, At
<1>6. /\ todo = Tail(MMWL_sensorStart) => todo' \in {<<Wait("sensorStarted")>>, <<>>}
      /\ todo = <<Wait("sensorStarted")>> => todo' = <<>>
      /\ todo = MMWL_sensorStart => todo' \in {Tail(MMWL_sensorStart), <<>>}
  <2>1. \/ todo' = <<>>
        \/ todo' = Tail(todo) /\ (Tail(todo) = <<>> \/ Head(Tail(todo)) # Check)
        \/ Tail(todo) # <<>> /\ Head(Tail(todo)) = Check
    BY <1>1, GoCases
  <2> QED
    BY <1>2, <1>3, <2>1, SensorSteps
<1>7. <<Wait("sensorStarted")>> # Tail(MMWL_sensorStart) /\ <<>> # Tail(MMWL_sensorStart)
  BY <1>2, <1>3, SensorSteps
<1>8. MMWL_sensorStart \notin {Tail(MMWL_sensorStart), <<Wait("sensorStarted")>>, <<>>}
  BY <1>2, <1>3, SensorSteps
<1> QED
  BY <1>1, <1>4, <1>5, <1>6, <1>7, <1>8

\* A start that has not sent its command finds the sensor quiet.
LEMMA StartNext ==
  ASSUME TypeOK, CalmInv, TriggerInv, StartInv, CallInv, InitInv, [Next]_vars
  PROVE  StartInv'
<1>1. ASSUME UNCHANGED <<call, todo>>, regular' => regular, dev'.tx \in {dev.tx, None},
             regular /\ call = "startSensor" /\ todo = Tail(MMWL_sensorStart)
               /\ "sensorStarted" \in flags' => "sensorStarted" \in flags
      PROVE  StartInv'
  BY <1>1 DEF StartInv, Transmitting
<1>2. CASE Calls
  <2>1. CASE CallStartSensor
    <3>1. todo' = MMWL_sensorStart /\ (regular' => ~Transmitting') /\ todo' # Tail(MMWL_sensorStart)
      <4>1. MMWL_sensorStart # Tail(MMWL_sensorStart)
        <5>1. Clear({"sensorStarted"}) # Cmd("frameStart")
          BY DEF Clear, Cmd, Step
        <5> QED
          BY <5>1, SensorSteps
      <4> QED
        BY <2>1, <4>1 DEF CallStartSensor, Enter, Transmitting
    <3> QED
      BY <3>1 DEF StartInv
  <2>2. CASE call' # "startSensor"
    BY <2>2 DEF StartInv
  <2>3. Calls => CallStartSensor \/ call' # "startSensor"
    BY DEF Calls, Calling, CallInit, Enter
  <2> QED
    BY <1>2, <2>1, <2>2, <2>3
<1>3. CASE Return
  BY <1>3 DEF Return, StartInv, None
<1>4. CASE ProgramStep
  <2>1. CASE call = "startSensor"
    <3>1. /\ todo' # MMWL_sensorStart
          /\ todo' = Tail(MMWL_sensorStart) => ClearFlag /\ Arg = {"sensorStarted"}
      BY <1>4, <2>1, StartSteps
    <3> QED
      BY <3>1 DEF StartInv, ClearFlag
  <2>2. CASE call # "startSensor"
    BY <1>4, <2>2, ProgramFacts DEF StartInv
  <2> QED
    BY <2>1, <2>2
<1>5. CASE ReadEvent
  BY <1>1, <1>5, ReadFacts DEF DevKept, appVars, histVars
<1>6. CASE HandleEvent
  <2>1. /\ hand \in Events \ {"CPUFAULT"} /\ UNCHANGED <<dev, regular, call, todo>>
        /\ hand = "END" => flags' = flags \ {"sensorStarted"}
        /\ hand # "END" => flags' = flags \cup {Raises[hand]}
    BY <1>6, HandleFacts DEF histVars, appVars
  <2>2. CASE hand = "TRIGGER"
    <3>1. regular => todo = <<Wait("sensorStarted")>>
      BY <2>2 DEF TriggerInv, Trig, Pending
    <3>2. <<Wait("sensorStarted")>> # Tail(MMWL_sensorStart)
      <4>1. Wait("sensorStarted") # Cmd("frameStart")
        BY DEF Wait, Cmd, Step
      <4> QED
        BY <4>1, SensorSteps
    <3> QED
      BY <1>1, <2>1, <3>1, <3>2
  <2>3. CASE hand # "TRIGGER"
    <3>1. "sensorStarted" \in flags' => "sensorStarted" \in flags
      BY <2>1, <2>3, RaisesFacts, Names
    <3> QED
      BY <1>1, <2>1, <3>1
  <2> QED
    BY <2>2, <2>3
<1>7. ASSUME NEW m, NEW lost \in BOOLEAN, DevEvent(m, lost)
      PROVE  StartInv'
  BY <1>1, <1>7, DevEventFacts DEF hostVars, appVars
<1>8. ASSUME NEW lost \in BOOLEAN, FrameEnd(lost)
      PROVE  StartInv'
  BY <1>1, <1>8, FrameEndFacts DEF hostVars, appVars
<1>9. CASE CpuFault
  BY <1>9, CpuFaultFacts DEF StartInv
<1>10. CASE StrayStep
  <2>1. PICK e \in stray, read \in BOOLEAN : HandleStray(e, read)
    BY <1>10 DEF StrayStep
  <2>2. ~regular /\ regular' = regular
    BY <2>1, StrayFacts DEF CalmInv, histVars
  <2> QED
    BY <2>2 DEF StartInv
<1>11. CASE UNCHANGED vars
  BY <1>1, <1>11 DEF vars, hostVars, histVars, appVars
<1> QED
  BY <1>2, <1>3, <1>4, <1>5, <1>6, <1>7, <1>8, <1>9, <1>10, <1>11
  DEF Next, AppStep, ProgramStep, DevStep

-----------------------------------------------------------------------------
(***************************************************************************)
(* What a call that returns OK has reached.                                *)
(***************************************************************************)
\* While the flag is clear and no start is under way, nothing is transmitted.
LEMMA FlagMeansQuiet ==
  ASSUME FlagInv, TriggerInv, regular, call # "startSensor", "sensorStarted" \notin flags
  PROVE  ~Transmitting
  BY DEF FlagInv, TriggerInv

\* A stop that is about to return OK has left the sensor quiet.
LEMMA StopNext ==
  ASSUME TypeOK, FlagInv, TriggerInv, StopInv, CallInv, [Next]_vars
  PROVE  StopInv'
<1>1. ASSUME UNCHANGED <<call, todo, ret>>, regular' => regular, dev'.tx \in {dev.tx, None}
      PROVE  StopInv'
  BY <1>1 DEF StopInv, Transmitting
<1>2. CASE Calls
  <2>1. CASE Calling("stopSensor", MMWL_sensorStop)
    BY <2>1, SensorSteps DEF Calling, Enter, StopInv
  <2>2. CASE call' # "stopSensor"
    BY <2>2 DEF StopInv
  <2>3. Calls => Calling("stopSensor", MMWL_sensorStop) \/ call' # "stopSensor"
    BY DEF Calls, Calling, CallInit, CallStartSensor, Enter
  <2> QED
    BY <1>2, <2>1, <2>2, <2>3
<1>3. CASE Return
  BY <1>3 DEF Return, StopInv, None
<1>4. CASE ProgramStep
  <2>1. /\ call' = call /\ todo # <<>>
        /\ \/ \E r \in Results : Go(r)
           \/ todo' = <<>> /\ ret' = ret /\ At("onlyif")
    BY <1>4, ProgramFacts
  <2>2. CASE call # "stopSensor"
    BY <2>1, <2>2 DEF StopInv
  <2>3. CASE call = "stopSensor"
    <3>1. todo \in {MMWL_sensorStop, Tail(MMWL_sensorStop), <<WaitOff("sensorStarted")>>}
      BY <2>1, <2>3 DEF CallInv
    <3>2. /\ Head(MMWL_sensorStop) = OnlyIf("sensorStarted")
          /\ Head(Tail(MMWL_sensorStop)) = Cmd("frameStop")
          /\ Head(<<WaitOff("sensorStarted")>>) = WaitOff("sensorStarted")
      BY SensorSteps
    <3>3. /\ OnlyIf("sensorStarted").do = "onlyif" /\ OnlyIf("sensorStarted").arg = {"sensorStarted"}
          /\ Cmd("frameStop").do = "cmd" /\ Cmd("frameStop") # Check
          /\ WaitOff("sensorStarted").do = "waitoff"
          /\ WaitOff("sensorStarted").arg = {"sensorStarted"}
      BY DEF OnlyIf, Cmd, WaitOff, Check, Step
    <3>4. CASE todo = MMWL_sensorStop
      <4>1. Head(todo).do = "onlyif" /\ Arg = {"sensorStarted"}
        BY <3>2, <3>3, <3>4 DEF Arg
      <4>2. CheckFlag
        BY <1>4, <4>1, StepKinds DEF ProgramStep, At
      <4>3. dev' = dev /\ regular' = regular
        BY <4>2 DEF CheckFlag, histVars
      <4>4. CASE "sensorStarted" \in flags
        <5>1. Go(ret)
          BY <4>1, <4>2, <4>4 DEF CheckFlag
        <5>2. Tail(todo) # <<>> /\ Head(Tail(todo)) # Check
          BY <3>2, <3>3, <3>4, SensorSteps
        <5>3. todo' # <<>>
          BY <5>1, <5>2, GoCases
        <5> QED
          BY <5>3 DEF StopInv
      <4>5. CASE "sensorStarted" \notin flags
        BY <2>3, <4>3, <4>5, FlagMeansQuiet DEF StopInv, Transmitting
      <4> QED
        BY <4>4, <4>5
    <3>5. CASE todo = Tail(MMWL_sensorStop)
      <4>1. Head(todo).do = "cmd"
        BY <3>2, <3>3, <3>5
      <4>2. PICK r : Go(r)
        BY <2>1, <4>1 DEF At
      <4>3. /\ Tail(todo) # <<>> /\ Head(Tail(todo)) = Check
            /\ Tail(Tail(todo)) = <<WaitOff("sensorStarted")>>
        BY <3>5, SensorSteps
      <4>4. todo' # <<>> \/ ret' # "ok"
        <5>1. <<WaitOff("sensorStarted")>> # <<>>
          OBVIOUS
        <5> QED
          BY <4>2, <4>3, <5>1, GoCases
      <4> QED
        BY <4>4 DEF StopInv
    <3>6. CASE todo = <<WaitOff("sensorStarted")>>
      <4>1. Head(todo).do = "waitoff" /\ Arg = {"sensorStarted"}
        BY <3>2, <3>3, <3>6 DEF Arg
      <4>2. WaitSeen \/ WaitTimeout
        BY <1>4, <4>1, StepKinds DEF ProgramStep, At
      <4>3. CASE WaitTimeout
        BY <4>3, TimeoutFacts DEF Go, StopInv
      <4>4. CASE WaitSeen
        <5>1. "sensorStarted" \notin flags /\ dev' = dev /\ regular' = regular
          BY <4>1, <4>4 DEF WaitSeen, At, histVars
        <5> QED
          BY <2>3, <5>1, FlagMeansQuiet DEF StopInv, Transmitting
      <4> QED
        BY <4>2, <4>3, <4>4
    <3> QED
      BY <3>1, <3>4, <3>5, <3>6
  <2> QED
    BY <2>2, <2>3
<1>5. CASE ReadEvent
  BY <1>1, <1>5, ReadFacts DEF DevKept, appVars, histVars
<1>6. CASE HandleEvent
  BY <1>1, <1>6, HandleFacts DEF appVars, histVars
<1>7. ASSUME NEW m, NEW lost \in BOOLEAN, DevEvent(m, lost)
      PROVE  StopInv'
  BY <1>1, <1>7, DevEventFacts DEF appVars
<1>8. ASSUME NEW lost \in BOOLEAN, FrameEnd(lost)
      PROVE  StopInv'
  BY <1>1, <1>8, FrameEndFacts DEF appVars
<1>9. CASE CpuFault
  BY <1>9, CpuFaultFacts DEF StopInv
<1>10. CASE StrayStep
  <2>1. PICK e \in stray, read \in BOOLEAN : HandleStray(e, read)
    BY <1>10 DEF StrayStep
  <2> QED
    BY <1>1, <2>1, StrayFacts DEF appVars, histVars
<1>11. CASE UNCHANGED vars
  BY <1>1, <1>11 DEF vars, histVars, appVars
<1> QED
  BY <1>2, <1>3, <1>4, <1>5, <1>6, <1>7, <1>8, <1>9, <1>10, <1>11
  DEF Next, AppStep, ProgramStep, DevStep

\* At its end an init that is OK has done what it is for.
LEMMA InitDone ==
  ASSUME TypeOK, InitInv, call = "init", todo = <<>>, ret = "ok"
  PROVE  Good("done")
<1>1. PICK a \in Labels, b \in Labels :
        b[1] = "done" /\ Path(args.Calib, todo, a, b) /\ Holds(a)
  BY DEF InitInv
<1>2. PICK g \in [1..(Len(todo) + 1) -> Labels] : g[1] = a /\ g[Len(todo) + 1] = b
  BY <1>1 DEF Path
<1>3. Len(todo) = 0
  BY EmptySeq
<1>4. a = b
  BY <1>2, <1>3
<1> QED
  BY <1>1, <1>4 DEF Holds

\* What a call that returned OK has reached lasts until the next.
LEMMA LastNext ==
  ASSUME TypeOK, StopInv, LastInv, InitInv, [Next]_vars
  PROVE  LastInv'
<1>1. ASSUME UNCHANGED <<call, last, missed, unheard, args>>, regular' => regular,
             dev'.tx \in {dev.tx, None}, dev'.rf = dev.rf, dev.calibrated => dev'.calibrated
      PROVE  LastInv'
  <2>1. last' # None => call' = None
    BY <1>1 DEF LastInv
  <2>2. StopOkMeansQuiet'
    BY <1>1 DEF LastInv, StopOkMeansQuiet, Transmitting
  <2>3. InitOkConfigured'
    BY <1>1 DEF LastInv, InitOkConfigured, Overwritten
  <2> QED
    BY <2>1, <2>2, <2>3 DEF LastInv
<1>2. ASSUME last' = None
      PROVE  LastInv'
  BY <1>2 DEF LastInv, StopOkMeansQuiet, InitOkConfigured, None
<1>3. CASE Calls
  BY <1>2, <1>3 DEF Calls, Calling, CallInit, CallStartSensor, Enter
<1>4. CASE Return
  <2>1. /\ call # None /\ todo = <<>> /\ call' = None
        /\ last' = IF ret = "ok" THEN call ELSE None
        /\ missed' = IF ret = "ok" /\ call = "init" THEN missed ELSE {}
        /\ UNCHANGED <<dev, args, unheard, regular>>
    BY <1>4 DEF Return, hostVars
  <2>2. CASE ret # "ok"
    BY <1>2, <2>1, <2>2
  <2>3. CASE ret = "ok" /\ call \notin {"init", "stopSensor"}
    BY <2>1, <2>3 DEF LastInv, StopOkMeansQuiet, InitOkConfigured
  <2>4. CASE ret = "ok" /\ call = "stopSensor"
    <3>1. last' = "stopSensor" /\ (regular => ~Transmitting)
      BY <2>1, <2>4 DEF StopInv
    <3> QED
      BY <2>1, <3>1 DEF LastInv, StopOkMeansQuiet, InitOkConfigured, Transmitting
  <2>5. CASE ret = "ok" /\ call = "init"
    <3>1. last' = "init" /\ missed' = missed
      BY <2>1, <2>5
    <3>2. Good("done")
      BY <2>1, <2>5, InitDone
    <3>3. ~unheard =>
            /\ missed \subseteq
                 Overwritten \cup (IF args.Calib = "store" THEN {"rfInit"} ELSE {})
            /\ dev.rf
            /\ Certain => dev.calibrated \/ "rfInit" \in missed
      BY <3>2, Zenon DEF Good, AtDone
    <3>4. InitOkConfigured'
      BY <2>1, <3>1, <3>3 DEF InitOkConfigured, Certain, Overwritten
    <3> QED
      BY <2>1, <3>1, <3>4 DEF LastInv, StopOkMeansQuiet
  <2> QED
    BY <2>2, <2>3, <2>4, <2>5
<1>5. CASE ProgramStep
  <2>1. last = None /\ last' = last
    BY <1>5, ProgramFacts DEF LastInv
  <2> QED
    BY <1>2, <2>1
<1>6. CASE ReadEvent
  BY <1>1, <1>6, ReadFacts DEF DevKept, appVars, histVars
<1>7. CASE HandleEvent
  BY <1>1, <1>7, HandleFacts DEF appVars, histVars
<1>8. ASSUME NEW m, NEW lost \in BOOLEAN, DevEvent(m, lost)
      PROVE  LastInv'
  BY <1>1, <1>8, DevEventFacts DEF appVars, hostVars
<1>9. ASSUME NEW lost \in BOOLEAN, FrameEnd(lost)
      PROVE  LastInv'
  BY <1>1, <1>9, FrameEndFacts DEF appVars, hostVars
<1>10. CASE CpuFault
  BY <1>1, <1>10, CpuFaultFacts DEF appVars, hostVars, DevKept
<1>11. CASE StrayStep
  <2>1. PICK e \in stray, read \in BOOLEAN : HandleStray(e, read)
    BY <1>11 DEF StrayStep
  <2> QED
    BY <1>1, <2>1, StrayFacts DEF appVars, histVars
<1>12. CASE UNCHANGED vars
  BY <1>1, <1>12 DEF vars, hostVars, histVars, appVars
<1> QED
  BY <1>3, <1>4, <1>5, <1>6, <1>7, <1>8, <1>9, <1>10, <1>11, <1>12
  DEF Next, AppStep, ProgramStep, DevStep

-----------------------------------------------------------------------------
(***************************************************************************)
(* The device and the reader thread leave an init where it is.             *)
(***************************************************************************)
LEMMA GoodIs ==
  /\ Good("start") = AtStart /\ Good("reset") = AtReset /\ Good("swept") = AtSwept
  /\ Good("fresh") = AtFresh /\ Good("rf") = AtRf /\ Good("clean") = AtClean
  /\ Good("restore") = AtRestore /\ Good("calib") = AtCalib
  /\ Good("waited") = AtWaited /\ Good("done") = AtDone
<1>1. Good("start") = AtStart /\ Good("reset") = AtReset /\ Good("swept") = AtSwept
  BY Zenon DEF Good
<1>2. Good("fresh") = AtFresh /\ Good("rf") = AtRf /\ Good("clean") = AtClean
  BY Zenon DEF Good
<1>3. Good("restore") = AtRestore /\ Good("calib") = AtCalib
  BY Zenon DEF Good
<1>4. Good("waited") = AtWaited /\ Good("done") = AtDone
  BY Zenon DEF Good
<1> QED
  BY <1>1, <1>2, <1>3, <1>4

LEMMA GoodWillBe ==
  /\ Good("start")' = AtStart' /\ Good("reset")' = AtReset' /\ Good("swept")' = AtSwept'
  /\ Good("fresh")' = AtFresh' /\ Good("rf")' = AtRf' /\ Good("clean")' = AtClean'
  /\ Good("restore")' = AtRestore' /\ Good("calib")' = AtCalib'
  /\ Good("waited")' = AtWaited' /\ Good("done")' = AtDone'
<1>1. Good("start")' = AtStart' /\ Good("reset")' = AtReset' /\ Good("swept")' = AtSwept'
  BY Zenon DEF Good
<1>2. Good("fresh")' = AtFresh' /\ Good("rf")' = AtRf' /\ Good("clean")' = AtClean'
  BY Zenon DEF Good
<1>3. Good("restore")' = AtRestore' /\ Good("calib")' = AtCalib'
  BY Zenon DEF Good
<1>4. Good("waited")' = AtWaited' /\ Good("done")' = AtDone'
  BY Zenon DEF Good
<1> QED
  BY <1>1, <1>2, <1>3, <1>4

EnvStep == ReadEvent \/ HandleEvent \/ DevStep \/ CpuFault \/ StrayStep

\* What the device and the reader thread leave alone.
LEMMA EnvFacts ==
  ASSUME TypeOK, EnvStep
  PROVE  /\ UNCHANGED <<appVars, args, linkUp, missed, unheard>>
         /\ regular' => regular
         /\ stray' \subseteq stray /\ (Steady => ~StrayStep)
         /\ dev'.rf = dev.rf /\ (dev.calibrated => dev'.calibrated)
<1>1. CASE ReadEvent
  BY <1>1, ReadFacts DEF DevKept, histVars, StrayStep, HandleStray, Steady
<1>2. CASE HandleEvent
  BY <1>2, HandleFacts DEF histVars, StrayStep, HandleStray, Steady
<1>3. ASSUME NEW m, NEW lost \in BOOLEAN, DevEvent(m, lost)
      PROVE  /\ UNCHANGED <<appVars, args, linkUp, missed, unheard, stray>>
             /\ regular' => regular
             /\ dev'.rf = dev.rf /\ (dev.calibrated => dev'.calibrated)
  BY <1>3, DevEventFacts DEF hostVars
<1>4. ASSUME NEW lost \in BOOLEAN, FrameEnd(lost)
      PROVE  /\ UNCHANGED <<appVars, args, linkUp, missed, unheard, stray>>
             /\ regular' => regular
             /\ dev'.rf = dev.rf /\ (dev.calibrated => dev'.calibrated)
  BY <1>4, FrameEndFacts DEF hostVars
<1>5. CASE CpuFault
  BY <1>5, CpuFaultFacts DEF DevKept, hostVars, StrayStep, HandleStray, Steady
<1>6. CASE StrayStep
  <2>1. PICK e \in stray, read \in BOOLEAN : HandleStray(e, read)
    BY <1>6 DEF StrayStep
  <2> QED
    BY <2>1, StrayFacts DEF histVars, Steady
<1>7. Steady => ~StrayStep
  BY DEF Steady, StrayStep, HandleStray
<1> QED
  BY <1>1, <1>2, <1>3, <1>4, <1>5, <1>6, <1>7 DEF EnvStep, DevStep

\* A fresh device stays fresh.
LEMMA FreshEnv ==
  ASSUME TypeOK, EnvStep, Fresh, Steady
  PROVE  Fresh'
<1>1. CASE ReadEvent
  <2>1. hand' \in Ready /\ Ready' \subseteq Ready /\ DevKept
    BY <1>1, ReadFacts
  <2> QED
    BY <2>1 DEF Fresh, Virgin, DevKept
<1>2. CASE HandleEvent
  BY <1>2, HandleFacts DEF Fresh, Virgin
<1>3. ASSUME NEW m, NEW lost \in BOOLEAN, DevEvent(m, lost)
      PROVE  Fresh'
  <2>1. /\ m = "boot" /\ dev'.rf = dev.rf /\ dev'.tx = dev.tx /\ dev'.busy = dev.busy \ {m}
        /\ Ready' \subseteq Ready \cup {"POWERUP"} /\ hand' = hand
    BY <1>3, DevEventFacts, RaisesFacts DEF Fresh, Virgin, hostVars
  <2> QED
    BY <2>1 DEF Fresh, Virgin
<1>4. ASSUME NEW lost \in BOOLEAN, FrameEnd(lost)
      PROVE  Fresh'
  BY <1>4, FrameEndFacts DEF Fresh, Virgin, None
<1>5. CASE CpuFault
  <2>1. DevKept /\ Ready' = Ready \cup {"CPUFAULT"} /\ hand' = hand
    BY <1>5, CpuFaultFacts DEF hostVars
  <2> QED
    BY <2>1 DEF Fresh, Virgin, DevKept
<1> QED
  BY <1>1, <1>2, <1>3, <1>4, <1>5, EnvFacts DEF EnvStep, DevStep

\* The flag of the power-up event is set by that of a fresh device.
LEMMA SweptEnv ==
  ASSUME TypeOK, BootInv, EnvStep, AtSwept
  PROVE  AtSwept'
<1>1. ("initComp" \in flags' /\ "initComp" \notin flags) => HandleEvent /\ hand = "POWERUP"
  <2>1. CASE HandleEvent
    BY <2>1, HandleFacts, RaisesFacts, Names
  <2>2. CASE ReadEvent
    BY <2>2, ReadFacts
  <2>3. CASE DevStep \/ CpuFault
    BY <2>3 DEF DevStep, DevEvent, FrameEnd, CpuFault, hostVars
  <2> QED
    BY <2>1, <2>2, <2>3, EnvFacts DEF EnvStep, AtSwept
<1>2. "initComp" \in flags /\ "initComp" \in flags' => Fresh'
  BY FreshEnv DEF AtSwept
<1>3. HandleEvent /\ hand = "POWERUP" => Fresh'
  BY HandleFacts DEF BootInv, Pending, Fresh, Virgin
<1> QED
  BY <1>1, <1>2, <1>3, EnvFacts DEF AtSwept, Steady

\* No calibration is announced that was not asked for.
LEMMA NoCalibEnv ==
  ASSUME TypeOK, EnvStep, NoCalib, Steady
  PROVE  NoCalib' /\ (Notified' => Notified)
<1>1. CASE ReadEvent
  <2>1. DevKept /\ (Pending("INITCALIB")' <=> Pending("INITCALIB")) /\ flags' = flags
    BY <1>1, ReadFacts, Names
  <2> QED
    BY <2>1 DEF NoCalib, Notified, DevKept
<1>2. CASE HandleEvent
  <2>1. hand # "INITCALIB" /\ hand' = None /\ dev' = dev /\ Ready' = Ready
    BY <1>2, HandleFacts DEF NoCalib, Pending
  <2>2. "rfInitComp" \in flags' => "rfInitComp" \in flags
    BY <1>2, <2>1, HandleFacts, RaisesFacts, Names
  <2> QED
    BY <2>1, <2>2 DEF NoCalib, Notified, Pending, None
<1>3. ASSUME NEW m, NEW lost \in BOOLEAN, DevEvent(m, lost)
      PROVE  NoCalib' /\ (Notified' => Notified)
  <2>1. /\ m \in DOMAIN Announces /\ m \in dev.busy /\ dev'.busy = dev.busy \ {m}
        /\ Ready' = Ready \/ Ready' = Ready \cup {Announces[m]}
        /\ UNCHANGED <<flags, hand>>
    BY <1>3, DevEventFacts DEF hostVars
  <2>2. Announces[m] # "INITCALIB"
    BY <2>1, RaisesFacts, Names DEF NoCalib
  <2> QED
    BY <2>1, <2>2 DEF NoCalib, Notified, Pending
<1>4. ASSUME NEW lost \in BOOLEAN, FrameEnd(lost)
      PROVE  NoCalib' /\ (Notified' => Notified)
  BY <1>4, FrameEndFacts DEF NoCalib, Notified, Pending, hostVars
<1>5. CASE CpuFault
  BY <1>5, CpuFaultFacts DEF NoCalib, Notified, Pending, hostVars, DevKept
<1> QED
  BY <1>1, <1>2, <1>3, <1>4, <1>5, EnvFacts DEF EnvStep, DevStep

\* The event of the restored calibration comes once, unless it is lost.
LEMMA OneCalibEnv ==
  ASSUME TypeOK, EnvStep, OneCalib, Steady, regular'
  PROVE  OneCalib'
<1>0. dev.out \in Seq(Events)
  BY DEF TypeOK, Devices
<1>1. CASE ReadEvent
  <2>1. /\ DevKept /\ (Pending("INITCALIB")' <=> Pending("INITCALIB")) /\ flags' = flags
        /\ hand' = Head(dev.out) /\ dev'.out = Tail(dev.out) /\ dev.out # <<>>
    BY <1>1, ReadFacts, Names
  <2>2. Once(dev.out, "INITCALIB") =>
          Once(dev'.out, "INITCALIB") /\ (hand' = "INITCALIB" => "INITCALIB" \notin Ready')
    BY <1>0, <2>1, OutOfLine DEF Ready
  <2> QED
    BY <2>1, <2>2 DEF OneCalib, NoCalib, Notified, DevKept
<1>2. CASE HandleEvent
  <2>1. /\ hand \in Events \ {"CPUFAULT"} /\ hand' = None /\ dev' = dev /\ Ready' = Ready
        /\ hand = "END" => flags' = flags \ {"sensorStarted"}
        /\ hand # "END" => flags' = flags \cup {Raises[hand]}
    BY <1>2, HandleFacts
  <2>2. CASE hand = "INITCALIB"
    <3>1. "rfInitComp" \in flags'
      BY <2>1, <2>2, RaisesFacts
    <3> QED
      BY <2>1, <2>2, <3>1 DEF OneCalib, NoCalib, Notified, Pending, None
  <2>3. CASE hand # "INITCALIB"
    <3>1. "rfInitComp" \in flags' <=> "rfInitComp" \in flags
      BY <2>1, <2>3, RaisesFacts, Names
    <3> QED
      BY <2>1, <2>3, <3>1 DEF OneCalib, NoCalib, Notified, Pending, None
  <2> QED
    BY <2>2, <2>3
<1>3. ASSUME NEW m, NEW lost \in BOOLEAN, DevEvent(m, lost)
      PROVE  OneCalib'
  <2>1. /\ m \in DOMAIN Announces /\ m \in dev.busy /\ dev'.busy = dev.busy \ {m}
        /\ Announces[m] \in Events /\ dev'.out = Append(dev.out, Announces[m])
        /\ Ready' = Ready \cup {Announces[m]} /\ UNCHANGED <<flags, hand>>
    BY <1>3, DevEventFacts DEF hostVars
  <2>2. Once(dev.out, "INITCALIB") /\ (Announces[m] = "INITCALIB" => "INITCALIB" \notin Ready)
          => Once(dev'.out, "INITCALIB")
    BY <1>0, <2>1, InLine DEF Ready
  <2>3. CASE m = "calibRestore"
    <3>1. Announces[m] = "INITCALIB"
      BY <2>3, RaisesFacts
    <3> QED
      BY <2>1, <2>2, <2>3, <3>1 DEF OneCalib, NoCalib, Notified, Pending
  <2>4. CASE m # "calibRestore"
    <3>1. Announces[m] # "INITCALIB"
      BY <2>1, <2>4, RaisesFacts, Names DEF OneCalib
    <3> QED
      BY <2>1, <2>2, <2>4, <3>1 DEF OneCalib, NoCalib, Notified, Pending
  <2> QED
    BY <2>3, <2>4
<1>4. ASSUME NEW lost \in BOOLEAN, FrameEnd(lost)
      PROVE  OneCalib'
  <2>1. /\ dev'.busy = dev.busy /\ dev'.out = Append(dev.out, "END")
        /\ Ready' = Ready \cup {"END"} /\ UNCHANGED <<flags, hand>>
    BY <1>4, FrameEndFacts DEF hostVars
  <2>2. Once(dev.out, "INITCALIB") => Once(dev'.out, "INITCALIB")
    BY <1>0, <2>1, InLine, Names
  <2> QED
    BY <2>1, <2>2 DEF OneCalib, NoCalib, Notified, Pending
<1> QED
  BY <1>1, <1>2, <1>3, <1>4, EnvFacts, CpuFaultFacts DEF EnvStep, DevStep

\* A device that says it is calibrated is.
LEMMA CalibEnv ==
  ASSUME TypeOK, EnvStep, Steady, "calibRestore" \notin dev.busy,
         Notified \/ Pending("INITCALIB") => dev.calibrated
  PROVE  /\ "calibRestore" \notin dev'.busy
         /\ Notified' \/ Pending("INITCALIB")' => dev'.calibrated
<1>1. CASE ReadEvent
  <2>1. DevKept /\ (Pending("INITCALIB")' <=> Pending("INITCALIB")) /\ flags' = flags
    BY <1>1, ReadFacts, Names
  <2> QED
    BY <2>1 DEF Notified, DevKept
<1>2. CASE HandleEvent
  <2>1. hand' = None /\ dev' = dev /\ Ready' = Ready
    BY <1>2, HandleFacts
  <2>2. "rfInitComp" \in flags' => "rfInitComp" \in flags \/ hand = "INITCALIB"
    BY <1>2, HandleFacts, RaisesFacts, Names
  <2> QED
    BY <2>1, <2>2 DEF Notified, Pending, None
<1>3. ASSUME NEW m, NEW lost \in BOOLEAN, DevEvent(m, lost)
      PROVE  /\ "calibRestore" \notin dev'.busy
             /\ Notified' \/ Pending("INITCALIB")' => dev'.calibrated
  <2>1. /\ m \in DOMAIN Announces /\ m \in dev.busy /\ dev'.busy = dev.busy \ {m}
        /\ Ready' = Ready \/ Ready' = Ready \cup {Announces[m]}
        /\ dev'.calibrated = (dev.calibrated \/ m = "rfInit")
        /\ UNCHANGED <<flags, hand>>
    BY <1>3, DevEventFacts DEF hostVars
  <2>2. Announces[m] = "INITCALIB" => m = "rfInit"
    BY <2>1, RaisesFacts, Names
  <2> QED
    BY <2>1, <2>2 DEF Notified, Pending
<1>4. ASSUME NEW lost \in BOOLEAN, FrameEnd(lost)
      PROVE  /\ "calibRestore" \notin dev'.busy
             /\ Notified' \/ Pending("INITCALIB")' => dev'.calibrated
  BY <1>4, FrameEndFacts DEF Notified, Pending, hostVars
<1>5. CASE CpuFault
  BY <1>5, CpuFaultFacts DEF Notified, Pending, hostVars, DevKept
<1> QED
  BY <1>1, <1>2, <1>3, <1>4, <1>5, EnvFacts DEF EnvStep, DevStep

\* The calibration asked for is announced, unless the event is lost.
LEMMA ToldEnv ==
  ASSUME TypeOK, EnvStep, regular',
         Notified \/ Pending("INITCALIB") \/ "rfInit" \in dev.busy
  PROVE  Notified' \/ Pending("INITCALIB")' \/ "rfInit" \in dev'.busy
<1>1. CASE ReadEvent
  <2>1. DevKept /\ (Pending("INITCALIB")' <=> Pending("INITCALIB")) /\ flags' = flags
    BY <1>1, ReadFacts, Names
  <2> QED
    BY <2>1 DEF Notified, DevKept
<1>2. CASE HandleEvent
  <2>1. hand' = None /\ dev' = dev /\ Ready' = Ready
    BY <1>2, HandleFacts
  <2>2. "rfInitComp" \in flags \/ hand = "INITCALIB" => "rfInitComp" \in flags'
    BY <1>2, HandleFacts, RaisesFacts
  <2> QED
    BY <2>1, <2>2 DEF Notified, Pending
<1>3. ASSUME NEW m, NEW lost \in BOOLEAN, DevEvent(m, lost)
      PROVE  Notified' \/ Pending("INITCALIB")' \/ "rfInit" \in dev'.busy
  <2>1. /\ dev'.busy = dev.busy \ {m} /\ Ready' = Ready \cup {Announces[m]}
        /\ UNCHANGED <<flags, hand>>
    BY <1>3, DevEventFacts DEF hostVars
  <2>2. m = "rfInit" => Announces[m] = "INITCALIB"
    BY RaisesFacts
  <2> QED
    BY <2>1, <2>2 DEF Notified, Pending
<1>4. ASSUME NEW lost \in BOOLEAN, FrameEnd(lost)
      PROVE  Notified' \/ Pending("INITCALIB")' \/ "rfInit" \in dev'.busy
  BY <1>4, FrameEndFacts DEF Notified, Pending, hostVars
<1>5. CASE StrayStep
  <2>1. PICK e \in stray, read \in BOOLEAN : HandleStray(e, read)
    BY <1>5 DEF StrayStep
  <2>2. UNCHANGED <<hand, dev>> /\ ("rfInitComp" \in flags => "rfInitComp" \in flags')
    BY <2>1, StrayFacts DEF HandleStray, AfterEvent
  <2> QED
    BY <2>2 DEF Notified, Pending, Ready
<1> QED
  BY <1>1, <1>2, <1>3, <1>4, <1>5, CpuFaultFacts DEF EnvStep, DevStep

\* Each point stays true.
LEMMA GoodEnv ==
  ASSUME TypeOK, BootInv, EnvStep, NEW p \in Points, Good(p)
  PROVE  Good(p)'
<1>0. /\ UNCHANGED <<appVars, args, linkUp, missed, unheard>>
      /\ regular' => regular
      /\ stray' \subseteq stray
      /\ dev'.rf = dev.rf /\ (dev.calibrated => dev'.calibrated)
  BY EnvFacts
<1>1. /\ Steady => Steady'
      /\ Kept({}) => Kept({})'
      /\ Kept({"rfInit"}) => Kept({"rfInit"})'
      /\ HasRf => HasRf'
      /\ Certain' => Certain
  BY <1>0 DEF Steady, Kept, HasRf, Certain, Overwritten
<1>2. (Started => Started') /\ (Tried => Tried')
  BY <1>0, <1>1 DEF Started, Tried, appVars
<1>3. CASE p = "start" \/ p = "reset"
  BY <1>0, <1>1, <1>3, GoodIs, GoodWillBe DEF AtStart, AtReset
<1>4. CASE p = "swept"
  BY <1>4, SweptEnv, GoodIs, GoodWillBe
<1>5. CASE p = "fresh"
  <2>1. AtFresh
    BY <1>5, GoodIs
  <2>2. AtFresh'
    BY <1>1, <2>1, FreshEnv DEF AtFresh
  <2> QED
    BY <1>5, <2>2, GoodWillBe
<1>6. CASE p = "rf"
  <2>1. AtRf
    BY <1>6, GoodIs
  <2>2. AtRf'
    BY <1>1, <1>2, <2>1, NoCalibEnv DEF AtRf, Started
  <2> QED
    BY <1>6, <2>2, GoodWillBe
<1>7. CASE p = "clean"
  <2>1. AtClean
    BY <1>7, GoodIs
  <2>2. AtClean'
    BY <1>1, <1>2, <2>1, NoCalibEnv DEF AtClean, Started
  <2> QED
    BY <1>7, <2>2, GoodWillBe
<1>8. CASE p = "restore"
  <2>1. AtRestore
    BY <1>8, GoodIs
  <2>2. AtRestore'
    BY <1>0, <1>2, <2>1, OneCalibEnv DEF AtRestore, Started
  <2> QED
    BY <1>8, <2>2, GoodWillBe
<1>9. CASE p = "calib"
  <2>1. AtCalib
    BY <1>9, GoodIs
  <2>2. Certain' => /\ "calibRestore" \notin dev'.busy
                    /\ Notified' \/ Pending("INITCALIB")' => dev'.calibrated
    BY <1>1, <2>1, CalibEnv DEF AtCalib
  <2>3. regular' /\ "rfInit" \notin missed' =>
          linkUp' /\ (Notified' \/ Pending("INITCALIB")' \/ "rfInit" \in dev'.busy)
    BY <1>0, <2>1, ToldEnv DEF AtCalib
  <2>4. AtCalib'
    BY <1>1, <1>2, <2>1, <2>2, <2>3 DEF AtCalib
  <2> QED
    BY <1>9, <2>4, GoodWillBe
<1>10. CASE p = "waited"
  <2>1. AtWaited
    BY <1>10, GoodIs
  <2>2. AtWaited'
    BY <1>0, <1>2, <2>1 DEF AtWaited, appVars
  <2> QED
    BY <1>10, <2>2, GoodWillBe
<1>11. CASE p = "done"
  <2>1. AtDone
    BY <1>11, GoodIs
  <2>2. AtDone'
    BY <1>0, <1>1, <2>1 DEF AtDone, Overwritten
  <2> QED
    BY <1>11, <2>2, GoodWillBe
<1> QED
  BY <1>3, <1>4, <1>5, <1>6, <1>7, <1>8, <1>9, <1>10, <1>11 DEF Points

-----------------------------------------------------------------------------
(***************************************************************************)
(* The steps of an init take it from point to point.                       *)
(***************************************************************************)
\* A command is carried out, or is missed.
LEMMA CmdOutcome ==
  ASSUME TypeOK, CmdStep, call = "init"
  PROVE  \/ dev' = dev /\ missed' = missed \cup Arg
         \/ /\ dev' = Executed(Arg) /\ missed' = missed /\ ~Refuses(Arg)
            /\ linkUp /\ hand = None /\ dev.out = <<>>
<1>1. CASE CmdNoLink \/ CmdRefused \/ CmdSilent \/ CmdMistaken
  BY <1>1 DEF CmdNoLink, CmdRefused, CmdSilent, CmdMistaken, NotExecuted
<1>2. CASE CmdDone
  BY <1>2 DEF CmdDone, Heard, histVars
<1>3. ASSUME NEW executed \in BOOLEAN, CmdUnheard(executed)
      PROVE  \/ dev' = dev /\ missed' = missed \cup Arg
             \/ /\ dev' = Executed(Arg) /\ missed' = missed /\ ~Refuses(Arg)
                /\ linkUp /\ hand = None /\ dev.out = <<>>
  BY <1>3 DEF CmdUnheard, Heard, NotExecuted
<1> QED
  BY <1>1, <1>2, <1>3 DEF CmdStep

\* What the point depends on, under a command that is not the core's reset.
LEMMA CmdKeeps ==
  ASSUME TypeOK, CmdStep, call = "init", "coreReset" \notin Arg,
         Arg \cap {"frameStart", "frameStop"} = {}
  PROVE  /\ UNCHANGED <<flags, args, linkUp, hand, stray>> /\ Ready' = Ready
         /\ dev'.tx = dev.tx /\ dev'.calibrated = dev.calibrated
         /\ dev'.rf = dev.rf \/ (dev'.rf /\ "rfStart" \in Arg)
         /\ dev.rf => dev'.rf
         /\ dev'.busy = dev.busy \/ dev'.busy = dev.busy \cup (Arg \cap DOMAIN Announces)
         /\ missed \subseteq missed' /\ missed' \subseteq missed \cup Arg
         /\ unheard => unheard'
         /\ regular' => regular /\ unheard' = unheard
         /\ Certain' => Certain
<1>1. UNCHANGED <<flags, args, linkUp, hand, stray>>
  BY CmdFacts DEF hostVars
<1>2. /\ missed \subseteq missed' /\ missed' \subseteq missed \cup Arg
      /\ unheard => unheard'
      /\ regular' => regular /\ unheard' = unheard
  BY CmdFacts, CmdOutcome
<1>3. Certain' => Certain
  BY <1>1, <1>2 DEF Certain
<1>4. CASE dev' = dev
  BY <1>1, <1>2, <1>3, <1>4 DEF Ready
<1>5. CASE dev' # dev
  <2>1. dev' = Executed(Arg) /\ Arg \in SUBSET Commands
    BY <1>5, CmdFacts
  <2>2. /\ dev'.rf = (dev.rf \/ "rfStart" \in Arg) /\ dev'.calibrated = dev.calibrated
        /\ dev'.busy = dev.busy \cup (Arg \cap DOMAIN Announces)
        /\ dev'.out = dev.out /\ dev'.tx = dev.tx
    BY <2>1, ExecutedFacts
  <2>3. Ready' = Ready
    BY <2>2 DEF Ready
  <2>4. dev.rf \in BOOLEAN
    BY DEF TypeOK, Devices
  <2> QED
    BY <1>1, <1>2, <1>3, <2>2, <2>3, <2>4
<1> QED
  BY <1>4, <1>5

\* Commands that no point is about.
LEMMA CmdPlain ==
  ASSUME TypeOK, CmdStep, call = "init", Arg \cap Major = {},
         NEW p \in {"fresh", "rf", "clean", "done"}, Good(p),
         ret' = "ok" \/ Arg \subseteq Overwritten
  PROVE  Good(p)'
<1>1. /\ "coreReset" \notin Arg /\ Arg \cap {"frameStart", "frameStop"} = {}
      /\ "rfStart" \notin Arg /\ "rfInit" \notin Arg
      /\ Arg \cap DOMAIN Announces = {}
  BY Names DEF Major
<1>2. /\ UNCHANGED <<flags, args, linkUp, hand, stray>> /\ Ready' = Ready
      /\ dev'.tx = dev.tx /\ dev'.calibrated = dev.calibrated /\ dev'.rf = dev.rf
      /\ dev'.busy = dev.busy
      /\ missed \subseteq missed' /\ missed' \subseteq missed \cup Arg
      /\ unheard => unheard'
      /\ regular' => regular /\ unheard' = unheard
      /\ Certain' => Certain
  BY <1>1, CmdKeeps
<1>3. unheard' \/ missed' \subseteq missed \cup Overwritten
  BY <1>1, <1>2, CmdFacts
<1>4. (Kept({}) => Kept({})') /\ (Steady => Steady') /\ (HasRf => HasRf')
  BY <1>2, <1>3 DEF Kept, Steady, HasRf, Overwritten
<1>5. (Fresh => Fresh') /\ (NoCalib => NoCalib') /\ (Notified' => Notified)
  BY <1>2 DEF Fresh, Virgin, NoCalib, Pending, Notified
<1>6. CASE p = "fresh"
  <2>1. AtFresh'
    BY <1>4, <1>5, <1>6, GoodIs DEF AtFresh
  <2> QED
    BY <1>6, <2>1, GoodWillBe
<1>7. CASE p = "rf"
  <2>1. AtRf'
    BY <1>2, <1>4, <1>5, <1>7, GoodIs DEF AtRf, Started
  <2> QED
    BY <1>7, <2>1, GoodWillBe
<1>8. CASE p = "clean"
  <2>1. AtClean'
    BY <1>2, <1>4, <1>5, <1>8, GoodIs DEF AtClean, Started
  <2> QED
    BY <1>8, <2>1, GoodWillBe
<1>9. CASE p = "done"
  <2>1. AtDone
    BY <1>9, GoodIs
  <2>2. AtDone'
    BY <1>1, <1>2, <1>3, <2>1 DEF AtDone, Overwritten
  <2> QED
    BY <1>9, <2>2, GoodWillBe
<1> QED
  BY <1>6, <1>7, <1>8, <1>9

\* The core's reset.
LEMMA CmdCoreReset ==
  ASSUME TypeOK, CmdStep, call = "init", Arg = {"coreReset"}, Good("fresh")
  PROVE  Good("fresh")'
<1>1. AtFresh
  BY GoodIs
<1>2. UNCHANGED <<hand, stray>> /\ missed' \subseteq missed \cup {"coreReset"} /\ (unheard => unheard')
  BY CmdFacts DEF hostVars
<1>3. dev' = dev \/ dev' = Booting
  BY CmdOutcome, ExecutedFacts, CmdFacts
<1>4. Fresh'
  BY <1>1, <1>2, <1>3, BootingVirgin DEF AtFresh, Fresh, Virgin, Ready
<1>5. AtFresh'
  BY <1>1, <1>2, <1>4 DEF AtFresh, Kept, Steady, Overwritten
<1> QED
  BY <1>5, GoodWillBe

\* The start of the RF subsystem, and its calibrations.
LEMMA CmdRfStart ==
  ASSUME TypeOK, CmdStep, call = "init", Arg = {"rfStart"}, Good("fresh"), ret' = "ok"
  PROVE  Good("rf")'
<1>1. AtFresh
  BY GoodIs
<1>2. /\ UNCHANGED <<flags, hand, stray>> /\ Ready' = Ready
      /\ dev'.busy \subseteq dev.busy \cup {"rfStart"}
      /\ unheard => unheard'
  BY CmdKeeps
<1>3. \/ unheard'
      \/ missed' = missed /\ dev'.rf
  <2>1. unheard' \/ (dev' = Executed(Arg) /\ missed' = missed)
    BY CmdFacts
  <2>2. dev' = Executed(Arg) => dev'.rf
    BY ExecutedFacts, CmdFacts
  <2> QED
    BY <2>1, <2>2
<1>4. Started'
  BY <1>1, <1>2, <1>3 DEF AtFresh, Started, Kept, Steady, HasRf
<1>5. NoCalib'
  BY <1>1, <1>2 DEF AtFresh, Fresh, Virgin, NoCalib, Pending, None
<1>6. AtRf'
  BY <1>4, <1>5 DEF AtRf
<1> QED
  BY <1>6, GoodWillBe

LEMMA CmdCalibRestore ==
  ASSUME TypeOK, CalmInv, CmdStep, call = "init", Arg = {"calibRestore"}, args.Calib = "restore",
         Good("clean"), ret' = "ok"
  PROVE  Good("restore")'
<1>1. AtClean
  BY GoodIs
<1>2. /\ UNCHANGED <<flags, args, hand, stray, linkUp>> /\ (dev.rf => dev'.rf)
      /\ unheard => unheard'
      /\ regular' => regular /\ unheard' = unheard
  BY CmdKeeps
<1>3. \/ unheard'
      \/ /\ missed' = missed /\ dev' = Executed(Arg)
         /\ linkUp /\ hand = None /\ dev.out = <<>>
  BY CmdFacts
<1>4. Started'
  BY <1>1, <1>2, <1>3 DEF AtClean, Started, Kept, Steady, HasRf
<1>5. ASSUME regular'
      PROVE  linkUp' /\ OneCalib'
  <2>1. /\ regular /\ dev' = Executed(Arg) /\ linkUp /\ hand = None /\ dev.out = <<>>
    BY <1>2, <1>3, <1>5 DEF CalmInv
  <2>2. dev'.out = <<>> /\ dev'.busy = dev.busy \cup {"calibRestore"}
    BY <2>1, ExecutedFacts, CmdFacts, Names
  <2>3. NoCalib /\ ~Notified
    BY <1>1, <2>1 DEF AtClean, Certain
  <2>4. Ready' = {} /\ hand' = None /\ Once(dev'.out, "INITCALIB")
    BY <1>2, <2>1, <2>2, NoneInLine DEF Ready
  <2> QED
    BY <1>2, <2>1, <2>2, <2>3, <2>4 DEF NoCalib, Notified, OneCalib, Pending, None
<1>6. AtRestore'
  BY <1>2, <1>4, <1>5 DEF AtRestore
<1> QED
  BY <1>6, GoodWillBe

LEMMA CmdRfInit ==
  ASSUME TypeOK, CalmInv, CmdStep, call = "init", Arg = {"rfInit"}, Good("clean")
  PROVE  Good("calib")'
<1>1. AtClean
  BY GoodIs
<1>2. /\ UNCHANGED <<flags, args, hand, stray, linkUp>> /\ (dev.rf => dev'.rf) /\ Ready' = Ready
      /\ dev'.busy \subseteq dev.busy \cup {"rfInit"}
      /\ missed' \subseteq missed \cup {"rfInit"}
      /\ unheard => unheard'
      /\ regular' => regular /\ unheard' = unheard
      /\ Certain' => Certain
  BY CmdKeeps
<1>3. Kept({"rfInit"})' /\ HasRf' /\ Steady'
  BY <1>1, <1>2 DEF AtClean, Started, Kept, HasRf, Steady
<1>4. "rfInit" \in missed' => ret' # "ok" \/ unheard'
  <2>1. unheard' \/ ret' # "ok" \/ missed' = missed
    BY CmdFacts
  <2>2. "rfInit" \in missed => unheard'
    BY <1>1, <1>2 DEF AtClean, Started, Kept, Overwritten
  <2> QED
    BY <2>1, <2>2
<1>5. ASSUME Certain'
      PROVE  /\ "calibRestore" \notin dev'.busy
             /\ Notified' \/ Pending("INITCALIB")' => dev'.calibrated
  BY <1>1, <1>2, <1>5 DEF AtClean, NoCalib, Notified, Pending
<1>6. ASSUME regular', "rfInit" \notin missed'
      PROVE  linkUp' /\ "rfInit" \in dev'.busy
  <2>1. dev' = Executed(Arg) /\ linkUp
    BY <1>6, CmdOutcome
  <2> QED
    BY <1>2, <2>1, ExecutedFacts, CmdFacts, Names
<1>7. AtCalib'
  BY <1>3, <1>4, <1>5, <1>6 DEF AtCalib, Tried
<1> QED
  BY <1>7, GoodWillBe

\* The commands that store the calibration data.
LEMMA CmdStore ==
  ASSUME TypeOK, CmdStep, call = "init", Arg \cap Major = {}, args.Calib = "store",
         Good("waited"), ret' = "ok"
  PROVE  Good("done")'
<1>1. AtWaited
  BY GoodIs
<1>2. /\ "coreReset" \notin Arg /\ Arg \cap {"frameStart", "frameStop"} = {}
      /\ "rfInit" \notin Arg
  BY DEF Major
<1>3. /\ args' = args /\ dev'.calibrated = dev.calibrated /\ (dev.rf => dev'.rf)
      /\ unheard => unheard'
      /\ regular' => regular
  BY <1>2, CmdKeeps
<1>4. unheard' \/ missed' = missed
  BY <1>2, CmdFacts
<1>5. AtDone'
  <2> SUFFICES ASSUME ~unheard'
               PROVE  /\ missed' \subseteq Overwritten \cup {"rfInit"}
                      /\ dev'.rf
                      /\ Certain' => dev'.calibrated \/ "rfInit" \in missed'
    BY <1>3 DEF AtDone, Overwritten
  <2>1. missed' = missed /\ missed \subseteq Overwritten \cup {"rfInit"} /\ dev'.rf
    BY <1>1, <1>3, <1>4 DEF AtWaited, Tried, Kept, HasRf
  <2> QED
    BY <1>1, <1>3, <2>1 DEF AtWaited, Certain
<1> QED
  BY <1>5, GoodWillBe

\* The points a step leads to.
LEMMA LabelledNext ==
  /\ \A p : /\ Holds(Sure(p))' <=> Good(p)'
            /\ Holds(IfOk(p))' <=> Good(p)' \/ ret' # "ok"
  /\ \A a \in Labels : Holds(a)' <=> Good(a[1])' \/ (a[2] = FALSE /\ ret' # "ok")
<1>1. \A p : Sure(p)[1] = p /\ Sure(p)[2] = TRUE /\ IfOk(p)[1] = p /\ IfOk(p)[2] = FALSE
  BY Labelled
<1>2. \A a : Holds(a)' <=> Good(a[1])' \/ (a[2] = FALSE /\ ret' # "ok")
  BY DEF Holds
<1> QED
  BY <1>1, <1>2

\* A command of an init.
LEMMA CmdReaches ==
  ASSUME TypeOK, CalmInv, CmdStep, call = "init", NEW a \in Labels, NEW d \in Labels,
         Leads(args.Calib, a, Head(todo), d), Holds(a)
  PROVE  Holds(d)'
<1>1. Head(todo).do = "cmd" /\ Head(todo).arg = Arg
  BY CmdFacts DEF Arg
<1>2. CASE Arg = {"coreReset"} /\ a = Sure("fresh") /\ d = a
  BY <1>2, CmdCoreReset, Labelled, LabelledNext
<1>3. CASE /\ Arg \cap Major = {} /\ a[2] = TRUE /\ a[1] \in {"fresh", "rf", "clean", "done"}
           /\ d = IfOk(a[1]) \/ (d = a /\ Arg \subseteq Overwritten)
  <2>1. Good(a[1])
    BY <1>3 DEF Holds
  <2>2. ret' = "ok" \/ Arg \subseteq Overwritten => Good(a[1])'
    BY <1>3, <2>1, CmdPlain
  <2>3. CASE d = IfOk(a[1])
    BY <2>2, <2>3, LabelledNext
  <2>4. CASE d = a /\ Arg \subseteq Overwritten
    BY <2>2, <2>4, LabelledNext
  <2> QED
    BY <1>3, <2>3, <2>4
<1>4. CASE Arg = {"rfStart"} /\ a = Sure("fresh") /\ d = IfOk("rf")
  BY <1>4, CmdRfStart, Labelled, LabelledNext
<1>5. CASE /\ Arg = {"calibRestore"} /\ args.Calib = "restore"
           /\ a = Sure("clean") /\ d = IfOk("restore")
  BY <1>5, CmdCalibRestore, Labelled, LabelledNext
<1>6. CASE Arg = {"rfInit"} /\ a = Sure("clean") /\ d = Sure("calib")
  BY <1>6, CmdRfInit, Labelled, LabelledNext
<1>7. CASE Arg \cap Major = {} /\ args.Calib = "store" /\ a = Sure("waited") /\ d = IfOk("done")
  BY <1>7, CmdStore, Labelled, LabelledNext
<1>8. \/ Arg = {"coreReset"} /\ a = Sure("fresh") /\ d = a
      \/ /\ Arg \cap Major = {} /\ a[2] = TRUE /\ a[1] \in {"fresh", "rf", "clean", "done"}
         /\ d = IfOk(a[1]) \/ (d = a /\ Arg \subseteq Overwritten)
      \/ Arg = {"rfStart"} /\ a = Sure("fresh") /\ d = IfOk("rf")
      \/ /\ Arg = {"calibRestore"} /\ args.Calib = "restore"
         /\ a = Sure("clean") /\ d = IfOk("restore")
      \/ Arg = {"rfInit"} /\ a = Sure("clean") /\ d = Sure("calib")
      \/ Arg \cap Major = {} /\ args.Calib = "store" /\ a = Sure("waited") /\ d = IfOk("done")
  <2>1. Leads(args.Calib, a, Head(todo), d) /\ Head(todo).do = "cmd"
    BY <1>1
  <2> QED
    BY <2>1, LeadsCmd DEF Arg
<1> QED
  BY <1>2, <1>3, <1>4, <1>5, <1>6, <1>7, <1>8

\* A step that leaves all but the flags alone.
LEMMA StillGood ==
  ASSUME UNCHANGED <<dev, hand, stray, missed, unheard, args>>, regular' => regular
  PROVE  /\ AtFresh => AtFresh'
         /\ AtRf => AtRf'
         /\ Tried => (ret' = ret \/ ret' # "ok" => Tried')
<1>1. /\ (Fresh => Fresh') /\ (NoCalib => NoCalib') /\ (Steady => Steady')
      /\ Kept({}) => Kept({})'
  BY DEF Fresh, Virgin, NoCalib, Pending, Ready, Steady, Kept, Overwritten
<1>2. /\ (Started => Started') /\ (Certain' => Certain)
  BY <1>1 DEF Started, HasRf, Certain
<1>3. Tried => (ret' = ret \/ ret' # "ok" => Tried')
  BY DEF Tried, Kept, HasRf, Overwritten
<1> QED
  BY <1>1, <1>2, <1>3 DEF AtFresh, AtRf

\* A wait of an init.
LEMMA WaitReaches ==
  ASSUME TypeOK, CalmInv, WaitSeen \/ WaitTimeout, call = "init", NEW a \in Labels, NEW d \in Labels,
         Leads(args.Calib, a, Head(todo), d), Holds(a)
  PROVE  Holds(d)'
<1>1. Head(todo).do \in {"wait", "waitok"} /\ Head(todo).arg = Arg
  BY StepKinds, LeadsKinds DEF At, Arg
<1>2. /\ UNCHANGED <<dev, hand, stray, missed, unheard, args, linkUp, flags>>
      /\ regular' => regular
      /\ WaitSeen => ret' = ret
      /\ WaitTimeout => ret' = "timeout"
  <2>1. WaitSeen => /\ UNCHANGED <<dev, hand, stray, missed, unheard, args, linkUp, flags>>
                    /\ regular' = regular /\ ret' = ret
    BY DEF WaitSeen, Go, hostVars, histVars
  <2>2. WaitTimeout => /\ UNCHANGED <<dev, hand, stray, missed, unheard, args, linkUp, flags>>
                       /\ (regular' => regular) /\ ret' = "timeout"
    BY TimeoutFacts DEF hostVars, Go
  <2> QED
    BY <2>1, <2>2
<1>3. Head(todo).do = "wait" /\ WaitSeen => Arg \subseteq flags
  BY DEF WaitSeen, At
<1>4. /\ AtFresh => AtFresh'
      /\ AtRf => AtRf'
      /\ Tried => Tried'
  BY <1>2, StillGood
<1>5. Head(todo).do = "wait" => At("wait")
  BY StepKinds DEF At
<1>6. CASE /\ Arg = {"initComp"} /\ Head(todo).do = "wait"
           /\ a = IfOk("swept") /\ d = IfOk("fresh")
  <2>1. CASE ret' # "ok"
    BY <1>6, <2>1, LabelledNext
  <2>2. CASE ret' = "ok"
    <3>1. WaitSeen /\ ret = "ok" /\ "initComp" \in flags
      BY <1>2, <1>3, <1>6, <2>2
    <3>2. AtSwept
      BY <1>6, <3>1, Labelled, GoodIs
    <3>3. AtFresh
      BY <3>1, <3>2 DEF AtSwept, AtFresh, Kept
    <3> QED
      BY <1>4, <1>6, <3>3, LabelledNext, GoodWillBe
  <2> QED
    BY <2>1, <2>2
<1>7. CASE /\ Arg = {"initComp"} /\ a[1] = "fresh" /\ d = IfOk("fresh")
  <2>1. ret' = "ok" => AtFresh
    BY <1>2, <1>7, GoodIs DEF Holds
  <2> QED
    BY <1>4, <1>7, <2>1, LabelledNext, GoodWillBe
<1>8. CASE a = IfOk("rf") /\ d = a
  <2>1. ret' = "ok" => AtRf
    BY <1>2, <1>8, Labelled, GoodIs
  <2> QED
    BY <1>4, <1>8, <2>1, LabelledNext, GoodWillBe
<1>9. CASE /\ Arg = {"rfInitComp"} /\ Head(todo).do = "wait" /\ args.Calib = "restore"
           /\ a = Sure("restore") /\ d = Sure("rf")
  <2>1. AtRestore
    BY <1>9, Labelled, GoodIs
  <2>2. regular' => Notified
    <3>1. CASE WaitSeen
      BY <1>3, <1>9, <3>1 DEF Notified
    <3>2. CASE WaitTimeout
      <4> SUFFICES ASSUME regular', ~Notified
                   PROVE  FALSE
        OBVIOUS
      <4>1. regular /\ linkUp /\ ("calibRestore" \in dev.busy \/ Pending("INITCALIB"))
        BY <1>2, <2>1 DEF AtRestore, OneCalib
      <4>2. "INITCALIB" \in DOMAIN Raises
        BY DEF Raises
      <4>3. Coming("INITCALIB")
        BY <4>1, <4>2, ComingFacts, RaisesFacts
      <4> QED
        BY <1>5, <1>9, <3>2, <4>2, <4>3, TimeoutFacts, RaisesFacts
    <3> QED
      BY <3>1, <3>2
  <2>3. Started' /\ (Certain' => NoCalib')
    <3>1. Started'
      BY <1>2, <2>1 DEF AtRestore, Started, Kept, Steady, HasRf, Overwritten
    <3>2. regular' => NoCalib
      BY <1>2, <2>1, <2>2 DEF AtRestore, OneCalib
    <3>3. NoCalib => NoCalib'
      BY <1>2 DEF NoCalib, Pending, Ready
    <3> QED
      BY <1>2, <1>9, <3>1, <3>2, <3>3 DEF Certain
  <2> QED
    BY <1>9, <2>3, LabelledNext, GoodWillBe DEF AtRf
<1>10. CASE /\ Arg = {"rfInitComp"} /\ Head(todo).do = "wait"
            /\ a = Sure("calib") /\ d = Sure("waited")
  <2>1. AtCalib
    BY <1>10, Labelled, GoodIs
  <2>2. Tried'
    BY <1>4, <2>1 DEF AtCalib
  <2>3. WaitSeen => Notified
    BY <1>3, <1>10 DEF Notified
  <2>4. regular' => dev'.calibrated \/ "rfInit" \in missed'
    <3>1. CASE WaitSeen
      BY <1>2, <2>1, <2>3, <3>1 DEF AtCalib, Certain
    <3>2. CASE WaitTimeout
      <4> SUFFICES ASSUME regular', "rfInit" \notin missed, ~Notified
                   PROVE  FALSE
        BY <1>2, <2>1 DEF AtCalib, Certain
      <4>1. regular /\ linkUp /\ ("rfInit" \in dev.busy \/ Pending("INITCALIB"))
        BY <1>2, <2>1 DEF AtCalib
      <4>2. "INITCALIB" \in DOMAIN Raises
        BY DEF Raises
      <4>3. Coming("INITCALIB")
        BY <4>1, <4>2, ComingFacts, RaisesFacts
      <4> QED
        BY <1>5, <1>10, <3>2, <4>2, <4>3, TimeoutFacts, RaisesFacts
    <3> QED
      BY <3>1, <3>2
  <2>5. args'.Calib = "off" /\ ret' = "ok" => dev'.calibrated \/ unheard'
    BY <1>2, <2>1, <2>3 DEF AtCalib, Certain
  <2> QED
    BY <1>10, <2>2, <2>4, <2>5, LabelledNext, GoodWillBe DEF AtWaited
<1> QED
  BY <1>1, <1>6, <1>7, <1>8, <1>9, <1>10, LeadsWait

\* A clearing of flags.
LEMMA ClearReaches ==
  ASSUME TypeOK, ClearFlag, call = "init", NEW a \in Labels, NEW d \in Labels,
         Leads(args.Calib, a, Head(todo), d), Holds(a)
  PROVE  Holds(d)'
<1>1. /\ Head(todo).do = "clear" /\ Head(todo).arg = Arg /\ flags' = flags \ Arg /\ ret' = ret
      /\ UNCHANGED <<dev, hand, stray, missed, unheard, args, regular>>
  BY DEF ClearFlag, At, Arg, Go, histVars
<1>2. /\ AtFresh => AtFresh'
      /\ AtRf => AtRf'
      /\ Tried => Tried'
  BY <1>1, StillGood
<1>3. CASE Arg = PowerFlags /\ a = Sure("reset") /\ d = Sure("swept")
  <2>1. AtReset
    BY <1>3, Labelled, GoodIs
  <2>2. AtSwept'
    BY <1>1, <1>3, <2>1 DEF AtReset, AtSwept, Steady, PowerFlags
  <2> QED
    BY <1>3, <2>2, LabelledNext, GoodWillBe
<1>4. CASE a[1] = "fresh" /\ d = IfOk("fresh")
  <2>1. ret' = "ok" => AtFresh
    BY <1>1, <1>4, GoodIs DEF Holds
  <2> QED
    BY <1>2, <1>4, <2>1, LabelledNext, GoodWillBe
<1>5. CASE a = IfOk("rf") /\ d = a
  <2>1. ret' = "ok" => AtRf
    BY <1>1, <1>5, Labelled, GoodIs
  <2> QED
    BY <1>2, <1>5, <2>1, LabelledNext, GoodWillBe
<1>6. CASE Arg = {"rfInitComp"} /\ a = Sure("rf") /\ d = Sure("clean")
  <2>1. AtRf'
    BY <1>2, <1>6, Labelled, GoodIs
  <2>2. ~Notified'
    BY <1>1, <1>6 DEF Notified
  <2> QED
    BY <1>6, <2>1, <2>2, LabelledNext, GoodWillBe DEF AtRf, AtClean
<1>7. CASE a = Sure("waited") /\ d = a
  <2>1. AtWaited
    BY <1>7, Labelled, GoodIs
  <2>2. AtWaited'
    BY <1>1, <1>2, <2>1 DEF AtWaited
  <2> QED
    BY <1>7, <2>2, LabelledNext, GoodWillBe
<1> QED
  BY <1>1, <1>3, <1>4, <1>5, <1>6, <1>7, LeadsClear

\* A step on the board or the link.
LEMMA BoardReaches ==
  ASSUME TypeOK, BoardStep \/ LinkStep, call = "init", NEW a \in Labels, NEW d \in Labels,
         Leads(args.Calib, a, Head(todo), d), Holds(a)
  PROVE  Holds(d)'
<1>1. /\ Head(todo).do \in {"board", "link"} /\ Head(todo).arg = Arg
      /\ BoardStep => Head(todo).do = "board"
      /\ LinkStep => Head(todo).do = "link"
  BY StepKinds DEF At, Arg
<1>2. /\ Board("sop").do = "board" /\ Board("reset").do = "board" /\ Board("reset").arg = {"reset"}
      /\ Board("sop").arg = {"sop"}
      /\ Link("on").do = "link" /\ Link("on").arg = {"on"}
      /\ Link("offlate").do = "link" /\ Link("offlate").arg = {"offlate"}
  BY DEF Board, Link, Step
<1>3. CASE Head(todo) = Board("sop") /\ a = Sure("start") /\ d = IfOk("start")
  <2>1. AtStart /\ missed' = missed
    BY <1>1, <1>2, <1>3, Labelled, GoodIs, BoardFacts
  <2> QED
    BY <1>3, <2>1, LabelledNext, GoodWillBe DEF AtStart
<1>4. CASE Head(todo) = Board("reset") /\ a = Sure("start") /\ d = IfOk("reset")
  <2>1. AtStart /\ missed' = missed /\ stray \subseteq {"CPUFAULT"} /\ stray' = stray
    <3>1. BoardStep /\ Arg = {"reset"}
      BY <1>1, <1>2, <1>4
    <3>2. Arg # {"sop"}
      BY <3>1
    <3> QED
      BY <1>4, <3>1, <3>2, Labelled, GoodIs, BoardFacts DEF hostVars
  <2> QED
    BY <1>4, <2>1, LabelledNext, GoodWillBe DEF AtStart, AtReset, Steady
<1>5. CASE Head(todo) = Link("on") /\ a = Sure("swept") /\ d = IfOk("swept")
  <2>1. AtSwept /\ LinkStep /\ Arg = {"on"}
    BY <1>1, <1>2, <1>5, Labelled, GoodIs
  <2>2. UNCHANGED <<flags, dev, missed>>
    BY <2>1, LinkFacts
  <2>3. CASE hand # None
    <3>1. ret' = "error"
      BY <2>1, <2>3, LinkFacts DEF Go
    <3> QED
      BY <1>5, <3>1, LabelledNext
  <2>4. CASE hand = None
    <3>1. UNCHANGED <<hand, stray>>
      BY <2>1, <2>4, LinkFacts
    <3>2. AtSwept'
      BY <2>1, <2>2, <3>1 DEF AtSwept, Steady, Fresh, Virgin, Ready
    <3> QED
      BY <1>5, <3>2, LabelledNext, GoodWillBe
  <2> QED
    BY <2>3, <2>4
<1>6. CASE Head(todo) = Link("offlate") /\ a[1] = "fresh" /\ d = IfOk("fresh")
  <2>1. LinkStep /\ Arg = {"offlate"}
    BY <1>1, <1>2, <1>6
  <2>2. /\ ret' = ret /\ UNCHANGED <<dev, missed, unheard, args>>
        /\ ret # "timeout" => UNCHANGED <<hand, stray, regular>>
    BY <2>1, LinkFacts DEF Go
  <2>3. CASE ret' # "ok"
    BY <1>6, <2>3, LabelledNext
  <2>4. CASE ret' = "ok"
    <3>1. AtFresh
      BY <1>6, <2>2, <2>4, GoodIs DEF Holds
    <3>2. UNCHANGED <<hand, stray, regular>>
      BY <2>2, <2>4
    <3>3. AtFresh'
      BY <2>2, <3>1, <3>2, StillGood
    <3> QED
      BY <1>6, <3>3, LabelledNext, GoodWillBe
  <2> QED
    BY <2>3, <2>4
<1> QED
  BY <1>1, <1>3, <1>4, <1>5, <1>6, LeadsBoard

\* Every step of an init leads to the next point.
LEMMA StepReaches ==
  ASSUME TypeOK, CalmInv, ProgramStep, call = "init", NEW a \in Labels, NEW d \in Labels,
         Leads(args.Calib, a, Head(todo), d), Holds(a)
  PROVE  Holds(d)' /\ ~CheckFlag /\ ~Close
<1>1. ~CheckFlag /\ ~Close
  BY StepKinds, LeadsKinds DEF At
<1> QED
  BY <1>1, CmdReaches, WaitReaches, ClearReaches, BoardReaches DEF ProgramStep

\* A check that is passed.
LEMMA CheckReaches ==
  ASSUME NEW d \in Labels, NEW e \in Labels, Leads(args'.Calib, d, Check, e),
         Holds(d)', ret' = "ok"
  PROVE  Holds(e)'
<1>1. Good(d[1])'
  BY LabelledNext
<1>2. CASE d[1] = e[1]
  BY <1>1, <1>2, LabelledNext
<1>3. CASE d = Sure("waited") /\ e[1] = "done" /\ args'.Calib # "store"
  <2>1. AtWaited'
    BY <1>1, <1>3, Labelled, GoodWillBe
  <2>2. AtDone'
    BY <1>3, <2>1 DEF AtWaited, AtDone, Tried, Kept, HasRf, Certain, Overwritten
  <2> QED
    BY <1>3, <2>2, LabelledNext, GoodWillBe
<1>4. d[1] = e[1] \/ (d = Sure("waited") /\ e[1] = "done" /\ args'.Calib # "store")
  BY LeadsCheck
<1> QED
  BY <1>2, <1>3, <1>4

\* An init stays on its path.
LEMMA InitNext ==
  ASSUME TypeOK, BootInv, CalmInv, InitInv, [Next]_vars
  PROVE  InitInv'
<1>1. ASSUME NEW a \in Labels, NEW b \in Labels, b[1] = "done",
             Path(args'.Calib, todo', a, b), Holds(a)'
      PROVE  InitInv'
  <2>1. Path(args.Calib, todo, a, b)'
    BY <1>1 DEF Path, Leads
  <2> QED
    BY <1>1, <2>1 DEF InitInv
<1>2. CASE call' # "init"
  BY <1>2 DEF InitInv
<1>3. CASE Calls
  <2>1. CASE \E f \in Files, downloadFw, es10 \in BOOLEAN : CallInit(f, downloadFw, es10)
    <3>1. PICK f \in Files, downloadFw \in BOOLEAN, es10 \in BOOLEAN : CallInit(f, downloadFw, es10)
      BY <2>1
    <3> DEFINE g == IF file = {} THEN f ELSE CHOOSE x \in file : TRUE
    <3>2. g \in Settings
      BY FilesAssumption DEF TypeOK
    <3>3. todo' = MMWL_App_init(g, downloadFw, es10) /\ args' = g /\ missed' = {}
      BY <3>1 DEF CallInit, Enter
    <3> HIDE DEF g
    <3>4. Path(args'.Calib, todo', Sure("start"), Sure("done"))
      BY <3>2, <3>3, LegInit DEF Leg
    <3>5. Holds(Sure("start"))'
      BY <3>3, LabelledNext, GoodWillBe DEF AtStart
    <3>6. Sure("start") \in Labels /\ Sure("done") \in Labels /\ Sure("done")[1] = "done"
      BY PointLabels, Labelled
    <3> QED
      BY <1>1, <3>4, <3>5, <3>6
  <2>2. CASE CallStartSensor \/ \E c \in Functions \ {"init"} : \E p : Calling(c, p)
    BY <1>2, <2>2 DEF CallStartSensor, Calling, Enter
  <2> QED
    BY <1>3, <2>1, <2>2, Zenon DEF Calls, Functions
<1>4. CASE Return
  BY <1>2, <1>4 DEF Return, None
<1>5. CASE ProgramStep
  <2>1. call # None /\ todo # <<>> /\ call' = call /\ args' = args
    BY <1>5, ProgramFacts
  <2> SUFFICES ASSUME call = "init"
               PROVE  InitInv'
    BY <1>2, <2>1
  <2>2. PICK a \in Labels, b \in Labels, d \in Labels :
           /\ b[1] = "done" /\ Holds(a) /\ Leads(args.Calib, a, Head(todo), d)
           /\ Path(args.Calib, Tail(todo), d, b)
    BY <2>1, InitHead
  <2>3. Holds(d)' /\ ~CheckFlag
    BY <1>5, <2>2, StepReaches
  <2>4. PICK r \in Results : Go(r)
    BY <1>5, <2>3, ProgramFacts, StepKinds DEF ProgramStep, At
  <2>5. CASE todo' = Tail(todo)
    BY <1>1, <2>1, <2>2, <2>3, <2>5
  <2>6. CASE /\ Tail(todo) # <<>> /\ Head(Tail(todo)) = Check
             /\ r = "ok" /\ todo' = Tail(Tail(todo))
    <3>1. Tail(todo) \in Seq(Steps)
      BY <2>1, HeadTailProperties DEF TypeOK
    <3>2. PICK e \in Labels : /\ Leads(args.Calib, d, Check, e)
                              /\ Path(args.Calib, Tail(Tail(todo)), e, b)
      BY <2>2, <2>6, <3>1, PathHead
    <3>3. Holds(e)'
      BY <2>1, <2>3, <2>4, <2>6, <3>2, CheckReaches, GoCases
    <3> QED
      BY <1>1, <2>1, <2>2, <2>6, <3>2, <3>3
  <2>7. CASE r # "ok" /\ todo' = <<>>
    BY <2>4, <2>7, GoCases DEF InitInv
  <2> QED
    BY <2>4, <2>5, <2>6, <2>7, GoCases
<1>6. CASE EnvStep
  <2>1. UNCHANGED <<call, todo, ret, args>>
    BY <1>6, EnvFacts DEF appVars
  <2> SUFFICES ASSUME call = "init", ~(todo = <<>> /\ ret # "ok")
               PROVE  InitInv'
    BY <1>2, <2>1 DEF InitInv
  <2>2. PICK a \in Labels, b \in Labels :
          b[1] = "done" /\ Path(args.Calib, todo, a, b) /\ Holds(a)
    BY DEF InitInv
  <2>3. Holds(a)'
    <3>1. a[1] \in Points
      BY DEF Labels
    <3>2. Good(a[1]) => Good(a[1])'
      BY <1>6, <3>1, GoodEnv
    <3> QED
      BY <2>1, <2>2, <3>2, LabelledNext DEF Holds
  <2> QED
    BY <1>1, <2>1, <2>2, <2>3
<1>7. CASE UNCHANGED vars
  <2>1. UNCHANGED <<call, todo, ret, last, flags, file, args, linkUp, hand, stray, dev, missed, unheard, regular>>
    BY <1>7 DEF vars, appVars, hostVars, histVars
  <2> SUFFICES ASSUME call = "init", ~(todo = <<>> /\ ret # "ok")
               PROVE  InitInv'
    BY <1>2, <2>1 DEF InitInv
  <2>2. PICK a \in Labels, b \in Labels :
          b[1] = "done" /\ Path(args.Calib, todo, a, b) /\ Holds(a)
    BY DEF InitInv
  <2>3. Good(a[1]) => Good(a[1])'
    BY <2>1, ZenonT(40) DEF Good, AtStart, AtReset, AtSwept, AtFresh, AtRf, AtClean, AtRestore, AtCalib, AtWaited,
                AtDone, Kept, Steady, HasRf, Certain, Notified, NoCalib, OneCalib, Started, Tried,
                Fresh, Virgin, Pending, Ready, Overwritten, Once, Range
  <2>4. Holds(a)'
    BY <2>1, <2>2, <2>3, LabelledNext DEF Holds
  <2> QED
    BY <1>1, <2>1, <2>2, <2>4
<1> QED
  BY <1>3, <1>4, <1>5, <1>6, <1>7 DEF Next, AppStep, ProgramStep, EnvStep

-----------------------------------------------------------------------------
(***************************************************************************)
(* The invariant, and what follows from it.                                *)
(***************************************************************************)
LEMMA InvInit == Init => IInv
<1> SUFFICES ASSUME Init
             PROVE  IInv
  OBVIOUS
<1>1. TypeOK
  BY InitType
<1>2. /\ call = None /\ todo = <<>> /\ ret = "ok" /\ last = None /\ flags = {}
      /\ hand = None /\ stray = {} /\ ~unheard /\ missed = {}
  BY DEF Init
<1>3. dev.up /\ dev.busy = {} /\ dev.tx = None /\ dev.out = <<>>
  BY DEF Init, Booting
<1>4. Ready = {}
  BY <1>3, NoneInLine DEF Ready
<1>5. BootInv /\ CalmInv
  BY <1>2, <1>3, <1>4 DEF BootInv, CalmInv, Pending, None
<1>6. FlagInv /\ TriggerInv
  BY <1>2, <1>3, <1>4, NoneInLine DEF FlagInv, TriggerInv, Trig, Transmitting, Pending, None
<1>7. StartInv /\ StopInv /\ LastInv /\ CallInv /\ InitInv
  BY <1>2 DEF StartInv, StopInv, LastInv, StopOkMeansQuiet, InitOkConfigured, CallInv, InitInv, None
<1> QED
  BY <1>1, <1>5, <1>6, <1>7 DEF IInv

LEMMA InvNext == IInv /\ [Next]_vars => IInv'
<1> SUFFICES ASSUME IInv, [Next]_vars
             PROVE  IInv'
  OBVIOUS
<1> USE DEF IInv
<1>1. TypeOK'
  BY TypeNext
<1>2. BootInv'
  BY BootNext
<1>3. CalmInv'
  BY CalmNext
<1>4. FlagInv'
  BY FlagNext
<1>5. TriggerInv'
  BY TriggerNext
<1>6. StartInv'
  BY StartNext
<1>7. StopInv'
  BY StopNext
<1>8. LastInv'
  BY LastNext
<1>9. CallInv' /\ InitInv'
  BY CallNext, InitNext
<1> QED
  BY <1>1, <1>2, <1>3, <1>4, <1>5, <1>6, <1>7, <1>8, <1>9

(***************************************************************************)
(* The invariant holds.                                                    *)
(***************************************************************************)
THEOREM Invariance == Spec => []IInv
  BY InvInit, InvNext, PTL DEF Spec

(***************************************************************************)
(* stopSensor does not return OK while frames are transmitted.             *)
(***************************************************************************)
THEOREM StopIsQuiet == Spec => []StopOkMeansQuiet
<1>1. IInv => StopOkMeansQuiet
  BY DEF IInv, LastInv
<1> QED
  BY <1>1, Invariance, PTL

(***************************************************************************)
(* When nothing is under way, isSensorStarted tells whether the sensor     *)
(* transmits.                                                              *)
(***************************************************************************)
THEOREM StartedIsTrue == Spec => []StartedAgrees
<1>1. IInv => StartedAgrees
  <2> SUFFICES ASSUME IInv, regular, Quiescent
               PROVE  "sensorStarted" \in flags <=> Transmitting
    BY DEF StartedAgrees
  <2>1. Ready = {}
    BY NoneInLine DEF Quiescent, Ready
  <2>2. ~Trig /\ ~Pending("END")
    BY <2>1 DEF Quiescent, Trig, Pending, None
  <2> QED
    BY <2>2 DEF IInv, FlagInv
<1> QED
  BY <1>1, Invariance, PTL

(***************************************************************************)
(* An init that returns OK has configured and calibrated the device, but   *)
(* for the results that the code overwrites.                               *)
(***************************************************************************)
THEOREM InitIsConfigured == Spec => []InitOkConfigured
<1>1. IInv => InitOkConfigured
  BY DEF IInv, LastInv
<1> QED
  BY <1>1, Invariance, PTL

(***************************************************************************)
(* The RF subsystem is started on a device that was reset since it was     *)
(* last started.                                                           *)
(***************************************************************************)
THEOREM StartIsFresh == Spec => FreshStart
<1>1. IInv /\ [Next]_vars
        => [At("cmd") /\ Arg = {"rfStart"} /\ ret' = "ok" /\ todo' # todo => ~dev.rf]_vars
  <2> SUFFICES ASSUME IInv, At("cmd"), Arg = {"rfStart"}
               PROVE  ~dev.rf
    OBVIOUS
  <2>1. Good("fresh")
    BY CmdHead DEF IInv
  <2> QED
    BY <2>1, GoodIs DEF AtFresh, Fresh, Virgin
<1> QED
  BY <1>1, Invariance, PTL DEF Spec, FreshStart

=============================================================================
