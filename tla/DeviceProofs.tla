---------------------------- MODULE DeviceProofs ----------------------------
(***************************************************************************)
(* Proofs about Device: the driver's invariants of StatusLedProofs hold    *)
(* with the light calling it and the power failing, and the strip is the   *)
(* lamp that the light promises.                                           *)
(***************************************************************************)
EXTENDS Device, StatusLedProofs

\* While the light restores itself the driver is as it was powered up.  After that
\* whoever is in the driver brings the latest target: main while the light is
\* quiet and nobody else is in it, the callback while it is working.
OwnerInv ==
  /\ phase \in {"restoring", "quiet", "working"}
  /\ phase = "restoring" => AtRest /\ cur = Black /\ tgt = Black /\ led = Black
  /\ caller["main"] # Idle =>
       /\ phase = "quiet" /\ caller["main"].rgb = tgt
       /\ \A t \in Tasks : ~Live(t)
       /\ caller["matter"] = Idle
  /\ caller["matter"] # Idle => phase = "working" /\ caller["matter"].rgb = tgt
  /\ phase = "quiet" => tgt = want
  /\ want \in Fades \union {Black}
  /\ "rmt" \notin Faults => rmtReady

DeviceInv == TaskInv /\ OrderInv /\ OwnerInv

LEMMA WantIsColor == OwnerInv => want \in Color
BY StatusLedAssumption, BlackIsColor DEF OwnerInv

-----------------------------------------------------------------------------
(* Steps *)

\* The driver as it is powered up.
LEMMA InitDriver == Init => TaskInv /\ OrderInv /\ FrameInv /\ AtRest
<1>1. Init => AtRest
  BY DEF Init, AtRest, Live, NoTask
<1> QED
  BY <1>1, InitTaskInv, InitOrderInv

LEMMA PowerUpDriver == PowerUp => TaskInv' /\ OrderInv' /\ FrameInv' /\ AtRest'
<1> SUFFICES ASSUME PowerUp PROVE TaskInv' /\ OrderInv' /\ FrameInv' /\ AtRest'
  OBVIOUS
<1>1. Init'
  BY DEF PowerUp, Init
<1>2. (Init => TaskInv /\ OrderInv /\ FrameInv /\ AtRest)'
  BY InitDriver, PTL
<1> QED
  BY <1>1, <1>2

\* With the power on, a step is one of the driver in which nobody comes to write
\* the strip beside another.
LEMMA PoweredStep ==
  ASSUME DeviceInv, [DeviceNext]_device
  PROVE  PowerUp \/ (AnyStep /\ ApartStep)
<1>1. CASE Restore
  BY <1>1, WantIsColor DEF Restore, MainSetRgb, DeviceInv, OwnerInv, AtRest,
     AnyStep, ApartStep, Callers
<1>2. CASE Show
  <2>1. PICK rgb \in Fades : FadeRgb(rgb) /\ caller["main"] = Idle
    BY <1>2 DEF Show, Returned, Callers
  <2> QED
    BY <2>1, StatusLedAssumption DEF AnyStep, ApartStep
<1>3. CASE PowerCycle \/ FactoryReset
  BY <1>3 DEF PowerCycle, FactoryReset
<1>4. CASE Driver
  BY <1>4 DEF Driver, AnyStep, ApartStep
<1>5. CASE Heal \/ Command \/ Store \/ Finish \/ UNCHANGED device
  BY <1>5 DEF Heal, Command, Store, Finish, device, AnyStep, ApartStep
<1> QED
  BY <1>1, <1>2, <1>3, <1>4, <1>5 DEF DeviceNext

\* The driver goes on only when there is work, brings no other target than the
\* callers', lets nobody in, and creates a task only for the callback.
LEMMA DriverStep ==
  ASSUME DeviceInv, Driver
  PROVE  /\ UNCHANGED <<want, kept, phase, tgt, rmtReady>>
         /\ ~AtRest
         /\ \A c \in Callers : caller'[c] # Idle =>
              caller[c] # Idle /\ caller'[c].rgb = caller[c].rgb
         /\ \A t \in Tasks : Live(t)' => Live(t) \/ caller["matter"] # Idle
<1>a. /\ caller \in [Callers -> [at : CallerAt, rgb : Color]]
      /\ task \in [Tasks -> [at : TaskAt, from : Color, to : Color, step : 1..Steps]]
      /\ UNCHANGED <<want, kept, phase>>
  BY DEF DeviceInv, TaskInv, TypeOK, Driver
<1> DEFINE Goal ==
      /\ UNCHANGED <<tgt, rmtReady>>
      /\ ~AtRest
      /\ \A c \in Callers : caller'[c] # Idle =>
           caller[c] # Idle /\ caller'[c].rgb = caller[c].rgb
      /\ \A t \in Tasks : Live(t)' => Live(t) \/ caller["matter"] # Idle
<1>1. ASSUME NEW t \in Tasks, CreateTask(t) PROVE Goal
  BY <1>a, <1>1 DEF CreateTask, AtRest, Live, Idle, Callers
<1>2. CASE CreateFails
  BY <1>a, <1>2 DEF CreateFails, AtRest, Live, Idle, Callers
<1>3. CASE FallbackSetRgb
  <2>1. caller["matter"] # Idle /\ caller["matter"].rgb = tgt
    BY <1>3 DEF FallbackSetRgb, DeviceInv, OwnerInv, Idle
  <2> QED
    BY <1>a, <1>3, <2>1 DEF FallbackSetRgb, SetRgb, AtRest, Live, Callers
<1>4. ASSUME NEW c \in Callers, CallerLatch(c) \/ CallerTransmit(c) PROVE Goal
  BY <1>a, <1>4 DEF CallerLatch, CallerTransmit, AtRest, Live, Idle
<1>5. ASSUME NEW t \in Tasks, FadeTask(t) PROVE Goal
  <2>1. Live(t) /\ UNCHANGED <<tgt, rmtReady, caller>>
    BY <1>5 DEF FadeTask, Snapshot, Check, FadeLatch, FadeTransmit, Delay, Exit, Live
  <2>2. \A s \in Tasks : s # t => task'[s] = task[s]
    BY <1>a, <1>5 DEF FadeTask, Snapshot, Check, FadeLatch, FadeTransmit, Delay, Exit,
       Goto
  <2> QED
    BY <2>1, <2>2 DEF AtRest, Live
<1> QED
  BY <1>a, <1>1, <1>2, <1>3, <1>4, <1>5 DEF Driver, InCall

LEMMA StepOwnerInv ==
  ASSUME DeviceInv, [DeviceNext]_device
  PROVE  OwnerInv'
<1>a. /\ caller \in [Callers -> [at : CallerAt, rgb : Color]]
      /\ OwnerInv /\ OrderInv
  BY DEF DeviceInv, TaskInv, TypeOK
<1>1. CASE Restore
  <2>1. /\ phase = "restoring" /\ phase' = "quiet" /\ UNCHANGED <<want, rmtReady, task>>
        /\ tgt' = want
        /\ caller' = [caller EXCEPT !["main"] = [at |-> "latch", rgb |-> want]]
    BY <1>1 DEF Restore, MainSetRgb, SetRgb, Light!Settle
  <2>2. AtRest
    BY <1>a, <2>1 DEF OwnerInv
  <2> QED
    BY <1>a, <2>1, <2>2 DEF OwnerInv, AtRest, Live, Callers
<1>2. CASE Command
  BY <1>2, <1>a DEF Command, Returned, Light!Command, vars, OwnerInv, Live, Callers
<1>9. CASE Heal
  BY <1>9, <1>a DEF Heal, Light!Heal, vars, OwnerInv, AtRest, Live
<1>3. CASE Store
  BY <1>3, <1>a DEF Store, Returned, Light!Store, vars, OwnerInv, Live, Callers
<1>4. CASE Show
  <2>1. PICK rgb \in Fades :
          /\ tgt' = rgb /\ UNCHANGED <<rmtReady, task>>
          /\ caller' = [caller EXCEPT !["matter"] =
               IF NeedTask(rgb) THEN [at |-> "create", rgb |-> rgb] ELSE Idle]
    BY <1>4 DEF Show, FadeRgb
  <2>2. /\ caller["main"] = Idle /\ phase = "working" /\ UNCHANGED <<want, phase>>
    BY <1>4 DEF Show, Returned, Light!Show, Callers
  <2> QED
    BY <1>a, <2>1, <2>2 DEF OwnerInv, Callers
<1>5. CASE Finish
  BY <1>5, <1>a DEF Finish, Returned, Light!Settle, vars, OwnerInv, Live, Callers
<1>6. CASE PowerCycle \/ FactoryReset
  <2>1. /\ PowerUp /\ phase' = "restoring" /\ want' \in {want, Black} \union Fades
    BY <1>6 DEF PowerCycle, FactoryReset, Light!PowerCycle, Light!FactoryReset
  <2>2. AtRest'
    BY <2>1, PowerUpDriver
  <2> QED
    BY <1>a, <2>1, <2>2 DEF PowerUp, OwnerInv, Callers
<1>7. CASE Driver
  BY <1>7, <1>a, DriverStep DEF OwnerInv, Callers
<1>8. CASE UNCHANGED device
  BY <1>8, <1>a DEF device, vars, OwnerInv, AtRest, Live
<1> QED
  BY <1>1, <1>2, <1>3, <1>4, <1>5, <1>6, <1>7, <1>8, <1>9 DEF DeviceNext

LEMMA InitDeviceInv == DeviceInit => DeviceInv
<1> SUFFICES ASSUME DeviceInit PROVE DeviceInv
  OBVIOUS
<1>1. Init /\ want \in Fades /\ phase = "restoring"
  BY DEF DeviceInit, Light!Init
<1>2. OwnerInv
  BY <1>1, InitDriver DEF Init, OwnerInv, Callers
<1> QED
  BY <1>1, <1>2, InitDriver DEF DeviceInv

LEMMA NextDeviceInv == DeviceInv /\ [DeviceNext]_device => DeviceInv'
<1> SUFFICES ASSUME DeviceInv, [DeviceNext]_device PROVE DeviceInv'
  OBVIOUS
<1>1. TaskInv' /\ OrderInv'
  BY PoweredStep, PowerUpDriver, StepTaskInv, StepOrderInv DEF DeviceInv
<1> QED
  BY <1>1, StepOwnerInv DEF DeviceInv

LEMMA DeviceInvInvariant == DeviceSpec => []DeviceInv
BY InitDeviceInv, NextDeviceInv, PTL DEF DeviceSpec

\* Around a light that never has two writers, a driver at rest remembers the very
\* frame the strip shows, power cuts or not, while transmissions succeed.
THEOREM DeviceRestShowsCur ==
  ASSUME "transmit" \notin Faults
  PROVE  DeviceSpec => []RestingLedShowsCur
<1>1. DeviceInit => FrameInv
  BY InitDriver DEF DeviceInit
<1>2. DeviceInv /\ FrameInv /\ [DeviceNext]_device => FrameInv'
  BY PoweredStep, PowerUpDriver, StepFrameInv DEF DeviceInv
<1> QED
  BY <1>1, <1>2, FrameAtRest, DeviceInvInvariant, PTL DEF DeviceSpec

-----------------------------------------------------------------------------
(* Only an exiting task loses a target *)

\* A call that returns without a task has brought s_cur to its colour, the target;
\* a fade that needs no task is to the colour s_cur already has.
LEMMA StepLoses ==
  ASSUME DeviceInv, [DeviceNext]_device, rmtReady, AtRest', cur' # tgt'
  PROVE  \/ AtRest /\ cur # tgt
         \/ \E t \in Tasks : task[t].at = "exit"
<1>a. /\ caller \in [Callers -> [at : CallerAt, rgb : Color]]
      /\ task \in [Tasks -> [at : TaskAt, from : Color, to : Color, step : 1..Steps]]
      /\ fadeActive \in BOOLEAN
      /\ OwnerInv /\ OrderInv
  BY DEF DeviceInv, TaskInv, TypeOK
<1>b. /\ \A c \in Callers : caller'[c].at = "idle"
      /\ \A t \in Tasks : task'[t].at = "none"
  BY DEF AtRest, Live, Idle
<1>1. CASE Restore
  BY <1>1, <1>a, <1>b DEF Restore, MainSetRgb, SetRgb, Callers
<1>2. CASE Show
  <2>1. PICK rgb \in Fades : FadeRgb(rgb)
    BY <1>2 DEF Show
  <2>2. ~NeedTask(rgb)
    BY <1>a, <1>b, <2>1 DEF FadeRgb, Callers
  <2>3. ~fadeActive
    <3>1. /\ caller["matter"].at # "create" /\ \A t \in Tasks : ~Live(t)
      BY <1>b, <2>1 DEF FadeRgb, Live
    <3> QED
      BY <3>1 DEF DeviceInv, TaskInv, FlagIsExact
  <2> QED
    BY <2>1, <2>2, <2>3 DEF FadeRgb, NeedTask
<1>3. CASE PowerCycle \/ FactoryReset
  BY <1>3 DEF PowerCycle, FactoryReset, PowerUp
<1>4. CASE Driver
  <2>1. ASSUME NEW c \in Callers, InCall(c) PROVE FALSE
    <3>1. CASE \E t \in Tasks : CreateTask(t)
      BY <1>a, <1>b, <3>1 DEF CreateTask
    <3>2. CASE CreateFails
      BY <1>a, <1>b, <3>2 DEF CreateFails, Callers
    <3>5. CASE FallbackSetRgb
      BY <1>a, <1>b, <3>5 DEF FallbackSetRgb, SetRgb, Callers
    <3>3. CASE CallerLatch(c)
      BY <1>a, <1>b, <3>3 DEF CallerLatch
    <3>4. CASE CallerTransmit(c)
      <4>1. /\ cur = caller[c].rgb /\ caller[c] # Idle /\ UNCHANGED <<cur, tgt>>
        BY <1>a, <3>4 DEF CallerTransmit, OrderInv, Idle
      <4>2. caller[c].rgb = tgt
        BY <1>a, <4>1 DEF OwnerInv, Callers
      <4> QED
        BY <4>1, <4>2
    <3> QED
      BY <2>1, <3>1, <3>2, <3>3, <3>4, <3>5 DEF InCall
  <2>2. ASSUME NEW t \in Tasks, FadeTask(t) PROVE task[t].at = "exit"
    <3>1. CASE Snapshot(t)
      BY <1>a, <1>b, <3>1 DEF Snapshot, NoTask
    <3>2. CASE Check(t) \/ FadeLatch(t) \/ FadeTransmit(t)
      <4>1. \E at \in TaskAt \ {"none"} : task' = [task EXCEPT ![t].at = at]
        BY <3>2 DEF Check, FadeLatch, FadeTransmit, Goto, TaskAt
      <4> QED
        BY <1>a, <1>b, <4>1
    <3>3. CASE Delay(t)
      BY <1>a, <1>b, <3>3 DEF Delay, Goto
    <3> QED
      BY <2>2, <3>1, <3>2, <3>3 DEF FadeTask, Exit
  <2> QED
    BY <1>4, <2>1, <2>2 DEF Driver
<1>5. CASE Heal \/ Command \/ Store \/ Finish \/ UNCHANGED device
  BY <1>5 DEF Heal, Command, Store, Finish, device, vars, AtRest, Live
<1> QED
  BY <1>1, <1>2, <1>3, <1>4, <1>5 DEF DeviceNext

\* A failed xTaskCreate, a fade that is skipped, a power cut: none of them leaves
\* the LED at rest off its target.  Only the exit of a fade task can.
THEOREM DeviceLosesOnlyAtExit == DeviceSpec => LossOnlyAtExit
<1>1. DeviceInv /\ [DeviceNext]_device =>
        [rmtReady /\ AtRest' /\ cur' # tgt' =>
           \/ AtRest /\ cur # tgt
           \/ \E t \in Tasks : task[t].at = "exit"]_vars
  BY StepLoses
<1> QED
  BY <1>1, DeviceInvInvariant, PTL DEF DeviceSpec, LossOnlyAtExit

-----------------------------------------------------------------------------
(* The strip is a lamp *)

LEMMA InitIsLamp == DeviceInit => Strip!Init
<1> SUFFICES ASSUME DeviceInit PROVE Strip!Init
  OBVIOUS
<1>1. /\ phase = "restoring" /\ led = Black /\ want \in Color /\ kept \in BOOLEAN
  BY InitDeviceInv, WantIsColor DEF DeviceInit, Light!Init, Init, DeviceInv
<1> QED
  BY <1>1 DEF Strip!Init, StripPhase

\* What a quiet driver shows is s_cur, and so its target.
LEMMA RestingLed ==
  ASSUME FrameInv, AtRest PROVE led = cur
BY FrameAtRest DEF RestingLedShowsCur

LEMMA StepIsLamp ==
  ASSUME "rmt" \notin Faults, "transmit" \notin Faults,
         DeviceInv, FrameInv, DeviceInv', FrameInv', [DeviceNext]_device
  PROVE  [Strip!Next]_(Strip!lamp)
<1> SUFFICES \/ Strip!Next
             \/ UNCHANGED <<want, kept, led, StripPhase>>
  BY DEF Strip!lamp
<1>a. /\ caller \in [Callers -> [at : CallerAt, rgb : Color]]
      /\ OwnerInv /\ OrderInv /\ rmtReady
  BY DEF DeviceInv, TaskInv, TypeOK, OwnerInv
<1>b. /\ want' \in Color /\ led' \in Color
      /\ AtRest' => led' = cur'
      /\ phase' = "quiet" => tgt' = want'
  <2>1. (OwnerInv => want \in Color)'
    BY WantIsColor, PTL
  <2> QED
    BY <2>1 DEF DeviceInv, TaskInv, TypeOK, OwnerInv, FrameInv, AtRest, Live, Idle
<1>1. CASE Restore
  BY <1>1, <1>a DEF Restore, MainSetRgb, SetRgb, Light!Settle, StripPhase, Idle, Callers
<1>2. CASE Command
  <2>1. /\ UNCHANGED vars /\ UNCHANGED <<want, kept>> /\ caller["main"] = Idle
        /\ phase = "quiet" /\ phase' = "working"
    BY <1>2 DEF Command, Returned, Light!Command, Callers
  <2>2. UNCHANGED <<led, caller>> /\ StripPhase' = "working"
        /\ StripPhase \in {"quiet", "working"}
    BY <2>1 DEF vars, StripPhase
  <2> QED
    BY <2>1, <2>2 DEF Strip!Next, Strip!Command
<1>3. CASE Store
  <2>1. /\ UNCHANGED vars /\ caller["main"] = Idle /\ kept' = kept
        /\ phase = "working" /\ phase' = "working"
    BY <1>3 DEF Store, Returned, Light!Store, Callers
  <2>2. UNCHANGED <<led, caller>> /\ StripPhase' = "working" /\ StripPhase = "working"
    BY <2>1 DEF vars, StripPhase
  <2> QED
    BY <1>b, <2>1, <2>2 DEF Strip!Next, Strip!Store
<1>4. CASE Show
  <2>1. /\ phase = "working" /\ phase' = "working" /\ UNCHANGED <<want, kept, led>>
        /\ caller["main"] = Idle /\ caller'["main"] = Idle
    BY <1>4, <1>a DEF Show, Returned, Light!Show, FadeRgb, Callers
  <2> QED
    BY <2>1 DEF StripPhase
<1>5. CASE Finish
  <2>1. /\ UNCHANGED <<led, caller, cur, tgt, want, kept>> /\ caller["main"] = Idle
        /\ phase = "working" /\ phase' = "quiet"
    BY <1>5 DEF Finish, Returned, Light!Settle, Callers, vars
  <2>2. StripPhase = "working" /\ StripPhase' \in {"quiet", "working"}
    BY <2>1 DEF StripPhase
  <2>3. StripPhase' = "quiet" => led' = want
    BY <1>b, <2>1 DEF StripPhase, Lost
  <2> QED
    BY <2>1, <2>2, <2>3 DEF Strip!Next, Strip!Settle
<1>6. CASE PowerCycle
  <2>1. /\ led' = Black /\ StripPhase' = "restoring"
        /\ kept' = kept /\ (kept => want' = want)
    BY <1>6 DEF PowerCycle, Light!PowerCycle, PowerUp, StripPhase
  <2> QED
    BY <1>b, <2>1 DEF Strip!Next, Strip!PowerCycle
<1>7. CASE FactoryReset
  <2>1. led' = Black /\ StripPhase' = "restoring" /\ want' = Black /\ kept' = TRUE
    BY <1>7 DEF FactoryReset, Light!FactoryReset, PowerUp, StripPhase
  <2> QED
    BY <2>1 DEF Strip!Next, Strip!FactoryReset
<1>8. CASE Driver
  <2>1. /\ UNCHANGED <<want, kept, phase, tgt, rmtReady>> /\ ~AtRest
        /\ \A c \in Callers : caller'[c] # Idle => caller[c] # Idle
    BY <1>8, DriverStep
  <2>2. phase \in {"quiet", "working"}
    BY <1>a, <2>1 DEF OwnerInv
  <2>3. CASE caller["main"] = Idle
    <3>1. caller'["main"] = Idle
      BY <2>1, <2>3 DEF Callers
    <3>2. StripPhase = "working" /\ StripPhase' \in {"quiet", "working"}
      BY <2>1, <2>2, <2>3, <3>1 DEF StripPhase
    <3>3. CASE StripPhase' = "working"
      BY <1>b, <2>1, <3>2, <3>3 DEF Strip!Next, Strip!Show
    <3>4. CASE StripPhase' = "quiet"
      <4>1. phase' = "quiet" /\ AtRest' /\ cur' = tgt'
        BY <3>1, <3>4 DEF StripPhase, Lost
      <4>2. led' = want
        BY <1>b, <2>1, <4>1
      <4> QED
        BY <2>1, <3>2, <3>4, <4>2 DEF Strip!Next, Strip!Settle
    <3> QED
      BY <3>2, <3>3, <3>4
  <2>4. CASE caller["main"] # Idle
    <3>1. /\ phase = "quiet" /\ caller["matter"] = Idle
          /\ caller["main"].rgb = tgt /\ \A t \in Tasks : ~Live(t)
      BY <1>a, <2>4 DEF OwnerInv
    <3>2. CallerLatch("main") \/ CallerTransmit("main")
      <4>1. \A t \in Tasks : ~FadeTask(t)
        BY <3>1 DEF FadeTask, Snapshot, Check, FadeLatch, FadeTransmit, Delay, Exit, Live
      <4>2. ~InCall("matter")
        BY <3>1 DEF InCall, CreateTask, CreateFails, FallbackSetRgb, CallerLatch,
           CallerTransmit, Idle
      <4>3. InCall("main")
        BY <1>8, <4>1, <4>2 DEF Driver, Callers
      <4> QED
        BY <4>3 DEF InCall
    <3>3. CASE CallerLatch("main")
      <4>1. caller'["main"].at = "transmit" /\ led' = led
        BY <1>a, <3>3 DEF CallerLatch, Callers
      <4> QED
        BY <2>1, <2>4, <4>1 DEF StripPhase, Idle
    <3>4. CASE CallerTransmit("main")
      <4>1. /\ cur' = cur /\ cur = tgt /\ caller' = [caller EXCEPT !["main"] = Idle]
            /\ task' = task
        BY <1>a, <3>1, <3>4 DEF CallerTransmit, OrderInv, Callers
      <4>2. AtRest' /\ caller'["main"] = Idle
        BY <1>a, <3>1, <4>1 DEF AtRest, Live, Callers
      <4>3. StripPhase = "restoring" /\ StripPhase' = "quiet" /\ led' = want
        BY <1>b, <2>1, <2>4, <3>1, <4>1, <4>2 DEF StripPhase, Lost
      <4> QED
        BY <2>1, <4>3 DEF Strip!Next, Strip!Settle
    <3> QED
      BY <3>2, <3>3, <3>4
  <2> QED
    BY <2>3, <2>4
<1>10. CASE Heal
  <2>1. /\ UNCHANGED vars /\ UNCHANGED want /\ kept' = TRUE
        /\ phase = "restoring" /\ phase' = "restoring"
    BY <1>10 DEF Heal, Light!Heal
  <2>2. UNCHANGED led /\ StripPhase = "restoring" /\ StripPhase' = "restoring"
    BY <2>1 DEF vars, StripPhase
  <2> QED
    BY <2>1, <2>2 DEF Strip!Next, Strip!Heal
<1>9. CASE UNCHANGED device
  BY <1>9 DEF device, vars, StripPhase, AtRest, Live, Lost
<1> QED
  BY <1>1, <1>2, <1>3, <1>4, <1>5, <1>6, <1>7, <1>8, <1>9, <1>10 DEF DeviceNext

\* With a working LED channel the strip implements the lamp, fade by fade: it shows
\* a colour nobody asked for only on the way to one, never after a restart, and
\* whenever nothing is at work on it and no target was lost, what the attributes
\* say.  xTaskCreate may fail throughout.
THEOREM StripImplementsLamp ==
  ASSUME "rmt" \notin Faults, "transmit" \notin Faults
  PROVE  DeviceSpec => StripIsLamp
<1>1. DeviceInit => FrameInv
  BY InitDriver DEF DeviceInit
<1>2. DeviceInv /\ FrameInv /\ [DeviceNext]_device => FrameInv'
  BY PoweredStep, PowerUpDriver, StepFrameInv DEF DeviceInv
<1>3. DeviceInv /\ FrameInv /\ DeviceInv' /\ FrameInv' /\ [DeviceNext]_device
        => [Strip!Next]_(Strip!lamp)
  BY StepIsLamp
<1> QED
  BY <1>1, <1>2, <1>3, InitIsLamp, DeviceInvInvariant, PTL
     DEF DeviceSpec, StripIsLamp, Strip!Spec

=============================================================================
