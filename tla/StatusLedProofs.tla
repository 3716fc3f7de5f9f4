--------------------------- MODULE StatusLedProofs ---------------------------
(***************************************************************************)
(* Invariance proofs about StatusLed, for every value of its constants:    *)
(* any number of channels, levels, fade steps and colours, any priorities  *)
(* and any of the faults.                                                  *)
(***************************************************************************)
EXTENDS StatusLed, TLAPS

-----------------------------------------------------------------------------
(* Arithmetic of a fade step *)

\* A distance d scaled by step / Steps stays within 0..d, and the last step
\* covers all of it (the division of status_led.cpp:121).
LEMMA ScaleBounds ==
  ASSUME NEW d \in Nat, NEW step \in 1..Steps, Steps \in Nat \ {0}
  PROVE  /\ (d * step) \div Steps \in 0..d
         /\ step = Steps => (d * step) \div Steps = d
<1> DEFINE q == (d * step) \div Steps
<1>1. d * step \in Nat /\ d * step <= d * Steps
  <2>1. Steps - step \in Nat /\ step \in Nat
    OBVIOUS
  <2>2. d * (Steps - step) \in Nat /\ d * step \in Nat
    BY <2>1
  <2>3. d * Steps = d * step + d * (Steps - step)
    BY <2>1
  <2> QED
    BY <2>2, <2>3
<1>2. q \in Int /\ Steps * q <= d * step /\ d * step < Steps * q + Steps
  BY <1>1
<1>3. q >= 0
  <2>1. CASE q < 0
    <3>1. Steps * (q + 1) <= 0
      BY <2>1, <1>2
    <3> QED
      BY <3>1, <1>1, <1>2
  <2> QED
    BY <2>1, <1>2
<1>4. q <= d
  <2>1. CASE q >= d + 1
    <3>1. Steps * q >= Steps * (d + 1)
      BY <2>1, <1>2
    <3> QED
      BY <3>1, <1>1, <1>2
  <2> QED
    BY <2>1, <1>2
<1>5. ASSUME step = Steps PROVE q = d
  <2>1. CASE q + 1 <= d
    <3>1. Steps * (q + 1) <= Steps * d
      BY <2>1, <1>2
    <3> QED
      BY <3>1, <1>2, <1>5
  <2> QED
    BY <2>1, <1>2, <1>4
<1> QED
  BY <1>2, <1>3, <1>4, <1>5

\* A channel of a fade step lies between its start and its target, and the last
\* step is the target.
LEMMA InterpolateBounds ==
  ASSUME NEW a \in 0..MaxLevel, NEW b \in 0..MaxLevel, NEW step \in 1..Steps
  PROVE  /\ Interpolate(a, b, step) \in (a..b) \union (b..a)
         /\ Interpolate(a, b, step) \in 0..MaxLevel
         /\ step = Steps => Interpolate(a, b, step) = b
<1>1. MaxLevel \in Nat /\ Steps \in Nat \ {0}
  BY StatusLedAssumption
<1>2. CASE b >= a
  <2>1. b - a \in Nat
    BY <1>1, <1>2
  <2> DEFINE q == ((b - a) * step) \div Steps
  <2>2. q \in 0..(b - a) /\ (step = Steps => q = b - a)
    BY <2>1, <1>1, ScaleBounds
  <2>3. Interpolate(a, b, step) = a + q
    BY <1>2 DEF Interpolate
  <2> HIDE DEF q
  <2> QED
    BY <2>1, <2>2, <2>3, <1>1
<1>3. CASE ~(b >= a)
  <2>1. a - b \in Nat
    BY <1>1, <1>3
  <2> DEFINE q == ((a - b) * step) \div Steps
  <2>2. q \in 0..(a - b) /\ (step = Steps => q = a - b)
    BY <2>1, <1>1, ScaleBounds
  <2>3. Interpolate(a, b, step) = a - q
    BY <1>3 DEF Interpolate
  <2> HIDE DEF q
  <2> QED
    BY <2>1, <2>2, <2>3, <1>1
<1> QED
  BY <1>2, <1>3

LEMMA LerpColor ==
  ASSUME NEW from \in Color, NEW to \in Color, NEW step \in 1..Steps
  PROVE  /\ Lerp(from, to, step) \in Color
         /\ step = Steps => Lerp(from, to, step) = to
<1>1. \A ch \in Channels :
        /\ Interpolate(from[ch], to[ch], step) \in 0..MaxLevel
        /\ step = Steps => Interpolate(from[ch], to[ch], step) = to[ch]
  BY InterpolateBounds DEF Color
<1>2. Lerp(from, to, step) \in Color
  BY <1>1 DEF Lerp, Color
<1>3. step = Steps => Lerp(from, to, step) = to
  BY <1>1 DEF Lerp, Color
<1> QED
  BY <1>2, <1>3

-----------------------------------------------------------------------------
(* Steps *)

\* A step of the driver, whatever colour it is given and whoever may preempt whom:
\* what Next allows, and every step of the device but those of the power.
AnyStep ==
  \/ \E rgb \in Color : FadeRgb(rgb)
  \/ \E rgb \in Color : MainSetRgb(rgb)
  \/ \E c \in Callers : InCall(c)
  \/ \E t \in Tasks : FadeTask(t)
  \/ UNCHANGED vars

LEMMA NextIsAny == [Next]_vars => AnyStep
BY StatusLedAssumption DEF Next, NewCall, AnyStep

-----------------------------------------------------------------------------
(* Type correctness *)

LEMMA BlackIsColor == Black \in Color
BY StatusLedAssumption DEF Black, Color

LEMMA IdleType == Idle \in [at : CallerAt, rgb : Color]
BY BlackIsColor DEF Idle, CallerAt

LEMMA NoTaskType ==
  NoTask \in [at : TaskAt, from : Color, to : Color, step : 1..Steps]
BY BlackIsColor, StatusLedAssumption DEF NoTask, TaskAt

LEMMA InitTypeOK == Init => TypeOK
BY BlackIsColor, IdleType, NoTaskType DEF Init, TypeOK

\* Every state of the driver is well formed: no channel ever leaves
\* 0..MaxLevel, whichever way a fade goes.
LEMMA StepTypeOK == TypeOK /\ AnyStep => TypeOK'
<1> SUFFICES ASSUME TypeOK, AnyStep PROVE TypeOK'
  OBVIOUS
<1> USE BlackIsColor, IdleType, NoTaskType, StatusLedAssumption
<1>1. ASSUME NEW rgb \in Color, FadeRgb(rgb) PROVE TypeOK'
  <2>1. [at |-> "create", rgb |-> rgb] \in [at : CallerAt, rgb : Color]
    BY DEF CallerAt
  <2> QED
    BY <1>1, <2>1 DEF FadeRgb, TypeOK
<1>2. ASSUME NEW t \in Tasks, CreateTask(t) PROVE TypeOK'
  BY <1>2 DEF CreateTask, TypeOK, TaskAt
<1>3. CASE CreateFails
  BY <1>3 DEF CreateFails, TypeOK, CallerAt
<1>4. ASSUME NEW c \in Callers, NEW rgb \in Color, SetRgb(c, rgb) PROVE TypeOK'
  BY <1>4 DEF SetRgb, TypeOK, CallerAt
<1>5. CASE FallbackSetRgb
  <2>1. caller["matter"].rgb \in Color
    BY DEF TypeOK, Callers
  <2> QED
    BY <1>4, <1>5, <2>1 DEF FallbackSetRgb, Callers
<1>6. ASSUME NEW rgb \in Color, MainSetRgb(rgb) PROVE TypeOK'
  BY <1>4, <1>6 DEF MainSetRgb, Callers
<1>7. ASSUME NEW c \in Callers, CallerLatch(c) PROVE TypeOK'
  BY <1>7 DEF CallerLatch, Latch, TypeOK, CallerAt
<1>8. ASSUME NEW c \in Callers, CallerTransmit(c) PROVE TypeOK'
  BY <1>8 DEF CallerTransmit, Transmit, TypeOK
<1>9. ASSUME NEW t \in Tasks, Snapshot(t) PROVE TypeOK'
  BY <1>9 DEF Snapshot, TypeOK, TaskAt, NoTask
<1>10. ASSUME NEW t \in Tasks, Check(t) PROVE TypeOK'
  BY <1>10 DEF Check, Goto, TypeOK, TaskAt
<1>11. ASSUME NEW t \in Tasks, FadeLatch(t) PROVE TypeOK'
  <2>1. Lerp(task[t].from, task[t].to, task[t].step) \in Color
    BY LerpColor DEF TypeOK
  <2> QED
    BY <1>11, <2>1 DEF FadeLatch, Latch, Goto, TypeOK, TaskAt
<1>12. ASSUME NEW t \in Tasks, FadeTransmit(t) PROVE TypeOK'
  <2>1. Lerp(task[t].from, task[t].to, task[t].step) \in Color
    BY LerpColor DEF TypeOK
  <2> QED
    BY <1>12, <2>1 DEF FadeTransmit, Transmit, Goto, TypeOK, TaskAt
<1>13. ASSUME NEW t \in Tasks, Delay(t) PROVE TypeOK'
  <2>1. CASE task[t].step < Steps
    <3>1. task[t].step + 1 \in 1..Steps
      BY <2>1 DEF TypeOK
    <3> QED
      BY <1>13, <2>1, <3>1 DEF Delay, TypeOK, TaskAt
  <2>2. CASE ~(task[t].step < Steps)
    BY <1>13, <2>2 DEF Delay, Goto, TypeOK, TaskAt
  <2> QED
    BY <2>1, <2>2
<1>14. ASSUME NEW t \in Tasks, Exit(t) PROVE TypeOK'
  BY <1>14 DEF Exit, TypeOK
<1>15. CASE UNCHANGED vars
  BY <1>15 DEF vars, TypeOK
<1> QED
  BY <1>1, <1>2, <1>3, <1>5, <1>6, <1>7, <1>8, <1>9, <1>10, <1>11, <1>12,
     <1>13, <1>14, <1>15 DEF AnyStep, InCall, FadeTask

\* The driver's state is well formed in every state of every behaviour.
THEOREM TypeCorrect == Spec => []TypeOK
BY InitTypeOK, StepTypeOK, NextIsAny, PTL DEF Spec

-----------------------------------------------------------------------------
(* One fade task at a time *)

\* "create" is entered with the flag set, so the flag marks exactly the time a
\* fade task exists or is about to: AtMostOneFadeTask alone is not inductive,
\* because NeedTask sees only the flag.
FlagIsExact ==
  fadeActive <=> caller["matter"].at = "create" \/ \E t \in Tasks : Live(t)

TaskInv == TypeOK /\ AtMostOneFadeTask /\ FlagIsExact

LEMMA InitTaskInv == Init => TaskInv
<1> SUFFICES ASSUME Init PROVE TaskInv
  OBVIOUS
<1>1. \A t \in Tasks : ~Live(t)
  BY DEF Init, Live, NoTask
<1>2. caller["matter"].at # "create" /\ ~fadeActive
  BY DEF Init, Idle, Callers
<1> QED
  BY <1>1, <1>2, InitTypeOK DEF TaskInv, AtMostOneFadeTask, FlagIsExact

\* A step that creates and ends no fade task, and leaves the flag and the
\* creation under way alone, keeps the count.
LEMMA KeepTaskInv ==
  ASSUME TaskInv, TypeOK', fadeActive' = fadeActive,
         caller'["matter"].at = "create" <=> caller["matter"].at = "create",
         \A t \in Tasks : Live(t)' <=> Live(t)
  PROVE  TaskInv'
BY DEF TaskInv, AtMostOneFadeTask, FlagIsExact, Live

LEMMA StepTaskInv == TaskInv /\ AnyStep => TaskInv'
<1> SUFFICES ASSUME TaskInv, AnyStep PROVE TaskInv'
  OBVIOUS
<1>a. TypeOK /\ TypeOK'
  BY StepTypeOK DEF TaskInv
<1>1. ASSUME NEW rgb \in Color, FadeRgb(rgb) PROVE TaskInv'
  <2>1. CASE NeedTask(rgb)
    BY <1>a, <1>1, <2>1 DEF FadeRgb, NeedTask, TaskInv, TypeOK, FlagIsExact,
       AtMostOneFadeTask, Live, Callers
  <2>2. CASE ~NeedTask(rgb)
    BY <1>a, <1>1, <2>2 DEF FadeRgb, TaskInv, TypeOK, FlagIsExact,
       AtMostOneFadeTask, Live, Callers, Idle
  <2> QED
    BY <2>1, <2>2
<1>2. ASSUME NEW t \in Tasks, CreateTask(t) PROVE TaskInv'
  <2>1. /\ \A s \in Tasks : Live(s)' <=> s = t
        /\ caller'["matter"].at # "create"
        /\ fadeActive'
    BY <1>a, <1>2 DEF CreateTask, TaskInv, TypeOK, FlagIsExact, AtMostOneFadeTask,
       Live, Callers, Idle
  <2> QED
    BY <1>a, <2>1 DEF TaskInv, FlagIsExact, AtMostOneFadeTask
<1>3. CASE CreateFails
  <2>1. /\ \A s \in Tasks : ~Live(s)'
        /\ caller'["matter"].at # "create"
        /\ ~fadeActive'
    BY <1>a, <1>3 DEF CreateFails, TaskInv, TypeOK, AtMostOneFadeTask, Live, Callers
  <2> QED
    BY <1>a, <2>1 DEF TaskInv, FlagIsExact, AtMostOneFadeTask
<1>4. CASE FallbackSetRgb
  BY <1>a, <1>4, KeepTaskInv DEF FallbackSetRgb, SetRgb, TypeOK, Live, Callers
<1>5. ASSUME NEW rgb \in Color, MainSetRgb(rgb) PROVE TaskInv'
  BY <1>a, <1>5, KeepTaskInv DEF MainSetRgb, SetRgb, TypeOK, Live, Callers
<1>6. ASSUME NEW c \in Callers, CallerLatch(c) PROVE TaskInv'
  BY <1>a, <1>6, KeepTaskInv DEF CallerLatch, TypeOK, Live, Callers, Idle
<1>7. ASSUME NEW c \in Callers, CallerTransmit(c) PROVE TaskInv'
  BY <1>a, <1>7, KeepTaskInv DEF CallerTransmit, TypeOK, Live, Callers, Idle
<1>8. ASSUME NEW t \in Tasks, Snapshot(t) PROVE TaskInv'
  BY <1>a, <1>8, KeepTaskInv DEF Snapshot, TypeOK, Live, NoTask
<1>9. ASSUME NEW t \in Tasks, Check(t) PROVE TaskInv'
  BY <1>a, <1>9, KeepTaskInv DEF Check, Goto, TypeOK, Live
<1>10. ASSUME NEW t \in Tasks, FadeLatch(t) PROVE TaskInv'
  BY <1>a, <1>10, KeepTaskInv DEF FadeLatch, Goto, TypeOK, Live
<1>11. ASSUME NEW t \in Tasks, FadeTransmit(t) PROVE TaskInv'
  BY <1>a, <1>11, KeepTaskInv DEF FadeTransmit, Goto, TypeOK, Live
<1>12. ASSUME NEW t \in Tasks, Delay(t) PROVE TaskInv'
  BY <1>a, <1>12, KeepTaskInv DEF Delay, Goto, TypeOK, Live
<1>13. ASSUME NEW t \in Tasks, Exit(t) PROVE TaskInv'
  <2>1. /\ \A s \in Tasks : ~Live(s)'
        /\ caller'["matter"].at # "create"
        /\ ~fadeActive'
    BY <1>a, <1>13 DEF Exit, TaskInv, TypeOK, AtMostOneFadeTask, Live, NoTask, Callers
  <2> QED
    BY <1>a, <2>1 DEF TaskInv, FlagIsExact, AtMostOneFadeTask
<1>14. CASE UNCHANGED vars
  BY <1>a, <1>14, KeepTaskInv DEF vars, Live
<1> QED
  BY <1>1, <1>2, <1>3, <1>4, <1>5, <1>6, <1>7, <1>8, <1>9, <1>10, <1>11, <1>12,
     <1>13, <1>14 DEF AnyStep, InCall, FadeTask

LEMMA TaskInvInvariant == Spec => []TaskInv
BY InitTaskInv, StepTaskInv, NextIsAny, PTL DEF Spec

\* Whatever calls come in, and whenever xTaskCreate fails, no second fade task
\* is ever created beside a first.
THEOREM OneFadeTask == Spec => []AtMostOneFadeTask
<1>1. TaskInv => AtMostOneFadeTask
  BY DEF TaskInv
<1> QED
  BY <1>1, TaskInvInvariant, PTL

\* s_fade_active never outlives the task it announces, so no later fade is
\* dropped for a task that is not there.
THEOREM FlagNeverWedged == Spec => []FlagMeansWorker
<1>1. TaskInv => FlagMeansWorker
  BY DEF TaskInv, FlagIsExact, FlagMeansWorker
<1> QED
  BY <1>1, TaskInvInvariant, PTL

-----------------------------------------------------------------------------
(* Every step of a fade *)

\* No step of any fade, retargeted or not, leaves the range between the colour
\* the fade started from and its target, and the last step is the target.
THEOREM FadesStayBetween == Spec => FadeStepsBetween
<1> DEFINE Between(t) ==
      task[t].at = "latch" /\ task'[t].at = "transmit" =>
        /\ \A ch \in Channels :
             LET a == task[t].from[ch]
                 b == task[t].to[ch]
             IN  cur'[ch] \in (a..b) \union (b..a)
        /\ task[t].step = Steps => cur' = task[t].to
<1>1. ASSUME TypeOK, NEW t \in Tasks, NEW s \in Tasks, FadeTask(s) PROVE Between(t)
  <2>1. CASE s = t /\ FadeLatch(t)
    <3>1. CASE rmtReady
      <4>1. cur' = Lerp(task[t].from, task[t].to, task[t].step)
        BY <2>1, <3>1 DEF FadeLatch, Latch
      <4>2. /\ task[t].from \in Color /\ task[t].to \in Color
            /\ task[t].step \in 1..Steps
        BY <1>1 DEF TypeOK
      <4>3. task[t].step = Steps => cur' = task[t].to
        BY <4>1, <4>2, LerpColor
      <4>4. ASSUME NEW ch \in Channels
            PROVE  LET a == task[t].from[ch]
                       b == task[t].to[ch]
                   IN  cur'[ch] \in (a..b) \union (b..a)
        <5>1. cur'[ch] = Interpolate(task[t].from[ch], task[t].to[ch], task[t].step)
          BY <4>1 DEF Lerp
        <5>2. task[t].from[ch] \in 0..MaxLevel /\ task[t].to[ch] \in 0..MaxLevel
          BY <4>2 DEF Color
        <5>3. Interpolate(task[t].from[ch], task[t].to[ch], task[t].step)
                \in (task[t].from[ch]..task[t].to[ch])
                      \union (task[t].to[ch]..task[t].from[ch])
          BY <5>2, <4>2, InterpolateBounds
        <5> QED
          BY <5>1, <5>3
      <4> QED
        BY <4>3, <4>4
    <3>2. CASE ~rmtReady
      BY <2>1, <3>2 DEF FadeLatch, Goto, TypeOK
    <3> QED
      BY <3>1, <3>2
  <2>2. CASE ~(s = t /\ FadeLatch(t))
    <3>1. ~(task[t].at = "latch" /\ task'[t].at = "transmit")
      BY <1>1, <2>2 DEF FadeTask, Snapshot, Check, FadeLatch, FadeTransmit, Delay,
         Exit, Goto, TypeOK, NoTask
    <3> QED
      BY <3>1
  <2> QED
    BY <2>1, <2>2
<1>2. ASSUME TypeOK, NEW t \in Tasks, NEW s \in Tasks, CreateTask(s) PROVE Between(t)
  <2>1. ~(task[t].at = "latch" /\ task'[t].at = "transmit")
    BY <1>2 DEF CreateTask, TypeOK
  <2> QED
    BY <2>1
<1>3. ASSUME NEW t \in Tasks, task' = task PROVE Between(t)
  <2>1. ~(task[t].at = "latch" /\ task'[t].at = "transmit")
    BY <1>3
  <2> QED
    BY <2>1
<1> HIDE DEF Between
<1>4. TypeOK /\ [Next]_vars => [\A t \in Tasks : Between(t)]_vars
  BY <1>1, <1>2, <1>3 DEF Next, NewCall, InCall, FadeRgb, CreateFails, SetRgb,
     FallbackSetRgb, MainSetRgb, CallerLatch, CallerTransmit
<1>5. Spec => [][\A t \in Tasks : Between(t)]_vars
  BY <1>4, TypeCorrect, PTL DEF Spec
<1> QED
  BY <1>5 DEF FadeStepsBetween, Between

-----------------------------------------------------------------------------
(* The strip shows what s_cur says *)

\* A step in which nobody comes to write the strip beside another: a fade is asked
\* for while main is not in the driver, a direct set of main's while nobody is.  So
\* it is without direct sets from main, and in the device (DeviceProofs).
ApartStep ==
  \/ caller["main"] = Idle /\ \E rgb \in Color : FadeRgb(rgb)
  \/ /\ caller["matter"] = Idle /\ \A t \in Tasks : ~Live(t)
     /\ \E rgb \in Color : MainSetRgb(rgb)
  \/ \E c \in Callers : InCall(c)
  \/ \E t \in Tasks : FadeTask(t)
  \/ UNCHANGED vars

\* In such steps the only frames are a fade task's, the fallback's after a failed
\* xTaskCreate, and main's; no two of them overlap, so frames are sent in the
\* order of the s_cur updates they carry.
OrderInv ==
  /\ \A c \in Callers : caller[c].at \in {"fallback", "latch", "transmit"} =>
       /\ \A t \in Tasks : ~Live(t)
       /\ \A d \in Callers \ {c} : caller[d] = Idle
  /\ caller["main"].at \notin {"create", "fallback"}
  /\ \A c \in Callers : caller[c].at = "idle" => caller[c] = Idle
  /\ \A c \in Callers : caller[c].at = "transmit" => cur = caller[c].rgb
  /\ \A t \in Tasks : task[t].at = "transmit" =>
       cur = Lerp(task[t].from, task[t].to, task[t].step)

\* With every frame sent, s_cur is ahead of the strip only by the next of them.
FrameInv ==
  \/ led = cur
  \/ \E c \in Callers : caller[c].at = "transmit"
  \/ \E t \in Tasks : task[t].at = "transmit"

LEMMA StepOrderInv ==
  ASSUME TaskInv, OrderInv, ApartStep
  PROVE  OrderInv'
<1>a. TypeOK
  BY DEF TaskInv
<1>b. AtMostOneFadeTask /\ FlagIsExact
  BY DEF TaskInv
<1>1. ASSUME NEW rgb \in Color, caller["main"] = Idle, FadeRgb(rgb) PROVE OrderInv'
  BY <1>a, <1>1 DEF FadeRgb, OrderInv, TypeOK, Live, Callers, Idle
<1>2. ASSUME NEW t \in Tasks, CreateTask(t) PROVE OrderInv'
  BY <1>a, <1>b, <1>2 DEF CreateTask, OrderInv, TypeOK, Live, Callers, Idle,
     AtMostOneFadeTask
<1>3. CASE CreateFails
  <2>1. /\ \A t \in Tasks : ~Live(t)
        /\ caller'["matter"].at = "fallback" /\ UNCHANGED <<cur, task>>
    BY <1>a, <1>b, <1>3 DEF CreateFails, TypeOK, Callers, AtMostOneFadeTask
  <2>2. caller["main"].at \in {"idle", "latch", "transmit"}
    BY <1>a DEF OrderInv, TypeOK, Callers, CallerAt
  <2>3. caller["main"] = Idle
    BY <1>3, <2>2 DEF CreateFails, OrderInv, Callers, Idle
  <2>4. caller'["main"] = Idle
    BY <1>a, <1>3, <2>3 DEF CreateFails, TypeOK, Callers
  <2> QED
    BY <2>1, <2>4 DEF OrderInv, Live, Callers, Idle
<1>4. CASE FallbackSetRgb
  BY <1>a, <1>4 DEF FallbackSetRgb, SetRgb, OrderInv, TypeOK, Live, Callers, Idle
<1>5. ASSUME NEW c \in Callers, CallerLatch(c) PROVE OrderInv'
  BY <1>a, <1>5 DEF CallerLatch, Latch, OrderInv, TypeOK, Live, Callers, Idle
<1>6. ASSUME NEW c \in Callers, CallerTransmit(c) PROVE OrderInv'
  BY <1>a, <1>6 DEF CallerTransmit, OrderInv, TypeOK, Live, Callers, Idle
<1>7. ASSUME NEW t \in Tasks, Snapshot(t) PROVE OrderInv'
  BY <1>a, <1>7 DEF Snapshot, OrderInv, TypeOK, Live, NoTask
<1>8. ASSUME NEW t \in Tasks, Check(t) PROVE OrderInv'
  BY <1>a, <1>8 DEF Check, Goto, OrderInv, TypeOK, Live
<1>9. ASSUME NEW t \in Tasks, FadeLatch(t) PROVE OrderInv'
  BY <1>a, <1>b, <1>9 DEF FadeLatch, Latch, Goto, OrderInv, TypeOK, Live,
     AtMostOneFadeTask
<1>10. ASSUME NEW t \in Tasks, FadeTransmit(t) PROVE OrderInv'
  BY <1>a, <1>10 DEF FadeTransmit, Goto, OrderInv, TypeOK, Live
<1>11. ASSUME NEW t \in Tasks, Delay(t) PROVE OrderInv'
  BY <1>a, <1>11 DEF Delay, Goto, OrderInv, TypeOK, Live
<1>12. ASSUME NEW t \in Tasks, Exit(t) PROVE OrderInv'
  BY <1>a, <1>12 DEF Exit, OrderInv, TypeOK, Live, NoTask
<1>13. CASE UNCHANGED vars
  BY <1>13 DEF vars, OrderInv, Live
<1>14. ASSUME NEW rgb \in Color, MainSetRgb(rgb), caller["matter"] = Idle,
              \A t \in Tasks : ~Live(t)
       PROVE  OrderInv'
  BY <1>a, <1>14 DEF MainSetRgb, SetRgb, OrderInv, TypeOK, Live, Callers, Idle
<1> QED
  BY <1>1, <1>2, <1>3, <1>4, <1>5, <1>6, <1>7, <1>8, <1>9, <1>10, <1>11, <1>12,
     <1>13, <1>14 DEF ApartStep, InCall, FadeTask

LEMMA StepFrameInv ==
  ASSUME "transmit" \notin Faults, TaskInv, OrderInv, FrameInv, ApartStep
  PROVE  FrameInv'
<1>a. TypeOK /\ AtMostOneFadeTask
  BY DEF TaskInv
<1>1. ASSUME NEW rgb \in Color, FadeRgb(rgb) \/ MainSetRgb(rgb) PROVE FrameInv'
  BY <1>a, <1>1 DEF FadeRgb, MainSetRgb, SetRgb, FrameInv, TypeOK, Callers, Idle
<1>2. ASSUME NEW t \in Tasks, CreateTask(t) PROVE FrameInv'
  BY <1>a, <1>2 DEF CreateTask, FrameInv, TypeOK, Callers, Idle
<1>3. CASE CreateFails \/ FallbackSetRgb
  BY <1>a, <1>3 DEF CreateFails, FallbackSetRgb, SetRgb, FrameInv, TypeOK, Callers
<1>4. ASSUME NEW c \in Callers, CallerLatch(c) PROVE FrameInv'
  BY <1>a, <1>4 DEF CallerLatch, Latch, FrameInv, OrderInv, TypeOK, Live, Callers, Idle
<1>5. ASSUME NEW c \in Callers, CallerTransmit(c) PROVE FrameInv'
  BY <1>a, <1>5 DEF CallerTransmit, Transmit, FrameInv, OrderInv, TypeOK, Callers
<1>6. ASSUME NEW t \in Tasks, Snapshot(t) \/ Check(t) \/ Delay(t) \/ Exit(t)
      PROVE  FrameInv'
  BY <1>a, <1>6 DEF Snapshot, Check, Delay, Exit, Goto, NoTask, FrameInv, TypeOK
<1>7. ASSUME NEW t \in Tasks, FadeLatch(t) PROVE FrameInv'
  BY <1>a, <1>7 DEF FadeLatch, Latch, Goto, FrameInv, OrderInv, TypeOK, Live
<1>8. ASSUME NEW t \in Tasks, FadeTransmit(t) PROVE FrameInv'
  BY <1>a, <1>8 DEF FadeTransmit, Transmit, Goto, FrameInv, OrderInv, TypeOK
<1>9. CASE UNCHANGED vars
  BY <1>9 DEF vars, FrameInv
<1> QED
  BY <1>1, <1>2, <1>3, <1>4, <1>5, <1>6, <1>7, <1>8, <1>9
     DEF ApartStep, InCall, FadeTask

LEMMA InitOrderInv == Init => OrderInv /\ FrameInv
<1> SUFFICES ASSUME Init PROVE OrderInv /\ FrameInv
  OBVIOUS
<1>1. \A t \in Tasks : task[t].at = "none"
  BY DEF Init, NoTask
<1>2. \A c \in Callers : caller[c].at = "idle"
  BY DEF Init, Idle
<1> QED
  BY <1>1, <1>2 DEF Init, OrderInv, FrameInv, Callers

LEMMA FrameAtRest == FrameInv => RestingLedShowsCur
BY DEF FrameInv, RestingLedShowsCur, AtRest, Live, Idle

\* While only the attribute callback drives the LED and transmissions succeed,
\* a driver at rest remembers in s_cur the very frame the strip shows.
THEOREM RestShowsCur ==
  ASSUME Sets = {}, "transmit" \notin Faults
  PROVE  Spec => []RestingLedShowsCur
<1> DEFINE MainIdle == caller["main"] = Idle
<1>1. Init => MainIdle
  BY DEF Init, Callers
<1>2. TaskInv /\ OrderInv /\ MainIdle /\ [Next]_vars => MainIdle' /\ ApartStep
  <2> SUFFICES ASSUME TaskInv, OrderInv, MainIdle, [Next]_vars
               PROVE  MainIdle' /\ ApartStep
    OBVIOUS
  <2>1. ApartStep
    BY StatusLedAssumption DEF Next, NewCall, ApartStep
  <2>2. MainIdle'
    <3>1. caller \in [Callers -> [at : CallerAt, rgb : Color]]
      BY DEF TaskInv, TypeOK
    <3>2. CASE NewCall
      BY <3>1, <3>2 DEF NewCall, FadeRgb, Callers
    <3>3. ASSUME NEW c \in Callers, InCall(c) PROVE MainIdle'
      BY <3>1, <3>3 DEF InCall, CreateTask, CreateFails, FallbackSetRgb, SetRgb,
         CallerLatch, CallerTransmit, Callers, Idle
    <3>4. ASSUME NEW t \in Tasks, FadeTask(t) PROVE MainIdle'
      BY <3>4 DEF FadeTask, Snapshot, Check, FadeLatch, FadeTransmit, Delay, Exit
    <3> QED
      BY <3>2, <3>3, <3>4 DEF Next, vars
  <2> QED
    BY <2>1, <2>2
<1>3. TaskInv /\ OrderInv /\ FrameInv /\ ApartStep => OrderInv' /\ FrameInv'
  BY StepOrderInv, StepFrameInv
<1> QED
  BY <1>1, <1>2, <1>3, InitOrderInv, FrameAtRest, TaskInvInvariant, PTL DEF Spec

=============================================================================
