------------------------------ MODULE StatusLed ------------------------------
(***************************************************************************)
(* The status LED driver, main/status_led.cpp: one WS2812 strip reached    *)
(* by direct sets (status_led_set_rgb) and by fades (status_led_fade_rgb)  *)
(* that a short-lived FreeRTOS task carries out.                           *)
(*                                                                         *)
(* Grain of atomicity: each portENTER_CRITICAL / portEXIT_CRITICAL section *)
(* is one step, and so is each call made outside of one (xTaskCreate,      *)
(* rmt_transmit, vTaskDelay).  Two tasks call the driver: "matter",        *)
(* whichever task holds the CHIP stack lock and runs attr_update_cb (the   *)
(* lock admits one at a time), and "main", the task of app_main, which     *)
(* sets boot and commissioning colours and the restored light.             *)
(*                                                                         *)
(* The behaviour starts after the first status_led_set(STATUS_LED_BOOT),   *)
(* made before any other task exists: the RMT channel is up or has failed  *)
(* for good (s_init_started bars a second attempt), and the LED is off.    *)
(***************************************************************************)
EXTENDS Integers

CONSTANTS
  Channels,    \* colour channels; {r, g, b} in the code
  MaxLevel,    \* largest channel value; 255 in the code
  Steps,       \* STATUS_LED_FADE_STEPS; 20 in the code
  Fades,       \* colours "matter" fades to
  Sets,        \* colours "main" sets directly
  Tasks,       \* slots for fade tasks
  Preempting,  \* callers whose priority is above the fade task's (4)
  Faults       \* calls that may fail: "rmt", "create", "transmit"

Color == [Channels -> 0..MaxLevel]
Black == [ch \in Channels |-> 0]
Callers == {"matter", "main"}

ASSUME StatusLedAssumption ==
  /\ MaxLevel \in Nat
  /\ Steps \in Nat \ {0}
  /\ Fades \subseteq Color
  /\ Sets \subseteq Color
  /\ Preempting \subseteq Callers
  /\ Faults \subseteq {"rmt", "create", "transmit"}

VARIABLES
  cur,         \* s_cur_r, s_cur_g, s_cur_b
  tgt,         \* s_tgt_r, s_tgt_g, s_tgt_b
  fadeActive,  \* s_fade_active
  rmtReady,    \* s_rmt_chan and s_rmt_enc are both set
  led,         \* the frame the strip has latched
  caller,      \* where each caller is, and the colour it was given
  task         \* where each fade task is, and its locals

vars == <<cur, tgt, fadeActive, rmtReady, led, caller, task>>

(***************************************************************************)
(* A caller is "idle", about to "create" the fade task, in the "fallback"  *)
(* after xTaskCreate failed, or in status_led_write_now: about to "latch"  *)
(* the colour in s_cur or to "transmit" it.                                *)
(***************************************************************************)
CallerAt == {"idle", "create", "fallback", "latch", "transmit"}

(***************************************************************************)
(* A fade task is "none" (no such task), at the top of its outer loop      *)
(* ("snapshot"), in the inner loop (about to "check" for a new target, to  *)
(* "latch" or "transmit" a step, or in its "delay"), or about to "exit".   *)
(***************************************************************************)
TaskAt == {"none", "snapshot", "check", "latch", "transmit", "delay", "exit"}

Idle == [at |-> "idle", rgb |-> Black]
NoTask == [at |-> "none", from |-> Black, to |-> Black, step |-> 1]

TypeOK ==
  /\ cur \in Color
  /\ tgt \in Color
  /\ fadeActive \in BOOLEAN
  /\ rmtReady \in BOOLEAN
  /\ led \in Color
  /\ caller \in [Callers -> [at : CallerAt, rgb : Color]]
  /\ task \in [Tasks -> [at : TaskAt, from : Color, to : Color, step : 1..Steps]]

Init ==
  /\ cur = Black
  /\ tgt = Black
  /\ fadeActive = FALSE
  /\ rmtReady \in IF "rmt" \in Faults THEN BOOLEAN ELSE {TRUE}
  /\ led = Black
  /\ caller = [c \in Callers |-> Idle]
  /\ task = [t \in Tasks |-> NoTask]

-----------------------------------------------------------------------------
(* Helpers shared by callers and fade tasks *)

\* The single core runs a caller in the middle of a fade task's step only if
\* its priority is higher; any caller runs while the task sleeps.
MayRun(c) ==
  c \in Preempting \/ \A t \in Tasks : task[t].at \in {"none", "delay"}

\* Mutant of Interpolate: the divisor is one step short.
InterpolateFewerSteps(a, b, step) ==
  IF b >= a THEN a + ((b - a) * step) \div (Steps - 1)
            ELSE a - ((a - b) * step) \div (Steps - 1)

\* Mutant of Interpolate: the loop counts its steps from 0.
InterpolateFromZero(a, b, step) ==
  IF b >= a THEN a + ((b - a) * (step - 1)) \div Steps
            ELSE a - ((a - b) * (step - 1)) \div Steps

\* (tr - sr) * step / STATUS_LED_FADE_STEPS with C's division, which rounds
\* towards zero whatever the sign of tr - sr.
Interpolate(a, b, step) ==
  IF b >= a THEN a + ((b - a) * step) \div Steps
            ELSE a - ((a - b) * step) \div Steps

Lerp(from, to, step) ==
  [ch \in Channels |-> Interpolate(from[ch], to[ch], step)]

\* status_led_write_now gives up before it touches s_cur when the channel is
\* missing, and sends a frame after the critical section otherwise.
Latch(rgb) == cur' = IF rmtReady THEN rgb ELSE cur

Transmit(rgb) ==
  \/ led' = rgb
  \/ "transmit" \in Faults /\ led' = led

-----------------------------------------------------------------------------
(* status_led_fade_rgb, from the attribute callback *)

\* Mutant of NeedTask: it does not look at s_fade_active.
NeedTaskIgnoringFlag(rgb) == cur # rgb

NeedTask(rgb) == ~fadeActive /\ cur # rgb

FadeRgb(rgb) ==
  /\ caller["matter"].at = "idle"
  /\ tgt' = rgb
  /\ fadeActive' = (fadeActive \/ NeedTask(rgb))
  /\ caller' = [caller EXCEPT !["matter"] =
                  IF NeedTask(rgb) THEN [at |-> "create", rgb |-> rgb] ELSE Idle]
  /\ UNCHANGED <<cur, rmtReady, led, task>>

CreateTask(t) ==
  /\ caller["matter"].at = "create"
  /\ task[t].at = "none"
  /\ task' = [task EXCEPT ![t].at = "snapshot"]
  /\ caller' = [caller EXCEPT !["matter"] = Idle]
  /\ UNCHANGED <<cur, tgt, fadeActive, rmtReady, led>>

\* Mutant of CreateFails: s_fade_active stays set.
CreateFailsKeepingFlag ==
  /\ "create" \in Faults
  /\ caller["matter"].at = "create"
  /\ caller' = [caller EXCEPT !["matter"].at = "fallback"]
  /\ UNCHANGED <<cur, tgt, fadeActive, rmtReady, led, task>>

\* Mutant of CreateFails: no direct set follows.
CreateFailsWithoutFallback ==
  /\ "create" \in Faults
  /\ caller["matter"].at = "create"
  /\ fadeActive' = FALSE
  /\ caller' = [caller EXCEPT !["matter"] = Idle]
  /\ UNCHANGED <<cur, tgt, rmtReady, led, task>>

CreateFails ==
  /\ "create" \in Faults
  /\ caller["matter"].at = "create"
  /\ fadeActive' = FALSE
  /\ caller' = [caller EXCEPT !["matter"].at = "fallback"]
  /\ UNCHANGED <<cur, tgt, rmtReady, led, task>>

(* status_led_set_rgb, from app_main or as the fallback of a failed fade *)

SetRgb(c, rgb) ==
  /\ tgt' = rgb
  /\ caller' = [caller EXCEPT ![c] = [at |-> "latch", rgb |-> rgb]]
  /\ UNCHANGED <<cur, fadeActive, rmtReady, led, task>>

MainSetRgb(rgb) == caller["main"].at = "idle" /\ SetRgb("main", rgb)

FallbackSetRgb ==
  caller["matter"].at = "fallback" /\ SetRgb("matter", caller["matter"].rgb)

CallerLatch(c) ==
  /\ caller[c].at = "latch"
  /\ Latch(caller[c].rgb)
  /\ caller' = [caller EXCEPT ![c] =
                  IF rmtReady THEN [@ EXCEPT !.at = "transmit"] ELSE Idle]
  /\ UNCHANGED <<tgt, fadeActive, rmtReady, led, task>>

CallerTransmit(c) ==
  /\ caller[c].at = "transmit"
  /\ Transmit(caller[c].rgb)
  /\ caller' = [caller EXCEPT ![c] = Idle]
  /\ UNCHANGED <<cur, tgt, fadeActive, rmtReady, task>>

-----------------------------------------------------------------------------
(* fade_task *)

Goto(t, at) == task' = [task EXCEPT ![t].at = at]

Snapshot(t) ==
  /\ task[t].at = "snapshot"
  /\ task' = [task EXCEPT ![t] =
       IF cur = tgt THEN [NoTask EXCEPT !.at = "exit"]
       ELSE [at |-> "check", from |-> cur, to |-> tgt, step |-> 1]]
  /\ UNCHANGED <<cur, tgt, fadeActive, rmtReady, led, caller>>

\* Mutant of Check: a new target breaks out of the outer loop as well.
CheckLeaving(t) ==
  /\ task[t].at = "check"
  /\ Goto(t, IF tgt # task[t].to THEN "exit" ELSE "latch")
  /\ UNCHANGED <<cur, tgt, fadeActive, rmtReady, led, caller>>

Check(t) ==
  /\ task[t].at = "check"
  /\ Goto(t, IF tgt # task[t].to THEN "snapshot" ELSE "latch")
  /\ UNCHANGED <<cur, tgt, fadeActive, rmtReady, led, caller>>

FadeLatch(t) ==
  /\ task[t].at = "latch"
  /\ Latch(Lerp(task[t].from, task[t].to, task[t].step))
  /\ Goto(t, IF rmtReady THEN "transmit" ELSE "delay")
  /\ UNCHANGED <<tgt, fadeActive, rmtReady, led, caller>>

FadeTransmit(t) ==
  /\ task[t].at = "transmit"
  /\ Transmit(Lerp(task[t].from, task[t].to, task[t].step))
  /\ Goto(t, "delay")
  /\ UNCHANGED <<cur, tgt, fadeActive, rmtReady, caller>>

\* Mutant of Delay: the loop runs while step < STATUS_LED_FADE_STEPS.
DelayStoppingShort(t) ==
  /\ task[t].at = "delay"
  /\ IF task[t].step < Steps - 1
       THEN task' = [task EXCEPT ![t].at = "check", ![t].step = @ + 1]
       ELSE Goto(t, "snapshot")
  /\ UNCHANGED <<cur, tgt, fadeActive, rmtReady, led, caller>>

Delay(t) ==
  /\ task[t].at = "delay"
  /\ IF task[t].step < Steps
       THEN task' = [task EXCEPT ![t].at = "check", ![t].step = @ + 1]
       ELSE Goto(t, "snapshot")
  /\ UNCHANGED <<cur, tgt, fadeActive, rmtReady, led, caller>>

Exit(t) ==
  /\ task[t].at = "exit"
  /\ fadeActive' = FALSE
  /\ task' = [task EXCEPT ![t] = NoTask]
  /\ UNCHANGED <<cur, tgt, rmtReady, led, caller>>

FadeTask(t) ==
  \/ Snapshot(t) \/ Check(t) \/ FadeLatch(t) \/ FadeTransmit(t)
  \/ Delay(t) \/ Exit(t)

-----------------------------------------------------------------------------
(* A call under way, a new call, and the next-state relation *)

InCall(c) ==
  /\ MayRun(c)
  /\ \/ c = "matter" /\ (\/ \E t \in Tasks : CreateTask(t)
                         \/ CreateFails
                         \/ FallbackSetRgb)
     \/ CallerLatch(c)
     \/ CallerTransmit(c)

NewCall ==
  \/ MayRun("matter") /\ \E rgb \in Fades : FadeRgb(rgb)
  \/ MayRun("main") /\ \E rgb \in Sets : MainSetRgb(rgb)

Next ==
  \/ NewCall
  \/ \E c \in Callers : InCall(c)
  \/ \E t \in Tasks : FadeTask(t)

Spec == Init /\ [][Next]_vars

\* FreeRTOS runs every ready task eventually; nobody is obliged to call.
FairSpec ==
  /\ Spec
  /\ \A c \in Callers : WF_vars(InCall(c))
  /\ \A t \in Tasks : WF_vars(FadeTask(t))

-----------------------------------------------------------------------------
(* Correctness *)

Live(t) == task[t].at # "none"
AtRest == (\A c \in Callers : caller[c] = Idle) /\ (\A t \in Tasks : ~Live(t))

\* There is never more than one fade task, counting one about to be created:
\* two would write interleaved steps of two fades to the strip.
AtMostOneFadeTask ==
  /\ \A s, t \in Tasks : Live(s) /\ Live(t) => s = t
  /\ caller["matter"].at = "create" => \A t \in Tasks : ~Live(t)

\* s_fade_active is set only while a fade task exists or is being created.  A
\* flag left behind drops every later fade (the bug of CHANGELOG 2026-09-05 (2)).
FlagMeansWorker ==
  fadeActive => caller["matter"].at = "create" \/ \E t \in Tasks : Live(t)

\* Every step a fade writes lies, channel by channel, between the colour it
\* started from and its target, and the last step is the target itself: C's
\* integer arithmetic neither overshoots, wraps a byte, nor falls short.
FadeStepsBetween ==
  [][\A t \in Tasks :
       task[t].at = "latch" /\ task'[t].at = "transmit" =>
         /\ \A ch \in Channels :
              LET a == task[t].from[ch]
                  b == task[t].to[ch]
              IN  cur'[ch] \in (a..b) \union (b..a)
         /\ task[t].step = Steps => cur' = task[t].to]_vars

\* While only the attribute callback drives the LED, whatever is not being
\* worked on agrees: s_cur is the frame the strip shows, so the comparison with
\* s_cur that skips a fade skips only fades to the colour already visible.
RestingLedShowsCur == AtRest => led = cur

\* The only step that can leave the LED at rest short of its target is the
\* exit of a fade task (a target set after its last look at s_tgt); in
\* particular a failed xTaskCreate never loses a colour.
LossOnlyAtExit ==
  [][rmtReady /\ AtRest' /\ cur' # tgt' =>
       \/ AtRest /\ cur # tgt
       \/ \E t \in Tasks : task[t].at = "exit"]_vars

\* A fade task that still looks at s_tgt takes the LED to the target, however
\* often it was retargeted on the way, once the target stays put and no direct
\* set of an older colour is half done.  (With the channel missing s_cur never
\* moves, and the fade task goes on for ever.)
Looking == \E t \in Tasks : task[t].at \notin {"none", "exit"}
NoStaleSet == \A c \in Callers : caller[c].at = "latch" => caller[c].rgb = tgt
Converges ==
  \A c \in Fades \cup Sets :
    rmtReady => [](Looking /\ NoStaleSet /\ [](tgt = c) => <>[](cur = c))

\* The fade task is short-lived: once the target stays put no task remains.
FadeEnds ==
  \A c \in Fades \cup Sets : rmtReady /\ <>[](tgt = c) => <>[](~fadeActive)

(* What the sources say of the driver and the code does not do *)

\* "A fade already in progress is retargeted, so rapid updates chase the latest
\* value" (status_led.h): with no call and no task under way, the LED is at the
\* latest target.
AtRestShowsTarget == AtRest => cur = tgt

\* "A direct set wins over any fade in progress: point the target at the new
\* colour so the fade task converges immediately and exits" (status_led.cpp):
\* once every call has returned and the LED is at its target, no step of a fade
\* moves it off a target that stays put.
DirectSetWins ==
  [][(\A c \in Callers : caller[c] = Idle) /\ cur = tgt /\ tgt' = tgt
       => cur' = cur]_vars

=============================================================================
