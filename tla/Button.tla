------------------------------- MODULE Button -------------------------------
(***************************************************************************)
(* The BOOT button, main/button.cpp: a level-triggered GPIO interrupt that *)
(* masks itself and wakes a task, which debounces the press, samples the   *)
(* pin until the release, calls the long- or the short-press callback and  *)
(* unmasks the interrupt.                                                  *)
(*                                                                         *)
(* The pin is the environment's.  Either it is taken as it is, changing at *)
(* any moment, and every time it goes low is a press; or it is a contact   *)
(* that a finger closes and opens and that bounces after both, for less    *)
(* time than the task's shortest delay, and rests in between.  Time is     *)
(* counted in polls of the hold loop (50 ms each).  The device may restart *)
(* at any moment, as it does after a factory reset, with the button down.  *)
(***************************************************************************)
EXTENDS Integers

CONSTANTS
  HoldPolls,  \* FACTORY_RESET_HOLD_MS in polls; 100 in the code
  TickWrap    \* polls after which held_ms, 32 bits wide, is back at 0

ASSUME ButtonAssumption ==
  /\ HoldPolls \in Nat \ {0}
  /\ TickWrap \in Nat /\ TickWrap > HoldPolls

VARIABLES
  contact,    \* is the pin a contact that bounces?  It stays what it is.
  down,       \* the pin is low
  finger,     \* the button is pressed, whatever its contact does
  bounce,     \* "none" with the contact at rest; else it has bounced since
              \* before the task's delay began ("old"), or not so long ("new")
  armed,      \* the interrupt is enabled, with a handler, and not masked
  notified,   \* the task has a notification pending
  at,         \* where button_task is
  held,       \* held_ms in polls
  firedLong,  \* fired_long
  fresh,      \* history: pressed, or booted, since the task last read the pin low
  acts        \* history: callbacks since such a press was accepted

pin  == <<contact, down, finger, bounce>>
vars == <<pin, armed, notified, at, held, firedLong, fresh, acts>>

\* button_task is in ulTaskNotifyTake ("wait"), in the "debounce" delay, at the
\* "sample" of the pin that heads the hold loop, in the loop's "delay", or past
\* the loop ("released"); it is not there while "booting" and stays "absent"
\* when button_init could not create it.
At == {"booting", "wait", "debounce", "sample", "delay", "released", "absent"}

TypeOK ==
  /\ contact \in BOOLEAN
  /\ down \in BOOLEAN /\ finger \in BOOLEAN /\ bounce \in {"none", "new", "old"}
  /\ armed \in BOOLEAN /\ notified \in BOOLEAN
  /\ at \in At
  /\ held \in 0..(TickWrap - 1)
  /\ firedLong \in BOOLEAN
  /\ fresh \in BOOLEAN /\ acts \in Nat

Init ==
  /\ contact \in BOOLEAN
  /\ finger \in BOOLEAN
  /\ down = finger
  /\ bounce = "none"
  /\ armed = FALSE
  /\ notified = FALSE
  /\ at = "booting"
  /\ held = 0
  /\ firedLong = FALSE
  /\ fresh = TRUE
  /\ acts = 0

-----------------------------------------------------------------------------
(* The pin *)

\* A finger takes longer than the 20 ms of a debounce to let go and press again.
FingerMoves ==
  /\ contact /\ at = "debounce" => finger
  /\ finger' = ~finger
  /\ fresh' = (fresh \/ finger')
  /\ IF contact THEN bounce' = "new" /\ down' = down
                ELSE bounce' = bounce /\ down' = finger'
  /\ UNCHANGED <<contact, armed, notified, at, held, firedLong, acts>>

ContactBounces ==
  /\ bounce # "none"
  /\ down' = ~down
  /\ UNCHANGED <<contact, finger, bounce, armed, notified, at, held, firedLong, fresh,
                 acts>>

Settle ==
  /\ bounce # "none"
  /\ bounce' = "none" /\ down' = finger
  /\ UNCHANGED <<contact, finger, armed, notified, at, held, firedLong, fresh, acts>>

\* The task begins a delay; one ends, which no bounce from before it outlasts.
DelayBegins == bounce' = IF bounce = "new" THEN "old" ELSE bounce
DelayEnds   == bounce # "old"

-----------------------------------------------------------------------------
(* The boot and the interrupt *)

\* A restart, of a factory reset or any other, lets go of all but the pin.
Restart ==
  /\ at' = "booting"
  /\ armed' = FALSE /\ notified' = FALSE
  /\ held' = 0 /\ firedLong' = FALSE
  /\ fresh' = TRUE /\ acts' = 0
  /\ UNCHANGED pin

\* Without its task the button has no handler.
ButtonInit ==
  /\ at = "booting"
  /\ at' \in {"wait", "absent"}
  /\ armed' = (at' = "wait")
  /\ UNCHANGED <<pin, notified, held, firedLong, fresh, acts>>

\* button_isr
Isr ==
  /\ armed /\ down
  /\ armed' = FALSE
  /\ notified' = TRUE
  /\ UNCHANGED <<pin, at, held, firedLong, fresh, acts>>

-----------------------------------------------------------------------------
(* button_task *)

Wake ==
  /\ at = "wait" /\ notified
  /\ notified' = FALSE
  /\ at' = "debounce"
  /\ DelayBegins
  /\ UNCHANGED <<contact, down, finger, armed, held, firedLong, fresh, acts>>

\* Mutant of Blip: a blip leaves the interrupt masked.
BlipKeepingMask ==
  /\ at = "debounce" /\ DelayEnds /\ ~down
  /\ at' = "wait"
  /\ UNCHANGED <<pin, armed, notified, held, firedLong, fresh, acts>>

\* The pin is up after the 20 ms: a blip.
Blip ==
  /\ at = "debounce" /\ DelayEnds /\ ~down
  /\ armed' = TRUE
  /\ at' = "wait"
  /\ UNCHANGED <<pin, notified, held, firedLong, fresh, acts>>

\* Mutant of Accept: the pin is not read again after the 20 ms.
AcceptUnchecked ==
  /\ at = "debounce" /\ DelayEnds
  /\ held' = 0
  /\ firedLong' = FALSE
  /\ at' = "sample"
  /\ fresh' = FALSE
  /\ acts' = IF fresh THEN 0 ELSE acts
  /\ UNCHANGED <<pin, armed, notified>>

Accept ==
  /\ at = "debounce" /\ DelayEnds /\ down
  /\ held' = 0
  /\ firedLong' = FALSE
  /\ at' = "sample"
  /\ fresh' = FALSE
  /\ acts' = IF fresh THEN 0 ELSE acts
  /\ UNCHANGED <<pin, armed, notified>>

SampleLow ==
  /\ at = "sample" /\ down
  /\ at' = "delay"
  /\ DelayBegins
  /\ fresh' = FALSE
  /\ UNCHANGED <<contact, down, finger, armed, notified, held, firedLong, acts>>

SampleHigh ==
  /\ at = "sample" /\ ~down
  /\ at' = "released"
  /\ UNCHANGED <<pin, armed, notified, held, firedLong, fresh, acts>>

Longer == (held + 1) % TickWrap

\* The end of one 50 ms delay; the long-press callback runs in the middle of the
\* hold, and the task goes on sampling when it returns.
Poll ==
  /\ at = "delay" /\ DelayEnds
  /\ held' = Longer
  /\ IF ~firedLong /\ Longer >= HoldPolls
       THEN firedLong' = TRUE /\ acts' = acts + 1
       ELSE UNCHANGED <<firedLong, acts>>
  /\ at' = "sample"
  /\ UNCHANGED <<pin, armed, notified, fresh>>

\* Mutant of Release: the interrupt stays masked after a press.
ReleaseKeepingMask ==
  /\ at = "released"
  /\ \/ ~firedLong /\ acts' = acts + 1
     \/ (firedLong \/ held = 0) /\ UNCHANGED acts
  /\ at' = "wait"
  /\ UNCHANGED <<pin, armed, notified, held, firedLong, fresh>>

\* After the loop.  A pin that went up before the first sample leaves held_ms at
\* 0, unless a tick passed since press_start.
Release ==
  /\ at = "released"
  /\ \/ ~firedLong /\ acts' = acts + 1
     \/ (firedLong \/ held = 0) /\ UNCHANGED acts
  /\ armed' = TRUE
  /\ at' = "wait"
  /\ UNCHANGED <<pin, notified, held, firedLong, fresh>>

Task == Wake \/ Blip \/ Accept \/ SampleLow \/ SampleHigh \/ Poll \/ Release

Next ==
  \/ FingerMoves \/ ContactBounces \/ Settle
  \/ Restart \/ ButtonInit \/ Isr
  \/ Task

Spec == Init /\ [][Next]_vars

\* The device boots, the interrupt fires while its level holds, the task's delays
\* end, and a contact comes to rest.
FairSpec ==
  Spec /\ WF_vars(ButtonInit) /\ WF_vars(Isr) /\ WF_vars(Task) /\ WF_vars(Settle)

-----------------------------------------------------------------------------
(* Correctness *)

\* The button never goes deaf: whenever the interrupt is masked the task is on
\* its way to unmask it, or has the notification that will set it going.
NeverDeaf ==
  at \notin {"booting", "absent"} /\ ~armed => notified \/ at # "wait"

\* A press of the finger calls one callback at most, long or short, while its
\* contact bounces as buttons do: the bounce of the release, which sets off the
\* interrupt again, passes for no second press, and neither does the release
\* after a long press nor a hold past the wrap of the tick count.
OneActPerPress == acts <= 1

HasTask == <>[](at # "absent")

\* A button that stays down fires the long press, whatever the task was doing
\* when it went down: during a callback, or while the device boots, because the
\* interrupt is on the level and not on the edge.  Held on through the factory
\* reset it asked for, it asks for another.
HoldIsSeen ==
  HasTask /\ <>[]down /\ <>[][Restart => firedLong]_vars => []<>firedLong

\* A button that is let go leaves the interrupt unmasked, ready for a press.
ReleaseRearms ==
  HasTask /\ <>[]~down /\ <>[][~Restart]_vars => <>[](armed /\ at = "wait")

=============================================================================
