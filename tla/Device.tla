------------------------------- MODULE Device -------------------------------
(***************************************************************************)
(* The light and its LED together: module Lamp, which Light implements,    *)
(* calling the driver of module StatusLed.  What Light hands over is the   *)
(* driver's target: apply_light_state(true) is a status_led_fade_rgb by    *)
(* whoever holds the CHIP stack lock, apply_light_state(false) the one     *)
(* status_led_set_rgb of matter_setup on the main task.                    *)
(*                                                                         *)
(* The device is commissioned: main sets no other colour (those of         *)
(* run_commissioning are module Boot's).  The power may fail at any        *)
(* moment, in the middle of a fade.                                        *)
(***************************************************************************)
EXTENDS StatusLed

VARIABLES
  want,  \* the colour the stored attributes say
  kept,  \* will a power cut leave that colour alone?
  phase  \* of the light: "restoring", "quiet" or "working"

device == <<vars, want, kept, phase>>

Light == INSTANCE Lamp WITH
  Colours <- Fades, Dark <- Black, Factory <- Black, shown <- tgt

DeviceInit == Init /\ Light!Init

\* The callback returns to the stack only when the driver has returned to it.
Returned == \A c \in Callers : caller[c] = Idle

\* matter_setup's null for the start-up temperature, where the write goes through.
Heal == Light!Heal /\ UNCHANGED vars

\* matter_setup's apply_light_state(false), its last step that matters here.
Restore ==
  /\ phase = "restoring" /\ MayRun("main")
  /\ MainSetRgb(want)
  /\ Light!Settle

\* A command or a press starts once matter_setup has returned.
Command == Returned /\ Light!Command /\ UNCHANGED vars

Store == Returned /\ Light!Store /\ UNCHANGED vars

\* apply_light_state(true)
Show ==
  /\ Returned /\ MayRun("matter")
  /\ \E rgb \in Fades : FadeRgb(rgb)
  /\ Light!Show

\* The last attribute of the command has been applied.
Finish == phase = "working" /\ Returned /\ UNCHANGED vars /\ Light!Settle

\* Power-up starts the driver anew, with the strip dark.
PowerUp ==
  /\ cur' = Black /\ tgt' = Black /\ led' = Black
  /\ fadeActive' = FALSE
  /\ rmtReady' \in IF "rmt" \in Faults THEN BOOLEAN ELSE {TRUE}
  /\ caller' = [c \in Callers |-> Idle]
  /\ task' = [t \in Tasks |-> NoTask]

PowerCycle == Light!PowerCycle /\ PowerUp

FactoryReset == Light!FactoryReset /\ PowerUp

\* The driver goes on by itself.
Driver ==
  /\ \/ \E c \in Callers : InCall(c)
     \/ \E t \in Tasks : FadeTask(t)
  /\ UNCHANGED <<want, kept, phase>>

DeviceNext ==
  \/ Heal \/ Restore \/ Command \/ Store \/ Show \/ Finish
  \/ PowerCycle \/ FactoryReset
  \/ Driver

DeviceSpec == DeviceInit /\ [][DeviceNext]_device

DeviceFairSpec ==
  /\ DeviceSpec
  /\ \A c \in Callers : WF_device(InCall(c) /\ UNCHANGED <<want, kept, phase>>)
  /\ \A t \in Tasks : WF_device(FadeTask(t) /\ UNCHANGED <<want, kept, phase>>)

-----------------------------------------------------------------------------
(* Correctness *)

\* A target that no task fades to: set after the last look of an exiting task
\* (LossOnlyAtExit), or out of reach without a channel.
Lost == AtRest /\ cur # tgt

\* What the strip shows keeps the lamp's promise too, through fades, retargets,
\* failures of xTaskCreate and power cuts: whenever nothing is at work on it and
\* no target was lost, it shows the colour of the attributes, and a power cut
\* anywhere in a fade takes it to no other colour than theirs.
StripPhase ==
  IF phase = "restoring" \/ caller["main"] # Idle THEN "restoring"
  ELSE IF phase = "quiet" /\ AtRest /\ ~Lost THEN "quiet" ELSE "working"

Strip == INSTANCE Lamp WITH
  Colours <- Color, Dark <- Black, Factory <- Black, shown <- led,
  phase <- StripPhase

StripIsLamp == Strip!Spec

\* From end to end: once commands and presses are over, the strip comes to show
\* what a controller reads back, or a target was lost.
EndToEnd == <>[](phase = "quiet") => <>[](led = want \/ Lost)

=============================================================================
