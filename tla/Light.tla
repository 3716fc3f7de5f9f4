-------------------------------- MODULE Light --------------------------------
(***************************************************************************)
(* The extended colour light of main/matter_setup.cpp: Matter's attribute  *)
(* store, the s_light_* cache that attr_update_cb keeps of it, and the     *)
(* colour last handed to the LED driver.  Four things act on them:         *)
(*                                                                         *)
(*   - the Matter stack carries out a controller's command as a sequence   *)
(*     of attribute writes under the CHIP stack lock, each of which runs   *)
(*     attr_update_cb;                                                     *)
(*   - matter_setup, on the main task, copies the store into the cache     *)
(*     after a boot: attribute::get_val takes the lock for one read, the   *)
(*     assignments and apply_light_state(false) hold nothing;              *)
(*   - matter_button_toggle, on the button task, takes the lock once for   *)
(*     get_val and once more for update;                                   *)
(*   - the power fails, at any moment, and comes back.                     *)
(*                                                                         *)
(* The colour arithmetic (xy_to_rgb, mireds_to_rgb) is left out: a colour  *)
(* is the triple the formulas are applied to, and black where they yield   *)
(* it for any other input.  The fade to a colour is module StatusLed's.    *)
(***************************************************************************)
EXTENDS Integers, Sequences

CONSTANTS
  Levels,              \* values of CurrentLevel
  Points,              \* pairs <<CurrentX, CurrentY>> a controller asks for
  Mireds,              \* values of ColorTemperatureMireds
  PowerOn,             \* what s_light_* are initialised to
  OldStartUps,         \* StartUpColorTemperatureMireds an earlier build stored
  WritesDuringRestore  \* may a command arrive before matter_setup returns?

\* Attribute values are numbers: OnOff is 0 or 1, and ColorMode is Xy or Temp
\* (kCurrentXAndCurrentY and kColorTemperatureMireds).
Null == -1
Xy   == 1
Temp == 2

Xs == {p[1] : p \in Points}
Ys == {p[2] : p \in Points}

\* The values of each attribute that a controller writes.
Values == [on |-> {0, 1}, level |-> Levels, x |-> Xs, y |-> Ys, mireds |-> Mireds,
           mode |-> {Xy, Temp}]

\* The endpoint's attributes, which the stack keeps in NVS, and s_light_*.
Store == [on : {0, 1}, level : Levels, x : Xs, y : Ys, mireds : Mireds,
          mode : {Xy, Temp}, startUp : Mireds \union {Null}]
Cache == [on : {0, 1}, level : Levels, x : Xs, y : Ys, mireds : Mireds,
          useTemp : BOOLEAN]

ASSUME LightAssumption ==
  /\ Levels \subseteq Nat
  /\ Mireds \subseteq Nat
  /\ Points \subseteq Nat \X Nat
  /\ PowerOn \in Cache
  /\ OldStartUps \subseteq Mireds
  /\ WritesDuringRestore \in BOOLEAN

VARIABLES
  nv,      \* the attribute store
  cache,   \* s_light_*
  target,  \* the colour last given to status_led_set_rgb or status_led_fade_rgb
  call,    \* the attribute writes under way, by whoever holds the CHIP lock
  main,    \* how far matter_setup's restore has come
  button,  \* how far matter_button_toggle has come
  failed,  \* history: has the restore's null write failed in this boot?
  left     \* history: the colour the light was left at when the power failed,
           \* and whether the write had failed in that boot

vars == <<nv, cache, target, call, main, button, failed, left>>

Shade(as, point, level) == [as |-> as, point |-> point, level |-> level]
Black   == Shade("black", <<0, 0>>, 0)
Unknown == Shade("unknown", <<0, 0>>, 0)
NotLeft == [rgb |-> Unknown, failed |-> FALSE]
Shades  == {Black} \union [as : {"xy"}, point : Xs \X Ys, level : Levels]
                   \union [as : {"temp"}, point : Mireds \X {0}, level : Levels]

\* A call is "free", about to "store" a value, in attr_update_cb's "callback",
\* or in apply_light_state: about to "render" the cache or to "fade" to it.
CallAt == {"free", "store", "callback", "render", "fade"}
Free == [at |-> "free", todo |-> <<>>, rgb |-> Black]

\* main is about to "get" or "assign" attribute number next, to "repair"
\* StartUpColorTemperatureMireds, to "render" or to "set" the LED, or "done".
MainAt == {"get", "assign", "repair", "render", "set", "done"}
Booting == [at |-> "get", next |-> 1, val |-> 0, rgb |-> Black]

\* The button task is "idle" or has read OnOff and is about to "update" it;
\* raced is history: an OnOff command has come in between.
ButtonAt == {"idle", "update"}
Untouched == [at |-> "idle", val |-> 0, raced |-> FALSE]

\* The attributes in the order in which matter_setup copies them.
RestoreOrder == <<"on", "level", "x", "y", "mireds", "mode">>

Write(attr, val) == [attr |-> attr, val |-> val]
Writes == UNION {[attr : {a}, val : Values[a]] : a \in DOMAIN Values}

\* What a controller asks for.  The colour-control server writes ColorMode with
\* the colour; whether before or after it is not this repository's to say.
Commands ==
  {<<Write("on", b)>> : b \in {0, 1}}
    \union {<<Write("level", l)>> : l \in Levels}
    \union {<<Write("mode", Xy), Write("x", p[1]), Write("y", p[2])>> : p \in Points}
    \union {<<Write("x", p[1]), Write("y", p[2]), Write("mode", Xy)>> : p \in Points}
    \union {<<Write("mode", Temp), Write("mireds", m)>> : m \in Mireds}
    \union {<<Write("mireds", m), Write("mode", Temp)>> : m \in Mireds}

TypeOK ==
  /\ nv \in Store
  /\ cache \in Cache
  /\ target \in Shades
  /\ call \in [at : CallAt, todo : Seq(Writes), rgb : Shades]
  /\ call.at = "free" <=> call.todo = <<>>
  /\ main \in [at : MainAt, next : 1..7, val : Nat, rgb : Shades]
  /\ main.at \in {"get", "assign"} => main.next <= 6
  /\ main.at = "assign" => main.val \in Values[RestoreOrder[main.next]]
  /\ button \in [at : ButtonAt, val : {0, 1}, raced : BOOLEAN]
  /\ failed \in BOOLEAN
  /\ left \in [rgb : Shades \union {Unknown}, failed : BOOLEAN]

-----------------------------------------------------------------------------
(* attr_update_cb and apply_light_state *)

\* apply_light_state: off, brightness 0, y = 0 and 0 mireds all end in black.
Render(c) ==
  IF c.on = 0 \/ c.level = 0 \/ (IF c.useTemp THEN c.mireds ELSE c.y) = 0 THEN Black
  ELSE IF c.useTemp THEN Shade("temp", <<c.mireds, 0>>, c.level)
  ELSE Shade("xy", <<c.x, c.y>>, c.level)

\* Mutant of Assign: the ColorMode branch is missing.
AssignIgnoringMode(c, attr, val) ==
  CASE attr \in {"x", "y"} -> [c EXCEPT ![attr] = val, !.useTemp = FALSE]
    [] attr = "mireds"     -> [c EXCEPT !.mireds = val, !.useTemp = TRUE]
    [] attr = "mode"       -> c
    [] OTHER               -> [c EXCEPT ![attr] = val]

\* Mutant of Assign: the CurrentY branch sets s_light_x.
AssignYToX(c, attr, val) ==
  CASE attr \in {"x", "y"} -> [c EXCEPT !.x = val, !.useTemp = FALSE]
    [] attr = "mireds"     -> [c EXCEPT !.mireds = val, !.useTemp = TRUE]
    [] attr = "mode"       -> [c EXCEPT !.useTemp = (val = Temp)]
    [] OTHER               -> [c EXCEPT ![attr] = val]

\* A colour attribute also selects its colour mode.
Assign(c, attr, val) ==
  CASE attr \in {"x", "y"} -> [c EXCEPT ![attr] = val, !.useTemp = FALSE]
    [] attr = "mireds"     -> [c EXCEPT !.mireds = val, !.useTemp = TRUE]
    [] attr = "mode"       -> [c EXCEPT !.useTemp = (val = Temp)]
    [] OTHER               -> [c EXCEPT ![attr] = val]

\* The call after the write it is at: on to the next one, or over.
Advance ==
  IF Len(call.todo) = 1 THEN Free
  ELSE [at |-> "store", todo |-> Tail(call.todo), rgb |-> Black]

Begin(writes) ==
  /\ call.at = "free"
  /\ call' = [at |-> "store", todo |-> writes, rgb |-> Black]

\* The stack may skip the callback of a write that changes nothing.
StoreValue ==
  /\ call.at = "store"
  /\ LET w == Head(call.todo)
     IN  /\ nv' = [nv EXCEPT ![w.attr] = w.val]
         /\ \/ call' = [call EXCEPT !.at = "callback"]
            \/ nv[w.attr] = w.val /\ call' = Advance
  /\ UNCHANGED <<cache, target, main, button, failed, left>>

\* Mutant of Callback: brightness is tracked but not applied.
CallbackLevelUnapplied ==
  /\ call.at = "callback"
  /\ LET w == Head(call.todo)
     IN  /\ cache' = Assign(cache, w.attr, w.val)
         /\ call' = IF w.attr = "level" THEN Advance
                    ELSE [call EXCEPT !.at = "render"]
  /\ UNCHANGED <<nv, target, main, button, failed, left>>

Callback ==
  /\ call.at = "callback"
  /\ LET w == Head(call.todo) IN cache' = Assign(cache, w.attr, w.val)
  /\ call' = [call EXCEPT !.at = "render"]
  /\ UNCHANGED <<nv, target, main, button, failed, left>>

CallRender ==
  /\ call.at = "render"
  /\ call' = [call EXCEPT !.at = "fade", !.rgb = Render(cache)]
  /\ UNCHANGED <<nv, cache, target, main, button, failed, left>>

CallFade ==
  /\ call.at = "fade"
  /\ target' = call.rgb
  /\ call' = Advance
  /\ UNCHANGED <<nv, cache, main, button, failed, left>>

Update == StoreValue \/ Callback \/ CallRender \/ CallFade

-----------------------------------------------------------------------------
(* matter_setup, after esp_matter::start *)

\* Each branch of the restore sets one variable of the cache; unlike
\* attr_update_cb it does not let x, y or mireds choose the mode.
AssignRestored(c, attr, val) ==
  IF attr = "mode" THEN [c EXCEPT !.useTemp = (val = Temp)]
                   ELSE [c EXCEPT ![attr] = val]

\* get_val fails only for an attribute that does not exist, and create_endpoints
\* has made all six: the code's branch for its failure is not one here.
GetVal ==
  /\ main.at = "get" /\ call.at = "free"
  /\ main' = [main EXCEPT !.at = "assign", !.val = nv[RestoreOrder[main.next]]]
  /\ UNCHANGED <<nv, cache, target, call, button, failed, left>>

AssignVal ==
  /\ main.at = "assign"
  /\ cache' = AssignRestored(cache, RestoreOrder[main.next], main.val)
  /\ main' = [main EXCEPT !.next = @ + 1,
                          !.at = IF main.next < Len(RestoreOrder) THEN "get" ELSE "repair"]
  /\ UNCHANGED <<nv, target, call, button, failed, left>>

\* Mutant of Repair: the start-up temperature stays stored.
RepairNothing ==
  /\ main.at = "repair" /\ call.at = "free"
  /\ main' = [main EXCEPT !.at = "render"]
  /\ UNCHANGED <<nv, cache, target, call, button, failed, left>>

\* attr_update_cb ignores this attribute, so its write is one step.
Repair ==
  /\ main.at = "repair" /\ call.at = "free"
  /\ nv' = [nv EXCEPT !.startUp = Null]
  /\ main' = [main EXCEPT !.at = "render"]
  /\ UNCHANGED <<cache, target, call, button, failed, left>>

\* The server may not take writes yet, and nobody looks at what update returns:
\* the start-up temperature stays stored.
RepairFails ==
  /\ main.at = "repair" /\ call.at = "free"
  /\ main' = [main EXCEPT !.at = "render"]
  /\ failed' = TRUE
  /\ UNCHANGED <<nv, cache, target, call, button, left>>

MainRender ==
  /\ main.at = "render"
  /\ main' = [main EXCEPT !.at = "set", !.rgb = Render(cache)]
  /\ UNCHANGED <<nv, cache, target, call, button, failed, left>>

MainSet ==
  /\ main.at = "set"
  /\ target' = main.rgb
  /\ main' = [main EXCEPT !.at = "done"]
  /\ UNCHANGED <<nv, cache, call, button, failed, left>>

Restore == GetVal \/ AssignVal \/ Repair \/ RepairFails \/ MainRender \/ MainSet

-----------------------------------------------------------------------------
(* Controllers, the button, and the power *)

Command ==
  /\ WritesDuringRestore \/ main.at = "done"
  /\ \E writes \in Commands :
       /\ Begin(writes)
       /\ button' = [button EXCEPT
            !.raced = @ \/ (button.at = "update" /\ writes[1].attr = "on")]
  /\ left' = NotLeft
  /\ UNCHANGED <<nv, cache, target, main, failed>>

\* Mutant of Press: get_val does not wait for the CHIP stack lock.
PressUnlocked ==
  /\ main.at = "done" /\ button.at = "idle"
  /\ button' = [Untouched EXCEPT !.at = "update", !.val = 1 - nv.on]
  /\ UNCHANGED <<nv, cache, target, call, main, failed, left>>

\* matter_button_toggle; button_init runs after matter_setup has returned.
Press ==
  /\ main.at = "done" /\ button.at = "idle" /\ call.at = "free"
  /\ button' = [Untouched EXCEPT !.at = "update", !.val = 1 - nv.on]
  /\ UNCHANGED <<nv, cache, target, call, main, failed, left>>

ButtonUpdate ==
  /\ button.at = "update"
  /\ Begin(<<Write("on", button.val)>>)
  /\ button' = Untouched
  /\ left' = NotLeft
  /\ UNCHANGED <<nv, cache, target, main, failed>>

\* Its update may fail as well, which is ignored too: the press is lost.
ButtonUpdateFails ==
  /\ button.at = "update" /\ call.at = "free"
  /\ button' = Untouched
  /\ UNCHANGED <<nv, cache, target, call, main, failed, left>>

\* No call is under way, and matter_setup has returned.
Quiet == call.at = "free" /\ main.at = "done"

\* At power-up the colour-control server takes a stored start-up temperature
\* for the colour; null leaves the colour as it was.
StartUp(s) ==
  IF s.startUp = Null THEN s
  ELSE [s EXCEPT !.mode = Temp, !.mireds = s.startUp]

\* Mutant of Fresh: with a start-up temperature, as earlier builds had it.
FreshForcing ==
  [on |-> PowerOn.on, level |-> PowerOn.level, x |-> PowerOn.x, y |-> PowerOn.y,
   mireds |-> PowerOn.mireds, mode |-> Xy, startUp |-> PowerOn.mireds]

\* What create_endpoints gives a device without stored attributes: the power-on
\* values of the cache, and null start-up attributes.
Fresh ==
  [on |-> PowerOn.on, level |-> PowerOn.level, x |-> PowerOn.x, y |-> PowerOn.y,
   mireds |-> PowerOn.mireds, mode |-> Xy, startUp |-> Null]

Restart(store) ==
  /\ nv' = StartUp(store)
  /\ cache' = PowerOn
  /\ target' = Black
  /\ call' = Free
  /\ main' = Booting
  /\ button' = Untouched
  /\ failed' = FALSE

PowerCycle ==
  /\ Restart(nv)
  /\ left' = IF Quiet THEN [rgb |-> target, failed |-> failed] ELSE left

\* matter_factory_reset, from a long press: the stored attributes are erased.
FactoryReset ==
  /\ main.at = "done" /\ button.at = "idle"
  /\ Restart(Fresh)
  /\ left' = NotLeft

\* A device that ran an earlier build starts with a start-up temperature.
Init ==
  /\ nv \in {StartUp([Fresh EXCEPT !.startUp = s]) : s \in OldStartUps \union {Null}}
  /\ cache = PowerOn
  /\ target = Black
  /\ call = Free
  /\ main = Booting
  /\ button = Untouched
  /\ failed = FALSE
  /\ left = NotLeft

Next ==
  \/ Update
  \/ Restore
  \/ Command
  \/ Press
  \/ ButtonUpdate
  \/ ButtonUpdateFails
  \/ PowerCycle
  \/ FactoryReset

Spec == Init /\ [][Next]_vars

\* The stack finishes a call it has begun, and the main and button tasks run.
FairSpec ==
  /\ Spec
  /\ WF_vars(Update)
  /\ WF_vars(Restore)
  /\ WF_vars(ButtonUpdate \/ ButtonUpdateFails)

-----------------------------------------------------------------------------
(* Correctness *)

\* What the cache should hold for a store.
Mirror(s) ==
  [on |-> s.on, level |-> s.level, x |-> s.x, y |-> s.y, mireds |-> s.mireds,
   useTemp |-> s.mode = Temp]

\* With no call under way the cache agrees with the attribute store, colour mode
\* included, after any mix of commands, presses and power cuts.
CacheMirrorsStore == Quiet => cache = Mirror(nv)

\* With no call under way the LED is headed for the colour the attributes say:
\* what Home Assistant reads back is what the lamp shows.
LedFollowsStore == Quiet => target = Render(Mirror(nv))

\* Until the first command or press after a power cut the LED is at the colour the
\* light was left at, temperature or xy, also on a device that ran an earlier
\* build, if only the null write went through in the boot the light was left in.
ComesBackAsLeft ==
  Quiet /\ left.rgb # Unknown /\ ~left.failed => target = left.rgb

\* Both sides can switch the light: a press writes the opposite of what OnOff is
\* at that moment, unless an OnOff command came in between its read and its write.
PressFlips ==
  [][ButtonUpdate /\ ~button.raced => button.val # nv.on]_vars

\* Once no command, press or restart comes any more, the LED settles on the
\* colour of the attributes, however the last of them overlapped.
LedSettles ==
  <>[][Update \/ Restore \/ ButtonUpdate \/ ButtonUpdateFails]_vars
    => <>[](target = Render(Mirror(nv)))

\* The light keeps the promise of module Lamp up to the LED driver: only a command
\* or a press changes the colour it is set to; restoring it, and once no start-up
\* temperature is stored a power cut at any moment, half a command stored, change
\* nothing of it; and the driver has that colour whenever the light is quiet.
Phase ==
  IF main.at # "done" THEN "restoring"
  ELSE IF call.at = "free" THEN "quiet" ELSE "working"

AsLamp == INSTANCE Lamp WITH
  Colours <- Shades, Dark <- Black, Factory <- Render(Mirror(Fresh)),
  want <- Render(Mirror(nv)), kept <- nv.startUp = Null,
  shown <- target, phase <- Phase

IsLamp == AsLamp!Spec

=============================================================================
