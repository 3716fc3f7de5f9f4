# A verification of the Matter light demo

TLA+ models of esp-demo-matter: the firmware of a Matter-over-Thread colour
light on an ESP32-C6 (`main/`, C++), with the tool that releases updates for it
(`tools/ota/`, Python). TLC checks the models on small instances; TLAPS proves
every safety property the runs check, and both refinements, for every value of
the constants.
Paths and line numbers are the repository's.

## 1. The system

| Component | Source | State | Operations |
|---|---|---|---|
| Status LED driver | `main/status_led.cpp` | `s_cur_*`, `s_tgt_*`, `s_fade_active`, the RMT channel | `status_led_fade_rgb`, `status_led_set_rgb`, `status_led_set`, the task `fade_task` |
| Light state | `main/matter_setup.cpp` 213-386, 477-523, 550-568 | Matter's attributes (in NVS), their cache `s_light_*` | `attr_update_cb`, `apply_light_state`, the restore in `matter_setup`, `matter_button_toggle` |
| Button | `main/button.cpp` | the pin, the interrupt mask, the task's notification | `button_isr`, `button_task`, `button_init` |
| Boot and commissioning | `main/app_main.cpp`, `main/matter_setup.cpp` 75-211, 570-596 | event-group bits, the commissioning window, the codes, the fabric table | `app_main`, `run_commissioning`, `matter_event_cb`, `matter_get_pairing_codes`, `matter_factory_reset` |
| Update confirmation | `main/matter_setup.cpp` 117-131, partitions, sdkconfig | two app slots, otadata | `confirm_running_image`; the bootloader and the OTA requestor around it |
| Release tool | `tools/ota/matter_ota.py` | `config.json`, the provider's store, the version number | `pair`, `release`, `offer`, `status` |
| Colour conversion | `main/matter_setup.cpp` 235-330 | none | `xy_to_rgb`, `mireds_to_rgb`, the scale of `apply_light_state` |
| Others | `spake2p_verifier.py`, `serial_monitor.py`, Docker, CI, renovate, configuration | none, or outside TLC's reach | see section 7 |

How they interact. The *main* task runs `app_main`: it blinks the LED, starts
the Matter stack, restores the light, starts the button, waits for a
commissioning and ends. The *CHIP* task carries out controllers' commands (each
an ordered list of attribute writes, each write calling `attr_update_cb`) and
events (`matter_event_cb`). The *button* task calls `matter_button_toggle` or
`matter_factory_reset`. A *fade* task exists while a fade is under way. They
share `s_light_*` (no lock of its own), the driver's variables (critical
sections), two event groups, and the CHIP stack lock, which the stack takes for
one `get_val` or one `update` at a time.

What is hard: four tasks of different priorities on the LED; a lock that covers
single reads and writes but not the read-modify-writes built from them; a stack
that serves commands while `matter_setup` is still restoring; power cuts at any
moment, with state in NVS; timeouts of 30 s, 300 s and 600 s that race answers;
a level-triggered interrupt that masks itself.

What makes each part correct:

- *LED driver*: one fade task at most; the flag that suppresses a second one is
  never left behind; steps lie between the colours; the last target is reached.
- *Light*: cache, LED and attribute store agree whenever nothing is under way,
  and a power cut changes nothing the user sees, once no start-up temperature is
  stored any more.
- *Whole device*: the strip, at the end of callbacks, fades and power cuts, shows
  the colour a controller reads back.
- *Colour*: the level (to 254) alone sets the brightness; a lit light is never
  dark.
- *Button*: never deaf, a hold always seen, one callback per press as far as the
  debounce reaches.
- *Boot*: the commissioned bit stands for a fabric in NVS; the guard's restart
  spares the first commissioning of a device (with a fail-safe of up to 300 s);
  and a device that has never had a fabric reopens its window again and again.
  Each of these has its exceptions, which sections 5 and 6 give: a window that
  fails to open, a join that is reverted, a fabric that was there and is gone.
- *Updates*: there is always an image to boot, and one that came up stays.
- *Release tool*: wherever it was cut off before, a light it tells of the
  provider is let in, and a release it reports done has reached every node.

## 2. Modules

| Module | Models | Extends |
|---|---|---|
| `Lamp` | the abstract promise: a lamp that shows what its attributes say | |
| `StatusLed` | the LED driver | |
| `MCStatusLed` | its instances for TLC | `StatusLed` |
| `StatusLedProofs` | its theorems | `StatusLed`, `TLAPS` |
| `Light` | the light's state | |
| `MCLight` | its instances for TLC | `Light` |
| `LightProofs` | its theorems, and that it implements `Lamp` | `Light`, `TLAPS` |
| `Device` | a `Lamp` driving the LED driver: the whole device | `StatusLed` |
| `MCDevice` | its instance for TLC | `Device`, `MCStatusLed` |
| `DeviceProofs` | its theorems, and that it implements `Lamp` | `Device`, `StatusLedProofs` |
| `Colour` | the colour arithmetic | |
| `MCColour` | its instance for TLC | `Colour` |
| `ColourProofs` | its theorems | `Colour`, `TLAPS` |
| `Button`, `ButtonProofs` | the button and its theorems | |
| `Boot`, `BootProofs` | boot and commissioning and its theorems | |
| `OtaSlots`, `OtaSlotsProofs` | the slots and their theorems | |
| `OtaTool`, `OtaToolProofs` | the release tool and its theorems | |

Every module has its constants and their assumption first, then variables,
type invariant, Init, one action per step of the code, Next, `Spec` and
`FairSpec`, and its properties last. A definition called "Mutant of X" is X with
a plausible bug; it is used by no specification here and serves to see that the
property it is paired with in `PROJECT.json` can fail.

**StatusLed.** A critical section is one step, and so is each call made outside
of one (`xTaskCreate`, `rmt_transmit`, `vTaskDelay`). There are two callers:
"matter", whoever holds the CHIP lock and so runs `attr_update_cb`, and "main".
`FadeRgb`/`CreateTask`/`CreateFails`/`FallbackSetRgb` are `status_led_fade_rgb`;
`SetRgb`, `CallerLatch` and `CallerTransmit` are `status_led_set_rgb` with
`status_led_write_now`; `Snapshot` .. `Exit` are `fade_task`. The chip has one
core, so a caller interrupts a fade task in the middle of a step only if its
priority is higher (`Preempting`), but any caller runs while the task sleeps.
`status_led_set(STATUS_LED_BOOT)` is over before any other task exists, and has
already tried, once and for all, to set up the RMT channel: Init has it up or
missing for good. Colours are functions from channels to levels, and the
interpolation is the code's integer arithmetic with C's rounding.

**Light.** `nv` is the attribute store, `cache` is `s_light_*`, `target` the
colour last handed to the LED driver. Two updates of attributes are made by
the code itself, which looks at the result of neither: the null that the restore
writes over a stored start-up temperature (`Repair`, or `RepairFails`) and the
button's write (`ButtonUpdate`, or `ButtonUpdateFails`). A command is a sequence of `Write`s
carried out one by one under the CHIP lock: `StoreValue`, `Callback`,
`CallRender` and `CallFade`. Both orders of `ColorMode` and the colour are
allowed, since the colour-control server is not in the repository. The restore
is interleaved at each lock section (`GetVal`, `AssignVal`, `Repair`) and at
each access to shared state (`MainRender`, `MainSet`); that a `get_val` fails is
left out, since the endpoint and its attributes exist by then, as is the same
test in `matter_button_toggle`. `PowerCycle` may happen at
any point, with half a command stored; `StartUp` is what the Matter
specification makes of a start-up temperature (the comment at 505-510). The
colour formulas are abstracted to the triple they are applied to, with the
inputs that give black (off, level 0, y = 0, 0 mireds) told apart.

**Lamp.** An abstract specification, translated from no code: what the light
promises whoever carries it out. It has the colour the attributes say (`want`),
the colour shown, and a phase. Only while it works on a command may either
change; when it becomes quiet they agree. A power cut darkens it; what it is set
to stays, as long as it is `kept`: a lamp may start with something stored that
overrides its colour at every start, and then a power cut may change the colour,
until a restore removes it (`Heal`), which it may or may not do, and from then
on never again. Two modules implement it: `Light!IsLamp`, with the colour
handed to the driver for the one shown and "no start-up temperature is stored"
for `kept`, and `Device!StripIsLamp`, with the frame
on the strip. Both refinements are checked by TLC and proved (section 6).

**Device.** The composition: `Lamp`, in the place of `Light`, calls the driver of
`StatusLed`, its `shown` being the driver's target. Since `Light` implements
`Lamp`, what is safe for every `Lamp` driving the strip is safe for this one, and
the product of both state spaces need not be explored. A power cut starts the
driver anew in the middle of a fade.

**Colour.** The bytes `apply_light_state` hands over, from the cache. `x` and `y`
are integers over `One` (65536 in the code), so the linear channels are exact,
with the code's coefficients; the clamps, the rounding and the cast to a byte
are too. Floating-point curves cannot be evaluated by TLC: a channel strictly
inside their range is any of `Grays`, and only where they saturate (0, or from
0.9956 on 255) is the value known, which is what brightness depends on. Module
`Light`'s `Assign` and `Render` are used as they are, and `BlackAsRendered` checks
the abstraction `Light` makes of this arithmetic.

**Button.** The pin is one of two things, for good (`contact`). Either it changes at
any moment (`FingerMoves`), which includes every way of bouncing. Or the finger is
told from its contact: for a while after each move of the finger the pin goes up
and down (`ContactBounces`), then it rests where the finger is (`Settle`). Such a
while is shorter than any delay of the task, 20 ms at least (`DelayBegins`,
`DelayEnds`), and the finger does not press again during a debounce. In the first
case every fall of the pin is a press, in the second every one of the finger. The device
may restart with the button down. Time is counted in polls of the hold loop;
`HoldPolls` is 100 as in the code (5000 ms in steps of 50 ms), and the count
wraps at `TickWrap` as the difference of two tick counts does.

**Boot.** The main task, the CHIP task's queue of events, and the window. It
begins before the node is created, where a failure restarts the device, and ends
with `app_main`. A window may fail to open, either code may not be to be had
(`codes`), a controller may open a window for another, fabrics may go, and an
event may be lost. A join adds its fabric to the table (`AddFabric`), where
`FabricCount` counts it, and commits it at its end (`JoinCompletes`) or reverts it
(`Revert`); whether a revert posts `kFabricRemoved` is the stack's affair, so it
may or may not. `failed` remembers which of these failures there have been. Time is
counted in ticks of 30 s, so that all of the code's timeouts are whole numbers
of ticks: 1 for the codes and the server, 10 for the window, 20 for the guard.

**OtaSlots.** Only `ServerReady` is the repository's (`confirm_running_image`);
the bootloader, esp_ota and the requestor are external, modelled from the
configuration and the comments that rely on them. An image "works", "crashes"
before the server is up, or "hangs".

**OtaTool.** One command runs at a time, as a sequence of the calls it makes;
`Raise` ends it at any of them, keeping what is already in `config.json`,
`CMakeLists.txt`, the provider's store and the lights. Nodes are visited in any
order. `--node` is left out: it puts the choice of node in the user's hands.

## 3. Runs

| Run | Properties | Bounds |
|---|---|---|
| `StatusLed` | `TypeOK`, `AtMostOneFadeTask`, `FlagMeansWorker`, `FadeStepsBetween`, `Converges`, `FadeEnds` | one channel, levels 0..5, fades of 3 steps, three fade colours, two set colours, every fault |
| `Light` | `TypeOK`, `CacheMirrorsStore`, `LedFollowsStore`, `ComesBackAsLeft`, `PressFlips`, `LedSettles`, `IsLamp` | 2 levels, 3 points (one with y = 0), 2 temperatures, a fresh device or one with either temperature stored |
| `Device` | `RestingLedShowsCur`, `LossOnlyAtExit`, `StripIsLamp`, `EndToEnd` | two channels fading in opposite directions, 3 steps, `xTaskCreate` may fail, power cuts at any step |
| `Colour` | `BrightnessIsLevel`, `BlackAsRendered` | `One` = 64, 5 x 6 values of x and y, 6 temperatures, 6 levels with 255, 3 grays |
| `Button` | `NeverDeaf`, `OneActPerPress`, `HoldIsSeen`, `ReleaseRearms` | the code's own hold time, any movement of the pin or a bouncing contact |
| `Boot` | `TypeOK`, `BitMeansFabric`, `CodesPrinted`, `GuardSparesJoin`, `StaysCommissionable`, `CommissionedComesUp` | 2 fabrics, a queue of 2 that controllers may fill, the code's timeouts in ticks, all faults |
| `OtaSlots` | `TypeOK`, `AlwaysBootable`, `NeverUndone`, `EndsUp` | 4 versions of every kind |
| `OtaTool` | `TypeOK`, `ToldMayFetch`, `DoneMeansUpdated`, `BumpedIsNewer` | 2 lights, 2 nodes, 4 numbers |

Why these bounds are enough. In `StatusLed` 5 is no multiple of 3, so the
division rounds in both directions; two task slots are enough to see a second
task, which `AtMostOneFadeTask` forbids; three fade colours let a fade be
retargeted away and back. In `Light` two values of each attribute tell a stale
value from a fresh one, and the cuts hit between any two writes. `Button` uses
the code's numbers, but for the wrap of the count, which at 128 is near enough to
be met. `Boot` has the code's ratios of timeouts, and a second fabric
is enough for one to be removed, or joining, while another stays. In `OtaSlots` four versions
allow an update after a failed one in either slot; the slots see only the order
of versions. In `Device` the three colours and two task slots are those of
`StatusLed`, enough for a command whose writes show one colour on the way to
another. In `Colour` the points are the corners and edges of the plane, the
white point, the primaries and points no colour has; the temperatures lie on both
sides of each branch; `ColourProofs` covers the rest. In `OtaTool` a second light
makes the access list stale after a first release, and four numbers allow a release after one that failed to build.

`Light` runs with `WritesDuringRestore = FALSE`: no command comes before
`matter_setup` returns. The run `LightRestoreRace` shows what happens otherwise,
and is the only reason for the restriction. In `Colour` both properties are about
levels to 254: CurrentLevel is nullable, a null is read as 255, scaled to 256 and
cast to 0, so that a lit light is dark; whether it is ever null is esp_matter's
affair. `Device` leaves out
the RMT channel's failure, without which the strip is dark for good, and a failed
transmission, of which the driver does not know (section 5).

## 4. Fairness

FreeRTOS runs every ready task in the end, and delays and timeouts end: weak
fairness for the steps of the fade task, of a call under way, of the main, CHIP
and button tasks, of the boot, and of time. In `Boot` time has strong fairness: a
tick waits for the handlers to finish, and passes in the end although controllers
give them work again and again; that they catch up is a premise of the liveness
properties (`NoMoreRestarts`). Nothing obliges a controller, a user, a commissioner or
the power: they have none, and the liveness properties that need them to be
quiet say so ("once no command, press or restart comes any more"). The
exceptions are `OtaSlots`, where the power must come back and a crashing image
does crash, and the button, whose interrupt fires while its level holds and whose
contact comes to rest.

## 5. Where the code and its words part

Four runs end in a counterexample, each checking one sentence of a comment:

- `StatusLedLateTarget`: the fade task decides to exit from a snapshot (line
  108) and clears its flag in a later critical section (130). A target set in
  between creates no task and is never shown. `LossOnlyAtExit` shows that this
  is the only step that can lose one.
- `StatusLedDirectSet`: a direct set writes its target (163) and `s_cur` (176)
  in two critical sections; a fade task that looks in between starts a fade from
  the old colour, whose next step takes the LED off the colour just set.
- `LightRestoreRace`: the stack serves commands before the restore is over, and
  a write between a `get_val` and its assignment, or between the last one and
  `apply_light_state(false)`, is overwritten by the older value.
- `BootLed`: after a fresh commissioning `STATUS_LED_OK` leaves the LED dark
  although the light may be on.

Others the models allow, for which no run is kept: without an RMT channel
`s_cur` never moves and a fade task loops for ever (the reason for `rmtReady` in
`Converges` and `FadeEnds`); the null that the restore writes over a start-up
temperature of an earlier build may fail, for it is too early for writes by
app_main's own comment (lines 111-112), and nobody looks at the result, so that
the light comes back in the old temperature at the next power-up
(`ComesBackAsLeft` is about boots in which the write succeeded);
`matter_is_commissioned`, "true if the device has a commissioned fabric in NVS" by
its header, counts a fabric that a controller has added and not committed, and if
main looks then and the join fails later, nothing reopens the window (it takes a
controller that joins in the moments between the opening of the window and main's
look; `StaysCommissionable` leaves such a device out); a command between the button's read and write makes
the press write the value already there (`PressFlips` shows that nothing else
does); a press whose update fails is lost; a button held through the factory reset it asked for is a new press to the
restarted device; a release shorter than 50 ms is not
seen by the hold loop; a contact that bounces for longer than the 20 ms, or
glitches in the middle of a hold, at the sample at the head of the hold loop (line
54, which nothing debounces), makes one press two; a window that fails to open,
or a code that the stack fails to give, makes `run_commissioning` print empty
codes; after its last fabric is removed a running device is commissionable for 300 s only; an image that hangs
before the server is up is not rolled back until somebody cuts the power
(`EndsUp` excludes it); a light whose pairing fails at the last read keeps its
node, which the next pairing hands out again; one unreachable light ends an
offer for the others.

## 6. Proofs

All proofs are checked by `tlapm`; they assume only the named assumptions on the
constants (`StatusLedAssumption`, `LightAssumption`, `ColourAssumption`,
`ButtonAssumption`, `BootAssumption`, `OtaSlotsAssumption`, `OtaToolAssumption`)
and the hypotheses given below. Every safety property of a passing run is stated
by a theorem. The safety properties and their theorems:

| Module | Theorem (property) | Hypothesis |
|---|---|---|
| `StatusLedProofs` | `TypeCorrect` (`TypeOK`), `OneFadeTask` (`AtMostOneFadeTask`), `FlagNeverWedged` (`FlagMeansWorker`), `FadesStayBetween` (`FadeStepsBetween`) | |
| | `RestShowsCur` (`RestingLedShowsCur`) | main sets no colours, transmissions succeed |
| `LightProofs` | `TypeCorrect` (`TypeOK`), `PressAlwaysFlips` (`PressFlips`) | |
| | `CacheIsMirror` (`CacheMirrorsStore`), `LedFollows` (`LedFollowsStore`), `ComesBack` (`ComesBackAsLeft`), `LightIsLamp` (`IsLamp`) | no command during the restore |
| `DeviceProofs` | `DeviceLosesOnlyAtExit` (`LossOnlyAtExit`) | |
| | `DeviceRestShowsCur` (`RestingLedShowsCur`) | transmissions succeed |
| | `StripImplementsLamp` (`StripIsLamp`) | the RMT channel is there and transmissions succeed |
| `ColourProofs` | `LevelIsBrightness` (`BrightnessIsLevel`), `BlackIsRendered` (`BlackAsRendered`) | |
| `ButtonProofs` | `ButtonNeverDeaf` (`NeverDeaf`), `OneCallbackPerPress` (`OneActPerPress`) | |
| `BootProofs` | `TypeCorrect` (`TypeOK`), `SuccessMeansFabric` (`BitMeansFabric`), `CodesArePrinted` (`CodesPrinted`) | |
| | `GuardSpares` (`GuardSparesJoin`) | window and fail-safe together do not exceed the guard |
| `OtaSlotsProofs` | `TypeCorrect` (`TypeOK`), `DeviceBoots` (`AlwaysBootable`), `UpdatesStay` (`NeverUndone`) | |
| `OtaToolProofs` | `TypeCorrect` (`TypeOK`), `ToldLightsMayFetch` (`ToldMayFetch`), `OffersReachAll` (`DoneMeansUpdated`), `ReleasesAreNewer` (`BumpedIsNewer`) | |

The hypotheses, and why they are there:

- *No command during the restore* (`WritesDuringRestore = FALSE`): a write
  during it can be overwritten by the older value and leave store, cache and LED
  apart, which is what the run `LightRestoreRace` shows. `PressFlips` and `TypeOK`
  need no such thing.
- *Transmissions succeed*, *the RMT channel is there*: `s_cur` is advanced before
  `rmt_transmit` is tried, and without the channel the strip is dark for good
  (section 5).
- *Main sets no colours* in `RestShowsCur`: two writers at once are the subject of
  `StatusLedDirectSet`. In `Device` main does set one, the light restored at
  power-up, and there the hypothesis is not needed but proved: `OwnerInv` says that
  this happens while nobody else is at the driver.
- *Window + fail-safe <= guard*: the window is 300 s and the guard 600 s, so the
  theorem covers every fail-safe of up to 300 s; its length is the controller's
  choice. Where a longer one started at the window's last moment, the guard
  could cut it off. The property itself leaves out a device one of whose attempts
  was reverted with a `kFabricRemoved`: that event opens the window once more, as
  late as the first attempt ended, and the guard does not wait for it.

The arguments:

- **StatusLed.** Type correctness says that the interpolation stays in
  0..MaxLevel, and rests on the lemmas `ScaleBounds` and `InterpolateBounds` about
  integer division. That no second task is created follows from the flag being
  set while a task lives, and that it is never wedged from the converse: the
  invariant `TaskInv` joins both into "the flag is set exactly while a task lives
  or is being created". `FadesStayBetween` follows from it and the same lemmas: the
  last step is exactly the target because Steps divides (b - a) * Steps. For
  `RestShowsCur`, `OrderInv` says that there is one writer and what it is about to
  transmit is `s_cur`; then `FrameInv`, "the LED shows `s_cur` unless the writer is
  between the two", is inductive.
- **Light.** `CallInv` relates what a command has still to write to the store: a
  colour on its way comes with its mode, on its way or already stored. `PressInv`
  says the same of the button's value, and gives `PressAlwaysFlips`: once the
  button has read OnOff, no call under way will write it, unless an OnOff command
  raced it. `SyncInv` is the heart of the rest: after the restore each attribute is
  the same in cache and store but for the one whose callback is about to run, the mode is that of the store or of a
  write to come, and the LED has the colour of the cache except between
  `CallRender` and the next step. `CacheMirrorsStore` alone is far from inductive,
  since it says nothing of a command half carried out. `RestoreInv` says the same
  of the attributes copied so far, and `LeftInv` that past the
  repair (505-517) no start-up temperature is stored unless the write failed, and
  that a light left so is found so. All five are joined in `LightInv`.
- **Light implements Lamp.** `NextIsLamp` maps each step: `Command` and `ButtonUpdate`
  to `Lamp!Command`, `StoreValue` to a change of the colour wanted, `CallFade` to one
  of the colour shown or, at the end of a command, to `Lamp!Settle`, `MainSet` to
  `Lamp!Settle`, `Repair` to `Lamp!Heal`, a power cut to a power cut, and the others to stutters. What `Lamp`
  asks when the light becomes quiet is `QuietLight`.
- **Device.** `StatusLedProofs` states its steps for any caller (`AnyStep`,
  `ApartStep`), and `PoweredStep` and `DriverStep` show that each step of the device
  is one of those or a restart, so `TaskInv`, `OrderInv` and `FrameInv` carry over.
  `OwnerInv` says who is at the driver in which phase of the lamp.
  `DeviceLosesOnlyAtExit` then follows step by step with no hypothesis on faults.
  `StripImplementsLamp` maps the driver's steps to changes of the colour shown, and
  the last of them, or the command's end if that comes later, to `Lamp!Settle`; for
  this it needs `FrameInv`, while a lost target keeps the lamp working. Since
  `LightIsLamp` shows that `Light` is such a lamp, the two together reach from a command to the strip.
- **Colour.** `LinearPeak` is the heart: wherever x and y are in 0..1, one of the
  three linear channels reaches 0.9956 of full, which gamma rounds to 255. It is a
  near thing: at the white point (0.3227, 0.3290) all three are 0.9999992, below
  the 1.0 they are clamped to. `BlackIsRendered` rests on it: a lit colour has a
  channel that does not round to 0.
- **Button.** `NeverDeaf` needs only where the task is. `OneCallbackPerPress` rests
  on `PinInv`, what pin, finger and bounce can be in each place of the task, and
  `ActsInv`, which says where in the hold loop a callback has been made: the bounce
  of a release is over, and the pin up, when a debounce ends that began after it.
- **Boot.** `FabricInv` follows the event of a completed commissioning from its
  post to the bit: it is in the queue only if a fabric has been stored. A fabric
  merely added cannot set the bit either: it is looked at only when the server's
  event is handled, and without a fabric no window has been open before.
  `CodesInv` follows the codes: a window that is open, or will be once a queued
  event is handled, has announced itself or failed, and its bit stands for codes
  unless they were not to be had. `GuardInv` counts: until there
  has been a fabric, what is left of the window and what has passed of the guard
  never add up to more than `WindowTicks`, and of an attempt to join to no more than
  window and fail-safe together; for that the server's event must be first in the
  queue (`ReadyFirst`), so that main cannot wait on the guard before the window
  has opened.
- **OtaSlots.** `SlotInv` relates the state of each slot to the version that has
  come up; an image on probation is newer than the confirmed one and the other
  slot holds that one.
- **OtaTool.** `AccessInv`: the flag in `config.json` is true only while the access
  list covers the configured nodes, because it is written after the list and
  cleared with every new node. `OfferInv`: a node the offer has neither to visit
  nor to wait for is up to date. `NumberInv`: no light runs a number just raised.

Only model-checked are the liveness properties (`Converges`, `FadeEnds`,
`LedSettles`, `EndToEnd`, `HoldIsSeen`, `ReleaseRearms`, `StaysCommissionable`,
`CommissionedComesUp`, `EndsUp`): they rest on fairness and so on ENABLED, which is
out of the prover's reach. The four runs of section 5 are counterexamples and
TLC's alone.

## 7. Not modelled

- *The curves of the colour formulas* (gamma, `powf`, `logf`) between their ends,
  and float rounding but at ties of `lroundf`.
- *`spake2p_verifier.py`*, *`serial_monitor.py`*, the Dockerfile, CI, renovate:
  no state, pure computation or pure I/O.
- *NodeLabel*, logging, events that are only logged, and the OpenThread platform
  configuration: they touch no modelled state.
- *The full product of `Light` and `StatusLed`*: `Device` has `Lamp` for `Light`.
- *The Matter stack, the bootloader and FreeRTOS*, but for what the code relies on.

## 8. Plan

Done: the parts, the abstract `Lamp` with both refinements, the composition
`Device`, and a proof of every safety property and of both refinements. Left, in
order:

1. An abstract specification of the updates (a device that runs some version, and
   never one older than the last that came up), with `OtaSlots` shown to implement
   it and the proof beside `SlotInv`.
2. `StatusLed` for two writers: what of `RestShowsCur` remains when main sets
   colours while fades run.
3. `GuardSpares` with the fabrics a device has had before, for removals during the
   commissioning.
