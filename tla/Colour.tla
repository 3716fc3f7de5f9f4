------------------------------- MODULE Colour -------------------------------
(***************************************************************************)
(* The colour arithmetic that module Light leaves out: xy_to_rgb,          *)
(* mireds_to_rgb and the scaling of apply_light_state                      *)
(* (main/matter_setup.cpp), from the s_light_* cache to the three bytes    *)
(* handed to the LED driver.                                               *)
(*                                                                         *)
(* The fractions x and y are integers over One, and the linear channels    *)
(* are exact: numerators over 10^6 * y, with the code's coefficients.      *)
(* Where a curve follows (gamma, the logarithms and powers of Helland's    *)
(* approximation) a channel strictly inside its range may be any of Grays. *)
(* lroundf is the nearest integer, either neighbour at a tie (the float    *)
(* product may fall on both sides of it), and the cast keeps 8 bits.       *)
(***************************************************************************)
EXTENDS Integers

CONSTANTS
  One,     \* what 1.0 is as CurrentX or CurrentY; 65536 in the code
  Levels,  \* values of CurrentLevel; null reads as 255
  Points,  \* pairs <<CurrentX, CurrentY>> a controller asks for
  Mireds,  \* values of ColorTemperatureMireds
  PowerOn, \* what s_light_* are initialised to
  Grays    \* what a curve may yield

VARIABLES
  light,  \* s_light_*
  rgb     \* the colour given to the LED driver

\* Of Light, its sets, Assign and Render: its variables have no part in these.
L == INSTANCE Light WITH
  nv <- light, cache <- light, target <- rgb, call <- rgb, main <- rgb,
  button <- rgb, failed <- rgb, left <- rgb, OldStartUps <- {}, WritesDuringRestore <- FALSE

ASSUME ColourAssumption ==
  /\ One \in Nat \ {0}
  /\ Levels \subseteq 0..255
  /\ Points \subseteq (0..One) \X (0..One)
  /\ Mireds \subseteq Nat
  /\ PowerOn \in L!Cache
  /\ Grays \subseteq 0..255

colour == <<light, rgb>>

Rgb   == [r : 0..255, g : 0..255, b : 0..255]
Black == [r |-> 0, g |-> 0, b |-> 0]

Rgbs(rs, gs, bs) == [r : rs, g : gs, b : bs]

\* A linear channel n / (10^6 * y), clamped to 0..1, through gamma, in 255ths:
\* from 0.9956 on gamma's 1.055 * c^(1/2.4) - 0.055 rounds to 255.
Channel(n, y) == IF n <= 0 THEN {0} ELSE IF n >= 995600 * y THEN {255} ELSE Grays

\* xy_to_rgb: CIE 1931 xyY with Y = 1, to sRGB.  No channel exceeds 1.0 by the
\* division by maxc, so that changes nothing.
XyToRgb(x, y) ==
  LET z == One - x - y
  IN  IF y <= 0 THEN Rgbs({0}, {0}, {0})
      ELSE Rgbs(Channel(1656492 * x - 354851 * y - 255038 * z, y),
                Channel(1655397 * y + 36152 * z - 707196 * x, y),
                Channel(51713 * x - 121364 * y + 1011530 * z, y))

\* Mutant of MiredsToRgb: 0 mireds are a very high temperature.
MiredsToRgbUnguarded(m) ==
  IF 10000 <= 19 * m THEN Rgbs({255}, Grays, {0})
  ELSE IF 10000 <= 66 * m THEN Rgbs({255}, Grays, Grays)
  ELSE Rgbs(Grays, Grays, {255})

\* mireds_to_rgb, where t is 10^4 / mireds: the clamp of the temperature to
\* 1000..40000 K moves none across 6600 K or 1900 K.
MiredsToRgb(m) ==
  IF m = 0 THEN Rgbs({0}, {0}, {0})
  ELSE IF 10000 <= 19 * m THEN Rgbs({255}, Grays, {0})
  ELSE IF 10000 <= 66 * m THEN Rgbs({255}, Grays, Grays)
  ELSE Rgbs(Grays, Grays, {255})

\* The integers nearest to n / d.
Nearest(n, d) == {k \in {n \div d, n \div d + 1} : 2 * k * d - d <= 2 * n /\ 2 * n <= 2 * k * d + d}

\* Mutant of Scaled: a level is taken for a fraction of 255.
ScaledBy255(ch, level) == Nearest(ch * level, 255)

\* (uint8_t)lroundf(ch * level / 254): at level 255 a full channel is 256, and the
\* cast makes it 0.
Scaled(ch, level) == {k % 256 : k \in Nearest(ch * level, 254)}

\* What apply_light_state may hand to the driver.
Applied(c) ==
  IF c.on = 0 THEN {Black}
  ELSE UNION {Rgbs(Scaled(full.r, c.level), Scaled(full.g, c.level), Scaled(full.b, c.level)) :
                full \in IF c.useTemp THEN MiredsToRgb(c.mireds) ELSE XyToRgb(c.x, c.y)}

\* matter_setup has restored what was stored.
Init ==
  /\ light = PowerOn
  /\ rgb \in Applied(light)

\* attr_update_cb
Update(attr, val) ==
  /\ light' = L!Assign(light, attr, val)
  /\ rgb' \in Applied(light')

Next ==
  \/ \E b \in {0, 1} : Update("on", b)
  \/ \E l \in Levels : Update("level", l)
  \/ \E x \in L!Xs : Update("x", x)
  \/ \E y \in L!Ys : Update("y", y)
  \/ \E m \in Mireds : Update("mireds", m)
  \/ \E m \in {L!Xy, L!Temp} : Update("mode", m)

Spec == Init /\ [][Next]_colour

-----------------------------------------------------------------------------
(* Correctness *)

\* The light gives a colour: it is on, and its colour is one the formulas take.
Lit == light.on = 1 /\ (IF light.useTemp THEN light.mireds ELSE light.y) > 0

\* The level alone sets the brightness, "brightness is applied separately from
\* the Level Control attribute" (matter_setup.cpp): whatever the colour, its
\* brightest channel is the level's share of 255, rounded, so no colour of
\* either tab is dimmer than another or leaves a lit light dark.  Said of the
\* levels the cluster has; a null one, 255, is out of it.
BrightnessIsLevel ==
  Lit /\ light.level <= 254 =>
    LET Share(ch) == /\ 508 * rgb[ch] <= 510 * light.level + 254
                     /\ 508 * rgb[ch] >= 510 * light.level - 254
    IN  /\ \E ch \in {"r", "g", "b"} : Share(ch)
        /\ \A ch \in {"r", "g", "b"} : 508 * rgb[ch] <= 510 * light.level + 254

\* Module Light takes a colour for black where the bytes are black: so what it
\* shows of the colour left out there is true of the LED.
BlackAsRendered ==
  light.level <= 254 => (rgb = Black <=> L!Render(light) = L!Black)

=============================================================================
