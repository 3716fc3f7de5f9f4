---------------------------- MODULE ColourProofs ----------------------------
(***************************************************************************)
(* That the brightness of a lit light is its level and nothing else, for   *)
(* every scale of CurrentX and CurrentY, every set of points, mireds and   *)
(* levels, and whatever the curves yield.  The point is arithmetic: of the *)
(* three linear channels one always comes close enough to 1.0 to be shown  *)
(* as 255, in the triangle of colours that exist and outside it alike.     *)
(***************************************************************************)
EXTENDS Colour, TLAPS

\* Some numerator of xy_to_rgb reaches 0.9956 of the denominator.  It is a near
\* thing: at the white point all three of them are 0.9999992.
LEMMA LinearPeak ==
  ASSUME NEW u \in Nat, NEW x \in 0..u, NEW y \in 0..u, y > 0,
         NEW z, z = u - x - y
  PROVE  \/ 1656492 * x - 354851 * y - 255038 * z >= 995600 * y
         \/ 1655397 * y + 36152 * z - 707196 * x >= 995600 * y
         \/ 51713 * x - 121364 * y + 1011530 * z >= 995600 * y
  BY SMT

Full == 0..255

\* A colour of full brightness: one channel is 255.
Peaks(full) == \E ch \in {"r", "g", "b"} : full[ch] = 255

LEMMA RgbsInRgb ==
  ASSUME NEW rs, NEW gs, NEW bs, rs \subseteq 0..255, gs \subseteq 0..255, bs \subseteq 0..255
  PROVE  Rgbs(rs, gs, bs) \subseteq Rgb
  BY DEF Rgbs, Rgb

\* The formulas yield full brightness, or black for inputs they do not take.
LEMMA FormulaPeaks ==
  ASSUME NEW c \in L!Cache,
         NEW full \in IF c.useTemp THEN MiredsToRgb(c.mireds) ELSE XyToRgb(c.x, c.y)
  PROVE  /\ full \in Rgb
         /\ (IF c.useTemp THEN c.mireds ELSE c.y) > 0 => Peaks(full)
  PROOF
<1>a. One \in Nat /\ Grays \subseteq 0..255 /\ {255} \subseteq 0..255 /\ {0} \subseteq 0..255
  BY ColourAssumption
<1>t. c.x \in 0..One /\ c.y \in 0..One /\ c.mireds \in Nat /\ c.useTemp \in BOOLEAN
  BY ColourAssumption DEF L!Cache, L!Xs, L!Ys
<1>1. CASE c.useTemp
  <2>1. full \in MiredsToRgb(c.mireds)
    BY <1>1
  <2>2. full \in Rgb
    <3>1. /\ Rgbs({0}, {0}, {0}) \subseteq Rgb /\ Rgbs({255}, Grays, {0}) \subseteq Rgb
          /\ Rgbs({255}, Grays, Grays) \subseteq Rgb /\ Rgbs(Grays, Grays, {255}) \subseteq Rgb
      BY <1>a, RgbsInRgb
    <3>. QED
      BY <2>1, <3>1 DEF MiredsToRgb
  <2>3. c.mireds > 0 => full.r = 255 \/ full.b = 255
    BY <1>t, <2>1 DEF MiredsToRgb, Rgbs
  <2>. QED
    BY <1>1, <2>2, <2>3 DEF Peaks
<1>2. CASE ~c.useTemp
  <2>1. full \in XyToRgb(c.x, c.y)
    BY <1>2
  <2>2. CASE c.y <= 0
    BY <1>2, <1>a, <1>t, <2>1, <2>2, RgbsInRgb DEF XyToRgb
  <2>3. CASE c.y > 0
    <3>. DEFINE z == One - c.x - c.y
                nr == 1656492 * c.x - 354851 * c.y - 255038 * z
                ng == 1655397 * c.y + 36152 * z - 707196 * c.x
                nb == 51713 * c.x - 121364 * c.y + 1011530 * z
    <3>1. full \in Rgbs(Channel(nr, c.y), Channel(ng, c.y), Channel(nb, c.y))
      BY <1>t, <2>1, <2>3 DEF XyToRgb
    <3>2. nr >= 995600 * c.y \/ ng >= 995600 * c.y \/ nb >= 995600 * c.y
      BY <1>a, <1>t, <2>3, LinearPeak
    <3>3. z \in Int /\ nr \in Int /\ ng \in Int /\ nb \in Int
      BY <1>a, <1>t
    <3>4. ASSUME NEW n \in Int
          PROVE  Channel(n, c.y) \subseteq Full /\ (n >= 995600 * c.y => Channel(n, c.y) = {255})
      BY <1>a, <1>t, <2>3 DEF Channel, Full
    <3>. HIDE DEF z, nr, ng, nb
    <3>5. full = [r |-> full.r, g |-> full.g, b |-> full.b]
          /\ full.r \in Channel(nr, c.y) /\ full.g \in Channel(ng, c.y)
          /\ full.b \in Channel(nb, c.y)
      BY <3>1 DEF Rgbs
    <3>6. full \in Rgb
      BY <3>3, <3>4, <3>5 DEF Full, Rgb
    <3>7. Peaks(full)
      BY <3>2, <3>3, <3>4, <3>5 DEF Peaks
    <3>. QED
      BY <3>6, <3>7
  <2>. QED
    BY <1>t, <2>2, <2>3
<1>. QED
  BY <1>1, <1>2, <1>t

\* lroundf(ch * level / 254) stays in a byte but for 255 at a level of 255, and
\* at levels that mean something it grows with the channel.
LEMMA ScaledChannel ==
  ASSUME NEW ch \in 0..255, NEW level \in 0..255, NEW n \in Scaled(ch, level)
  PROVE  /\ n \in 0..255
         /\ level <= 254 => 508 * n <= 510 * level + 254
  PROOF
<1>. DEFINE v == ch * level
<1>1. v \in Nat /\ v <= 255 * level /\ (ch = 255 => v = 255 * level)
  BY SMT
<1>. HIDE DEF v
<1>2. PICK k \in {v \div 254, v \div 254 + 1} :
        508 * k - 254 <= 2 * v /\ 2 * v <= 508 * k + 254 /\ n = k % 256
  BY <1>1 DEF Scaled, Nearest, v
<1>3. k \in Nat /\ k <= 256 /\ (level <= 254 => k <= 255)
  BY <1>1, <1>2
<1>4. n \in 0..255 /\ (k <= 255 => n = k)
  BY <1>2, <1>3
<1>. QED
  BY <1>1, <1>2, <1>3, <1>4

LEMMA ScaledFull ==
  ASSUME NEW level \in 0..254, NEW n \in Scaled(255, level)
  PROVE  508 * n >= 510 * level - 254
  PROOF
<1>1. PICK k \in {(255 * level) \div 254, (255 * level) \div 254 + 1} :
        508 * k - 254 <= 510 * level /\ 510 * level <= 508 * k + 254 /\ n = k % 256
  BY DEF Scaled, Nearest
<1>2. k \in 0..255
  BY <1>1
<1>3. n = k
  BY <1>1, <1>2
<1>. QED
  BY <1>1, <1>2, <1>3

\* What apply_light_state hands over, and how bright it is.
Bright(c, out) ==
  c.on = 1 /\ (IF c.useTemp THEN c.mireds ELSE c.y) > 0 /\ c.level <= 254 =>
    /\ \E ch \in {"r", "g", "b"} : /\ 508 * out[ch] <= 510 * c.level + 254
                                   /\ 508 * out[ch] >= 510 * c.level - 254
    /\ \A ch \in {"r", "g", "b"} : 508 * out[ch] <= 510 * c.level + 254

LEMMA AppliedBright ==
  ASSUME NEW c \in L!Cache, NEW out \in Applied(c)
  PROVE  out \in Rgb /\ Bright(c, out)
  PROOF
<1>1. CASE c.on = 0
  BY <1>1 DEF Applied, Bright, Black, Rgb
<1>2. CASE c.on # 0
  <2>1. PICK full \in IF c.useTemp THEN MiredsToRgb(c.mireds) ELSE XyToRgb(c.x, c.y) :
          out \in Rgbs(Scaled(full.r, c.level), Scaled(full.g, c.level), Scaled(full.b, c.level))
    BY <1>2 DEF Applied
  <2>2. full \in Rgb /\ ((IF c.useTemp THEN c.mireds ELSE c.y) > 0 => Peaks(full))
    BY FormulaPeaks
  <2>3. c.level \in 0..255
    BY ColourAssumption DEF L!Cache
  <2>4. /\ out = [r |-> out.r, g |-> out.g, b |-> out.b]
        /\ out.r \in Scaled(full.r, c.level) /\ out.g \in Scaled(full.g, c.level)
        /\ out.b \in Scaled(full.b, c.level)
    BY <2>1 DEF Rgbs
  <2>5. full.r \in 0..255 /\ full.g \in 0..255 /\ full.b \in 0..255
    BY <2>2 DEF Rgb
  <2>. DEFINE Is(full_, out_) ==
          /\ out_ \in 0..255
          /\ c.level <= 254 => 508 * out_ <= 510 * c.level + 254
          /\ c.level <= 254 /\ full_ = 255 => 508 * out_ >= 510 * c.level - 254
  <2>s. \A ch \in 0..255 : \A n \in Scaled(ch, c.level) : Is(ch, n)
    <3>. TAKE ch \in 0..255
    <3>. TAKE n \in Scaled(ch, c.level)
    <3>1. n \in 0..255
      BY <2>3, ScaledChannel
    <3>2. c.level <= 254 => 508 * n <= 510 * c.level + 254
      BY <2>3, ScaledChannel
    <3>3. ASSUME c.level <= 254, ch = 255 PROVE 508 * n >= 510 * c.level - 254
      <4>1. c.level \in 0..254 /\ n \in Scaled(255, c.level)
        BY <2>3, <3>3
      <4>. QED
        BY <4>1, ScaledFull
    <3>. QED
      BY <3>1, <3>2, <3>3
  <2>6. Is(full.r, out.r) /\ Is(full.g, out.g) /\ Is(full.b, out.b)
    <3>. HIDE DEF Is
    <3>. QED
      BY <2>4, <2>5, <2>s
  <2>7. out \in Rgb
    BY <2>4, <2>6 DEF Rgb
  <2>8. ASSUME (IF c.useTemp THEN c.mireds ELSE c.y) > 0, c.level <= 254
        PROVE  /\ \E ch \in {"r", "g", "b"} : /\ 508 * out[ch] <= 510 * c.level + 254
                                              /\ 508 * out[ch] >= 510 * c.level - 254
               /\ \A ch \in {"r", "g", "b"} : 508 * out[ch] <= 510 * c.level + 254
    <3>1. /\ 508 * out.r <= 510 * c.level + 254
          /\ 508 * out.g <= 510 * c.level + 254
          /\ 508 * out.b <= 510 * c.level + 254
      BY <2>6, <2>8
    <3>2. full.r = 255 \/ full.g = 255 \/ full.b = 255
      BY <2>2, <2>8 DEF Peaks
    <3>3. \/ 508 * out.r >= 510 * c.level - 254
          \/ 508 * out.g >= 510 * c.level - 254
          \/ 508 * out.b >= 510 * c.level - 254
      BY <2>6, <2>8, <3>2
    <3>. QED
      BY <3>1, <3>3
  <2>. QED
    BY <2>7, <2>8 DEF Bright
<1>. QED
  BY <1>1, <1>2

-----------------------------------------------------------------------------
(* The theorems *)

Inv == light \in L!Cache /\ rgb \in Applied(light)

\* attr_update_cb keeps the cache one of the cluster's values.
LEMMA AssignCache ==
  ASSUME NEW c \in L!Cache, NEW attr, NEW val,
         \/ attr = "on" /\ val \in {0, 1}
         \/ attr = "level" /\ val \in Levels
         \/ attr = "x" /\ val \in L!Xs
         \/ attr = "y" /\ val \in L!Ys
         \/ attr = "mireds" /\ val \in Mireds
         \/ attr = "mode" /\ val \in {L!Xy, L!Temp}
  PROVE  L!Assign(c, attr, val) \in L!Cache
  PROOF
<1>1. CASE attr = "on" /\ val \in {0, 1}
  BY <1>1 DEF L!Assign, L!Cache
<1>2. CASE attr = "level" /\ val \in Levels
  BY <1>2 DEF L!Assign, L!Cache
<1>3. CASE attr = "x" /\ val \in L!Xs
  BY <1>3 DEF L!Assign, L!Cache
<1>4. CASE attr = "y" /\ val \in L!Ys
  BY <1>4 DEF L!Assign, L!Cache
<1>5. CASE attr = "mireds" /\ val \in Mireds
  BY <1>5 DEF L!Assign, L!Cache
<1>6. CASE attr = "mode" /\ val \in {L!Xy, L!Temp}
  BY <1>6 DEF L!Assign, L!Cache
<1>. QED
  BY <1>1, <1>2, <1>3, <1>4, <1>5, <1>6

\* The cache holds values of the cluster, and the LED has a colour of them.
LEMMA Invariance == Spec => []Inv
  PROOF
<1>1. Init => Inv
  BY ColourAssumption DEF Init, Inv
<1>2. Inv /\ [Next]_colour => Inv'
  <2>. SUFFICES ASSUME Inv, [Next]_colour PROVE Inv'
    OBVIOUS
  <2>1. CASE Next
    <3>1. PICK attr, val :
            /\ Update(attr, val)
            /\ \/ attr = "on" /\ val \in {0, 1}
               \/ attr = "level" /\ val \in Levels
               \/ attr = "x" /\ val \in L!Xs
               \/ attr = "y" /\ val \in L!Ys
               \/ attr = "mireds" /\ val \in Mireds
               \/ attr = "mode" /\ val \in {L!Xy, L!Temp}
      BY <2>1, Zenon DEF Next
    <3>2. L!Assign(light, attr, val) \in L!Cache
      BY <3>1, AssignCache DEF Inv
    <3>. QED
      BY <3>1, <3>2 DEF Update, Inv
  <2>2. CASE UNCHANGED colour
    BY <2>2 DEF colour, Inv
  <2>. QED
    BY <2>1, <2>2
<1>. QED
  BY <1>1, <1>2, PTL DEF Spec

\* The level alone sets the brightness of a lit light, whatever its colour.
THEOREM LevelIsBrightness == Spec => []BrightnessIsLevel
  PROOF
<1>1. Inv => BrightnessIsLevel
  BY AppliedBright DEF Inv, Bright, BrightnessIsLevel, Lit
<1>. QED
  BY <1>1, Invariance, PTL

\* At level 0 nothing of a channel is left, and of a dark channel at any level.
LEMMA ScaledNothing ==
  ASSUME NEW ch \in 0..255, NEW level \in 0..255, ch = 0 \/ level = 0
  PROVE  Scaled(ch, level) = {0}
  PROOF
<1>1. ch * level = 0
  BY SMT
<1>2. Nearest(0, 254) = {0}
  BY DEF Nearest
<1>. QED
  BY <1>1, <1>2 DEF Scaled

\* The bytes are zero where Render of module Light says black.
LEMMA AppliedBlack ==
  ASSUME NEW c \in L!Cache, NEW out \in Applied(c), c.level <= 254
  PROVE  out = Black <=> L!Render(c) = L!Black
  PROOF
<1>t. /\ c.on \in {0, 1} /\ c.level \in 0..254 /\ c.useTemp \in BOOLEAN
      /\ c.y \in Nat /\ c.mireds \in Nat
  <2>1. /\ c.on \in {0, 1} /\ c.level \in Levels /\ c.useTemp \in BOOLEAN
        /\ c.y \in L!Ys /\ c.mireds \in Mireds
    BY DEF L!Cache
  <2>2. c.y \in 0..One /\ One \in Nat
    BY <2>1, ColourAssumption DEF L!Ys
  <2>3. c.level \in 0..255 /\ c.mireds \in Nat
    BY <2>1, ColourAssumption
  <2>4. c.y \in Nat /\ c.level \in 0..254
    BY <2>2, <2>3
  <2>. QED
    BY <2>1, <2>3, <2>4
<1>. DEFINE Hue == IF c.useTemp THEN c.mireds ELSE c.y
<1>1. L!Render(c) = L!Black <=> c.on = 0 \/ c.level = 0 \/ Hue = 0
  BY <1>t DEF L!Render, L!Black, L!Shade
<1>2. CASE c.on = 0
  BY <1>1, <1>2 DEF Applied
<1>3. CASE c.on = 1 /\ (c.level = 0 \/ Hue = 0)
  <2>1. PICK full \in IF c.useTemp THEN MiredsToRgb(c.mireds) ELSE XyToRgb(c.x, c.y) :
          out \in Rgbs(Scaled(full.r, c.level), Scaled(full.g, c.level), Scaled(full.b, c.level))
    BY <1>3 DEF Applied
  <2>2. full.r \in 0..255 /\ full.g \in 0..255 /\ full.b \in 0..255
    BY FormulaPeaks DEF Rgb
  <2>3. Hue = 0 => full.r = 0 /\ full.g = 0 /\ full.b = 0
    BY <1>t, <2>1 DEF MiredsToRgb, XyToRgb, Rgbs
  <2>4. /\ Scaled(full.r, c.level) = {0} /\ Scaled(full.g, c.level) = {0}
        /\ Scaled(full.b, c.level) = {0}
    BY <1>t, <1>3, <2>2, <2>3, ScaledNothing
  <2>. QED
    BY <1>1, <1>3, <2>1, <2>4 DEF Rgbs, Black
<1>4. CASE c.on = 1 /\ c.level # 0 /\ Hue # 0
  <2>1. Hue > 0 /\ c.level >= 1
    BY <1>t, <1>4
  <2>2. PICK ch \in {"r", "g", "b"} : 508 * out[ch] >= 510 * c.level - 254
    BY <1>t, <1>4, <2>1, AppliedBright DEF Bright
  <2>3. out # Black
    BY <1>t, <2>1, <2>2 DEF Black
  <2>. QED
    BY <1>1, <1>4, <2>3
<1>. QED
  BY <1>t, <1>2, <1>3, <1>4

\* What module Light proves of a light that leaves the arithmetic out is true of
\* the bytes: they are black exactly where it says so.
THEOREM BlackIsRendered == Spec => []BlackAsRendered
  PROOF
<1>1. Inv => BlackAsRendered
  BY AppliedBlack DEF Inv, BlackAsRendered
<1>. QED
  BY <1>1, Invariance, PTL

=============================================================================
