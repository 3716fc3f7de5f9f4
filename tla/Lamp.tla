-------------------------------- MODULE Lamp --------------------------------
(***************************************************************************)
(* What the light promises, whatever carries it out: a lamp that comes to  *)
(* show the colour its attributes say.  Two modules are measured by it.  *)
(* Light implements it with the colour handed to the LED driver for shown; *)
(* Device is built from it and the driver, and implements it once more     *)
(* with the frame on the strip for shown.                                  *)
(*                                                                         *)
(* The lamp is "restoring" after a start, "quiet", or "working" on a       *)
(* command or a press.  Only while it works may its attributes change, or  *)
(* a colour show that nobody asked for; to become quiet it must show what  *)
(* the attributes say.  A lamp that keeps its colour finds it again after  *)
(* a power cut; one that does not may start with any other, and it starts  *)
(* to keep it while it is restoring, or when it is reset, for good.        *)
(***************************************************************************)
CONSTANTS
  Colours,  \* what a lamp may show
  Dark,     \* what it shows without power
  Factory   \* what a lamp fresh from the factory is set to

VARIABLES
  want,   \* the colour the stored attributes say
  kept,   \* will a power cut leave that colour alone?
  shown,  \* the colour shown
  phase   \* "restoring", "quiet" or "working"

lamp == <<want, kept, shown, phase>>

Init ==
  /\ want \in Colours
  /\ kept \in BOOLEAN
  /\ shown = Dark
  /\ phase = "restoring"

\* A controller's command or a press begins.
Command ==
  /\ phase = "quiet" /\ phase' = "working"
  /\ UNCHANGED <<want, kept, shown>>

\* One attribute is stored.
Store ==
  /\ phase = "working" /\ want' \in Colours
  /\ UNCHANGED <<kept, shown, phase>>

\* The lamp moves to a colour, perhaps that of a command half carried out.
Show ==
  /\ phase = "working" /\ shown' \in Colours
  /\ UNCHANGED <<want, kept, phase>>

\* The restore removes what would override the colour.
Heal ==
  /\ phase = "restoring" /\ kept' = TRUE
  /\ UNCHANGED <<want, shown, phase>>

Settle ==
  /\ phase # "quiet" /\ phase' = "quiet"
  /\ shown' = want
  /\ UNCHANGED <<want, kept>>

PowerCycle ==
  /\ shown' = Dark /\ phase' = "restoring"
  /\ IF kept THEN want' = want ELSE want' \in Colours
  /\ UNCHANGED kept

FactoryReset ==
  /\ want' = Factory /\ kept' = TRUE
  /\ shown' = Dark /\ phase' = "restoring"

Next ==
  \/ Command \/ Store \/ Show \/ Heal \/ Settle
  \/ PowerCycle \/ FactoryReset

Spec == Init /\ [][Next]_lamp

=============================================================================
