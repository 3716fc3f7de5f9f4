----------------------------- MODULE MCStatusLed -----------------------------
(***************************************************************************)
(* Instances of StatusLed for TLC.  Levels run to 5 instead of 255 and a   *)
(* fade takes 3 steps instead of 20: 5 is not a multiple of 3, so the      *)
(* division of Interpolate rounds, upwards and downwards.                  *)
(***************************************************************************)
EXTENDS StatusLed, TLC

MCOff  == [ch \in Channels |-> 0]
MCDim  == [ch \in Channels |-> 2]
MCFull == [ch \in Channels |-> 5]

\* Two channels that fade in opposite directions.
MCMixed == [ch \in Channels |-> IF ch = CHOOSE x \in Channels : TRUE THEN 4 ELSE 1]

MCFades == {MCOff, MCFull, MCMixed}
MCSets  == {MCOff, MCDim}
NoColours == {}

\* One colour to fade to and one to set, so that a target is never reached by
\* coming back to it.
MCOneFade == {MCFull}
MCOneSet  == {MCDim}

TaskSymmetry == Permutations(Tasks)

=============================================================================
