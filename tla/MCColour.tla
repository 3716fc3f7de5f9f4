------------------------------ MODULE MCColour ------------------------------
(***************************************************************************)
(* Instance of Colour for TLC.  With One = 64 every point is one of the    *)
(* code's, 1024 * x over 65536, and 32 bits hold the numerators.           *)
(***************************************************************************)
EXTENDS Colour

\* The corners and edges of the plane, the white point, the primaries, and
\* points that no colour has (x + y > 1).
MCPoints  == {0, 10, 21, 41, 64} \X {0, 1, 4, 21, 38, 64}
\* Both sides of 1900 K and 6600 K, and past the end of the clamp.
MCMireds  == {0, 151, 152, 526, 527, 2000}
MCPowerOn == [on |-> 0, level |-> 254, x |-> 21, y |-> 21, mireds |-> 152,
              useTemp |-> FALSE]

=============================================================================
