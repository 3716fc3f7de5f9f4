------------------------------- MODULE MCLight -------------------------------
(***************************************************************************)
(* Instances of Light for TLC: two brightnesses, two colours that differ   *)
(* in x and in y and a third with y = 0, which is black, two temperatures. *)
(***************************************************************************)
EXTENDS Light

MCPoints == {<<1, 1>>, <<2, 2>>, <<1, 0>>}
MCPowerOn ==
  [on |-> 0, level |-> 2, x |-> 1, y |-> 1, mireds |-> 1, useTemp |-> FALSE]

\* A smaller light: one brightness, two colours.
MCTwoPoints == {<<1, 1>>, <<2, 2>>}
MCPowerOnDim == [MCPowerOn EXCEPT !.level = 1]

=============================================================================
