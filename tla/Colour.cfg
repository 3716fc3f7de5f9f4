SPECIFICATION Spec
CONSTANTS
  One = 64
  Levels = {0, 1, 100, 127, 254, 255}
  Points <- MCPoints
  Mireds <- MCMireds
  PowerOn <- MCPowerOn
  Grays = {0, 99, 255}
INVARIANTS BrightnessIsLevel BlackAsRendered
