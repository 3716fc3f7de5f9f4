SPECIFICATION FairSpec
CONSTANTS
  Levels = {1, 2}
  Mireds = {1, 2}
  Points <- MCPoints
  PowerOn <- MCPowerOn
  OldStartUps = {1, 2}
  WritesDuringRestore = FALSE
INVARIANTS TypeOK CacheMirrorsStore LedFollowsStore ComesBackAsLeft
PROPERTIES PressFlips LedSettles IsLamp
