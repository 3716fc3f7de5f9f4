SPECIFICATION Spec
CONSTANTS
  Levels = {1}
  Mireds = {1, 2}
  Points <- MCTwoPoints
  PowerOn <- MCPowerOnDim
  OldStartUps = {2}
  WritesDuringRestore = TRUE
INVARIANT LedFollowsStore
