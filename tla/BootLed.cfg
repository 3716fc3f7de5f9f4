SPECIFICATION Spec
CONSTANTS
  WindowTicks = 10
  CodesTicks = 1
  GuardTicks = 20
  ServerTicks = 1
  FailSafeTicks = 4
  MaxFabrics = 1
  MaxQueue = 3
  Faults = {}
INVARIANT LedFollowsLight
