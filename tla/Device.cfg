SPECIFICATION DeviceFairSpec
CONSTANTS
  Channels = {r, g}
  MaxLevel = 5
  Steps = 3
  Tasks = {t1, t2}
  Fades <- MCFades
  Sets <- NoColours
  Preempting = {"matter"}
  Faults = {"create"}
INVARIANT RestingLedShowsCur
PROPERTIES LossOnlyAtExit StripIsLamp EndToEnd
