SPECIFICATION Spec
CONSTANTS
  Channels = {r}
  MaxLevel = 5
  Steps = 3
  Tasks = {t1, t2}
  Fades <- MCFades
  Sets <- NoColours
  Preempting = {"matter"}
  Faults = {}
INVARIANT AtRestShowsTarget
