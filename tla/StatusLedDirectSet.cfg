SPECIFICATION Spec
CONSTANTS
  Channels = {r}
  MaxLevel = 5
  Steps = 3
  Tasks = {t1, t2}
  Fades <- MCOneFade
  Sets <- MCOneSet
  Preempting = {"matter"}
  Faults = {}
PROPERTY DirectSetWins
