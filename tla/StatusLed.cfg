SPECIFICATION FairSpec
CONSTANTS
  Channels = {r}
  MaxLevel = 5
  Steps = 3
  Tasks = {t1, t2}
  Fades <- MCFades
  Sets <- MCSets
  Preempting = {"matter", "main"}
  Faults = {"rmt", "create", "transmit"}
INVARIANTS TypeOK AtMostOneFadeTask FlagMeansWorker
PROPERTIES FadeStepsBetween Converges FadeEnds
