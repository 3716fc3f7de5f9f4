SPECIFICATION FairSpec
CONSTANTS
  WindowTicks = 10
  CodesTicks = 1
  GuardTicks = 20
  ServerTicks = 1
  FailSafeTicks = 4
  MaxFabrics = 2
  MaxQueue = 2
  Faults = {"create", "open", "codes", "lost", "removal"}
INVARIANTS TypeOK BitMeansFabric CodesPrinted
PROPERTIES GuardSparesJoin StaysCommissionable CommissionedComesUp
