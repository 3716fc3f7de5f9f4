SPECIFICATION FairSpec
CONSTANTS
  HoldPolls = 100
  TickWrap = 128
INVARIANTS NeverDeaf OneActPerPress
PROPERTIES HoldIsSeen ReleaseRearms
