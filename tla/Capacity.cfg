SPECIFICATION FairSpec
CONSTANTS
    r1 = r1
    Runners <- MCRunners
    MaxSlots = 2
    MaxQueue = 1
    MaxFaults = 1
    MaxTrouble = 1
    Timeout = TRUE
    MaxRunners = 1
    MaxBurst = 0
    Proactive = 0
    FailurePairs = 2
    ClusterIndex = 0
    ClusterCount = 2
    FreshNum = 1
    FreshDen = 1
INVARIANTS
  Consistent
  SlicesCoverQueue
PROPERTIES
  NoDoubleBooking
  JobsAreOffered
  NoWaste
