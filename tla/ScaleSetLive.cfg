CONSTANTS
  MinRunners = 0
  MaxRunners = 1
  MaxSeq = 2
  MaxCount = 1
  MaxJobs = 1
  MaxTrouble = 1
  CacheLags = FALSE
  Runners = {r1, r2}
SPECIFICATION FairSpec
CHECK_DEADLOCK FALSE
INVARIANTS
  MaxRunnersRespected
  NoOrphans
PROPERTIES
  Settles
