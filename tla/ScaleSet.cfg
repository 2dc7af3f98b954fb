CONSTANTS
  MinRunners = 0
  MaxRunners = 1
  MaxSeq = 2
  MaxCount = 1
  MaxJobs = 1
  MaxTrouble = 1
  CacheLags = TRUE
  Runners = {r1}
SPECIFICATION Spec
CHECK_DEADLOCK FALSE
INVARIANTS
  SpecInLimits
PROPERTIES
  EventsAreSeen
  ForcedOnlyWhenQuiet
  ScaleDownSparesJobs
