CONSTANTS
  MaxFailures = 1
  MaxRegs = 2
  MaxPods = 4
  MaxFaults = 2
  Stops = {"Exit7", "ExitN", "Evicted"}
  Hooks = TRUE
  CachesLag = FALSE
SPECIFICATION FairSpec
CHECK_DEADLOCK FALSE
INVARIANTS
  Consistent
  NoJobKilled
  NothingLeft
PROPERTIES
  RunnerGoes
  RunnerGetsPod
