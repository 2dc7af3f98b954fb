CONSTANTS
  MaxFailures = 0
  MaxRegs = 2
  MaxPods = 2
  MaxFaults = 1
  Stops = {"Exit7", "ExitN"}
  Hooks = FALSE
  CachesLag = TRUE
SPECIFICATION Spec
CHECK_DEADLOCK FALSE
INVARIANTS
  OneIdentity
  NoJobKilled
