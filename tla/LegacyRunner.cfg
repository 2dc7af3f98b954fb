SPECIFICATION MCSpec
CONSTANTS
    Kubernetes = TRUE
    Kinds = {TRUE, FALSE}
    Lags = {TRUE, FALSE}
    MaxFaults = 1
    MaxTrouble = 1
CHECK_DEADLOCK FALSE
INVARIANTS
  Consistent
  NoJobKilled
PROPERTIES
  PodIsNotRemade
  Goes
