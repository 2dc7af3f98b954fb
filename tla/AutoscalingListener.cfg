SPECIFICATION FairSpec
CONSTANTS
    MaxGens = 2
    MaxRotations = 1
    MaxFaults = 1
    MaxTrouble = 1
    Laggings <- MCLaggings
CHECK_DEADLOCK FALSE
INVARIANTS
  Consistent
  NoLeftovers
PROPERTIES
  Settles
