SPECIFICATION FairSpec
CONSTANTS
    Modes <- MCModes
    MaxOwners = 4
    MaxReplicas = 2
    MaxJobs = 1
CHECK_DEADLOCK FALSE
INVARIANTS
  Consistent
  JobsSurvive
PROPERTIES
  Settles
