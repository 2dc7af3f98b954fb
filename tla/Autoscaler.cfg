SPECIFICATION MCSpec
CONSTANTS
    a = a
    b = b
    j1 = j1
    j2 = j2
    j3 = j3
    HRAs = {a, b}
    Jobs = {j1, j2, j3}
    Duration = 2
    Delay = 1
    MaxReplicas = 3
    Settings <- MCSettings
    Shapes <- MCShapes
    JobEvents <- MCEvents
    MaxHRAs = 3
    Overrides <- MCOverrides
    Horizon = 9
CHECK_DEADLOCK FALSE
INVARIANTS
  Consistent
  FindsBest
PROPERTIES
  ImplementsLedger
  ScaleDownWaits
  Settles
  OverridesAreKept
