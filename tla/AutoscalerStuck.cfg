SPECIFICATION MCSpec
CONSTANTS
    a = a
    b = b
    j1 = j1
    j2 = j2
    j3 = j3
    HRAs = {a, b}
    Jobs = {j1, j2, j3}
    Duration = 2
    Delay = 1
    MaxReplicas = 3
    Settings <- MCSettingsWithDeletion
    Shapes = {}
    JobEvents = {}
    MaxHRAs = 0
    Overrides = {}
    Horizon = 0
PROPERTIES EveryTriggerIsBooked
CHECK_DEADLOCK FALSE
