CONSTANTS
  MaxSets = 2
  MaxChanges = 1
  EditFields = {"group"}
  MaxFaults = 0
  MaxTrouble = 0
  Strategies = {"immediate"}
SPECIFICATION Spec
CHECK_DEADLOCK FALSE
INVARIANT NoListenerLeft
