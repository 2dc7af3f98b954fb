CONSTANTS
  MaxSets = 3
  MaxChanges = 2
  EditFields = {"tmpl", "name", "group", "other"}
  MaxFaults = 1
  MaxTrouble = 1
  Strategies = {"immediate", "eventual"}
SPECIFICATION FairSpec
CHECK_DEADLOCK FALSE
INVARIANTS
  Consistent
  NoScaleSetLeak
  ListenerServesSet
PROPERTIES
  TeardownInOrder
  Converges
