CONSTANTS
  c1 = c1
  c2 = c2
  NoConnection = none
  Connections = {c1, c2}
  States = {"Disabled", "Idle"}
  MaxChanges = 1
  MaxQueue = 2
SPECIFICATION FairSpec
INVARIANTS
  ShownIsCurrent
  OldStatusIsPrevious
PROPERTIES
  ShownCatchesUp
CHECK_DEADLOCK FALSE
