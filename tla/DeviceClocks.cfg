CONSTANTS
  c1 = c1
  c2 = c2
  Connections = {c1, c2}
  NumGpus = 3
  NoPeak = {2}
  Unsettable = {3}
  Unreadable = {3}
  Requests = {"Normal", "Stable"}
SPECIFICATION Spec
SYMMETRY Interchangeable
INVARIANTS
  PeakWhileForced
  ClocksRestored
  OverlayFollows
