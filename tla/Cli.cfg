CONSTANTS
  c1 = c1
  c2 = c2
  Connections = {c1, c2}
  CommandLines <- MCCommandLines
  UintRange = 256
  NumGpus = 1
  Failures = {"initialize", "enable", "clocks", "write", "structures", "empty"}
  MaxCaptures = 2
SPECIFICATION Spec
CHECK_DEADLOCK FALSE
INVARIANTS
  SuccessIsSaved
  SavesWhatWasAsked
PROPERTIES
  ToolEnds
