CONSTANTS
  c1 = c1
  c2 = c2
  p1 = p1
  p2 = p2
  NoProcess = none
  Features = {"Profiling", "MemoryTrace", "CrashAnalysis"}
  Connections = {c1, c2}
  Processes = {p1, p2}
  ProcessOf <- SameProcess
  Failures = {"enable"}
SPECIFICATION Spec
INVARIANTS
  SourcesMatchFeatures
  NothingLeftBehind
  DriverMatchesFeatures
