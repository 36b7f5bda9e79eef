CONSTANTS
  c1 = c1
  c2 = c2
  Connections = {c1, c2}
  Features = {"kRgp"}
  States = {"kInactive", "kIdle"}
  Infos = {"normal", "peak"}
  MaxUpdates = 2
  MaxRouters = 2
SPECIFICATION Spec
CHECK_DEADLOCK FALSE
INVARIANTS
  LinesCatchUp
  GoneIsGone
PROPERTIES
  JoinReturns
