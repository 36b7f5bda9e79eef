CONSTANTS
  rgp = rgp
  rra = rra
  NoUser = none
  Users = {rgp}
  RgpUsers = {rgp}
  CancelSupported = FALSE
  MaxCaptures = 2
  AutoCapture <- AutoNow
SPECIFICATION FairClientSpec
INVARIANTS
  PolledUserShown
CHECK_DEADLOCK FALSE
