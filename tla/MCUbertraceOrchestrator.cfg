CONSTANTS
  rgp = rgp
  rra = rra
  NoUser = none
  Users = {rgp, rra}
  RgpUsers = {rgp}
  CancelSupported = TRUE
  MaxCaptures = 1
SPECIFICATION Spec
INVARIANTS
  CapturingUserIsPolled
  CapturingHasPoller
  CompletedOnce
PROPERTIES
  CapturesInSequence
CHECK_DEADLOCK FALSE
