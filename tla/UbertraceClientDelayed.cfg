CONSTANTS
  rgp = rgp
  rra = rra
  NoUser = none
  Users = {rgp}
  RgpUsers = {rgp}
  CancelSupported = TRUE
  MaxCaptures = 2
  AutoCapture <- DelayedAuto
SPECIFICATION ClientSpec
INVARIANTS
  TimerStoppedBeforeGone
  CancelledCaptureNeverTaken
CHECK_DEADLOCK FALSE
