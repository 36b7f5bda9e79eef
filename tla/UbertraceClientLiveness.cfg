CONSTANTS
  rgp = rgp
  rra = rra
  NoUser = none
  Users = {rgp}
  RgpUsers = {rgp}
  CancelSupported = TRUE
  MaxCaptures = 2
  AutoCapture <- NoAuto
SPECIFICATION FairClientSpec
PROPERTIES
  CallsReturn
  StoppedCaptureEnds
CHECK_DEADLOCK FALSE
