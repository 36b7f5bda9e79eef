CONSTANTS
  MaxClicks = 3
SPECIFICATION FairSpec
CHECK_DEADLOCK FALSE
PROPERTY
  ClickReturns
