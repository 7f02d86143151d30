SPECIFICATION FairSpec
CONSTANTS
  Menus = {m1}
  Actors = {a1}
  MaxCalls = 1
  Environments <- MCEnvironments
INVARIANTS OneListener CaptureIsSilent StoppedIsSilent
PROPERTIES CallsReturn
CHECK_DEADLOCK FALSE
