SPECIFICATION Spec
CONSTANTS
  MaxRec = 2
  MinGap = 0
  Trays = {}
  Keys = {k1}
  PttKeys = {}
  Clis = {}
  Wss = {}
  Setters = {s1}
  Switchers = {}
  MayShutdown = TRUE
  MaxRetries = 0
  MaxEngines = 1
INVARIANTS SessionOwnsProcess
PROPERTIES CancelledStaysSilent PendingAudioKept
CHECK_DEADLOCK FALSE
