SPECIFICATION Spec
CONSTANTS
  MaxRec = 2
  MinGap = 1
  Trays = {}
  Keys = {k1}
  PttKeys = {k1}
  Clis = {c1}
  Wss = {w1}
  Setters = {}
  Switchers = {}
  MayShutdown = FALSE
  MaxRetries = 1
  MaxEngines = 1
INVARIANTS TypeOK SingleOwner PendingAudioIntact TrayShowsRecording
PROPERTIES ImplementsSession
