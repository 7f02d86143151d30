SPECIFICATION FairSpec
CONSTANTS
  MaxRec = 1
  MinGap = 1
  Trays = {}
  Keys = {}
  PttKeys = {}
  Clis = {c1}
  Wss = {}
  Setters = {}
  Switchers = {m1}
  MayShutdown = TRUE
  MaxRetries = 0
  MaxEngines = 2
INVARIANTS EngineInUseIsOpen NoEngineLeaked
PROPERTIES CallsReturn TranscriptionsEnd
CHECK_DEADLOCK FALSE
