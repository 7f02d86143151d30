SPECIFICATION Spec
CONSTANTS
  MaxRec = 2
  MinGap = 1
  Trays = {}
  Keys = {}
  PttKeys = {}
  Clis = {c1}
  Wss = {}
  Setters = {}
  Switchers = {}
  MayShutdown = FALSE
  MaxRetries = 0
  MaxEngines = 1
INVARIANT ChannelDeliversOwnText
