SPECIFICATION DaemonSpec
CONSTANTS
  Daemons = {d1, d2, d3}
  NoOne = none
INVARIANTS OneDaemon
CHECK_DEADLOCK FALSE
