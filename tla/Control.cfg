SPECIFICATION FairSpec
CONSTANTS
  Daemons = {d1, d2}
  NoOne = none
  Clients = {c1}
  Commands = {"start", "stop", "toggle", "status", "transcript", "set", "delete", "other"}
INVARIANTS InstancesExclude PidIsHolders SocketIsServing
PROPERTIES   RefusedByLiving
CHECK_DEADLOCK FALSE
