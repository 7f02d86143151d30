SPECIFICATION Spec
CONSTANTS
  Callers = {c1, c2}
  Machines <- MCMachines
  Configs <- MCConfigs
SYMMETRY Symmetry
INVARIANTS FitAtRest FallbackIsEarned
PROPERTIES LostOnlyIfHopeless
