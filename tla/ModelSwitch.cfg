SPECIFICATION MCSpec
CONSTANTS
  Models = {m1, m2}
  DefaultModel = m1
  Typed = {m1, m2}
  Clicked = {m1, m2}
  Beside = {"record","delete","reset","other"}
  NoModel = none
  Bundled = {m1}
  Callers = {c1, c2}
SYMMETRY Symmetry
INVARIANTS EngineIsConfigured ModelsAreWhole TrayAnswers MenuMarks
