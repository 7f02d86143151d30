SPECIFICATION Spec
CONSTANTS
  Callers = {c1, c2}
  Clickable = {"output", "notify", "hotkey"}
SYMMETRY Symmetry
INVARIANTS NoUpdateLost RestartKeeps ViewsAgree
