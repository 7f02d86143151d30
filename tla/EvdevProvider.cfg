SPECIFICATION Spec
CONSTANTS
  Modifiers = {"leftalt", "rightalt"}
  Keys = {"esc"}
  RecHotkey <- MCRecHotkey
  RecChord = {"rightalt"}
  ActHotkey <- MCActHotkey
  MaxStarts = 2
  MaxQueue = 1
INVARIANTS HoldEnds CaptureIsChord ChordFires
