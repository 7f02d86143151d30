---------------------------- MODULE MCModelSwitch ----------------------------
(***************************************************************************)
(* ModelSwitch for TLC: the goroutines are interchangeable, and what they  *)
(* begin is bounded by a scene.  In "files" what touches files, flag and   *)
(* engine comes beside switches; in "menu" what paints the menu, with      *)
(* clicks on every model and no file missing.                              *)
(***************************************************************************)
EXTENDS ModelSwitch, TLC

VARIABLE scene

Symmetry == Permutations(Callers)

\* What a goroutine may begin in a scene.
Fits(c) ==
  LET r == call'[c]
      Elsewhere(roles) == r.role \in roles => r.want # DefaultModel
  IN \/ scene = "files" /\ r.role # "other" /\ Elsewhere({"tray", "undo"})
     \/ scene = "menu" /\ r.role \notin {"record", "delete"} /\ Elsewhere({"direct"})

MCInit ==
  /\ Init /\ scene \in {"files", "menu"}
  /\ scene = "menu" => \A m \in Models : FileOf(m).there

MCNext ==
  /\ Next
  /\ \A c \in Callers : At(c, "idle") => Fits(c)
  /\ UNCHANGED scene

MCSpec == MCInit /\ [][MCNext]_<<vars, scene>>
=============================================================================
