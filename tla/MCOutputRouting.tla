---------------------------- MODULE MCOutputRouting ----------------------------
(***************************************************************************)
(* Machines and configs for TLC: every display server with the tools it    *)
(* looks at or all but one, a full set also with broken ones; the kind of  *)
(* desktop only where it decides (no portal), and configs that forbid a    *)
(* tool, name one, or have a word for a mode nobody knows.                 *)
(***************************************************************************)
EXTENDS OutputRouting, FiniteSets, TLC

RelevantTools(env) ==
  CASE env = "wayland" -> {"wl-copy", "wtype", "ydotool"}
    [] env = "x11" -> {"xsel", "xdotool"}
    [] OTHER -> {"xsel", "wtype", "ydotool"}

MCMachines ==
  {m \in Machine :
     /\ m.installed \subseteq RelevantTools(m.env)
     /\ Cardinality(RelevantTools(m.env) \ m.installed) <= 1
     /\ \/ m.working = m.installed
        \/ m.installed = RelevantTools(m.env) /\ m.working \in {{"wtype"}, {"wl-copy", "ydotool"}, {"xsel"}}
     /\ m.gnome \/ m.flatpak \/ m.portal => m.env = "wayland"
     /\ m.gnome => ~m.flatpak /\ ~m.portal
     /\ m.flatpak => ~m.portal /\ m.installed = RelevantTools(m.env)
     /\ m.portalWorks => m.portal
     /\ m.portal /\ ~m.portalWorks => m.installed = RelevantTools(m.env)}

MCConfigs ==
  {[mode |-> m, clipboardTool |-> "auto", typeTool |-> "auto", allowed |-> Tools] : m \in Modes}
  \cup {[mode |-> "active_window", clipboardTool |-> "auto", typeTool |-> "auto",
         allowed |-> Tools \ {"wl-copy"}],
        [mode |-> "clipboard", clipboardTool |-> "xsel", typeTool |-> "ydotool", allowed |-> Tools]}

Symmetry == Permutations(Callers)
=============================================================================
