------------------------------ MODULE ConfigFile ------------------------------
(***************************************************************************)
(* What a configuration says, what is read from its file (config/loaders,  *)
(* config/validators), and what tray menu and window show of it            *)
(* (internal/ui/tray/settings_menu.go, internal/ui/window/gtk.go).  Each   *)
(* setting has its default, one alternative, and for the file that a user  *)
(* edits something else.                                                   *)
(***************************************************************************)
EXTENDS FiniteSets

Fields == {"language", "output", "recorder", "mode", "notify", "hotkey"}

\* default_config.yaml
Default ==
  [language |-> "en", output |-> "active_window", recorder |-> "arecord",
   mode |-> "toggle", notify |-> "on", hotkey |-> "alt+r"]

Alternative ==
  [language |-> "de", output |-> "clipboard", recorder |-> "ffmpeg",
   mode |-> "ptt", notify |-> "off", hotkey |-> "ctrl+k"]

Choices(f) == {Default[f], Alternative[f]}
Written == "other"

\* Mode and output mode are not validated, a bool cannot be anything else.
Config ==
  [language : Choices("language"), output : Choices("output") \cup {Written},
   recorder : Choices("recorder") \cup {Written}, mode : Choices("mode") \cup {Written},
   notify : Choices("notify"), hotkey : Choices("hotkey")]

\* The file: missing, cut short by a write that did not end, or with a content.
Disk == [kind : {"missing", "torn", "whole"}, content : Config]
Whole(cfg) == [kind |-> "whole", content |-> cfg]
Torn == [kind |-> "torn", content |-> Default]
NoFile == [kind |-> "missing", content |-> Default]

\* Of the settings here, only the recording method is corrected.
ValidateConfig(cfg) ==
  IF cfg.recorder \in Choices("recorder") THEN cfg ELSE [cfg EXCEPT !.recorder = "arecord"]

\* The defaults, overlaid with what is in the file.  A torn file is an empty
\* one, or does not parse, in which case nothing is loaded.
Parsed(disk) == IF disk.kind = "whole" THEN disk.content ELSE Default
LoadConfig(disk) == ValidateConfig(Parsed(disk))

-----------------------------------------------------------------------------
\* The tray: which item of a radio menu is marked, and the other displays.

Nothing == "nothing"

RecorderMark(cfg) == IF cfg.recorder \in {"arecord", "ffmpeg"} THEN cfg.recorder ELSE Nothing
LanguageMark(cfg) == cfg.language
OutputMark(cfg) == IF cfg.output \in {"clipboard", "active_window"} THEN cfg.output ELSE Nothing
ModeMark(cfg) == IF cfg.mode = "ptt" THEN "ptt" ELSE "toggle"
NotifyMark(cfg) == cfg.notify
HotkeyLabel(cfg) == cfg.hotkey

Menu(cfg) ==
  [language |-> LanguageMark(cfg), output |-> OutputMark(cfg), recorder |-> RecorderMark(cfg),
   mode |-> ModeMark(cfg), notify |-> NotifyMark(cfg), hotkey |-> HotkeyLabel(cfg)]

\* The window: combo boxes for three of them, which start with no item chosen.
Combo == {"language", "output", "mode"}
Unset == [f \in Combo |-> Nothing]

HotkeyModeID(mode) == IF mode = "ptt" THEN "ptt" ELSE "toggle"

\* A combo box that has no such item keeps the one it shows.
ActiveID(f, v, before) == IF v \in Choices(f) THEN v ELSE before

Window(cfg, before) ==
  [f \in Combo |-> IF f = "mode" THEN HotkeyModeID(cfg.mode) ELSE ActiveID(f, cfg[f], before[f])]
=============================================================================
