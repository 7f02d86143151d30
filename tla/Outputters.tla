------------------------------ MODULE Outputters ------------------------------
(***************************************************************************)
(* Which tool delivers a text (output/factory/factory.go) and what an      *)
(* outputter can do with it (output/outputters).  A machine is what the    *)
(* code asks the system about; a config holds the settings that choose.    *)
(***************************************************************************)
EXTENDS Naturals

ClipboardTools == {"wl-copy", "xsel"}
TypeTools == {"wtype", "ydotool", "xdotool"}
Tools == ClipboardTools \cup TypeTools

\* installed tools are in PATH, working ones also do their job; of the
\* portal we know whether it is there and whether it types.
Machine ==
  [env : {"wayland", "x11", "unknown"}, gnome : BOOLEAN, flatpak : BOOLEAN,
   portal : BOOLEAN, portalWorks : BOOLEAN, installed : SUBSET Tools, working : SUBSET Tools]

\* default_mode is not validated: "other" stands for any unknown word.
Modes == {"clipboard", "active_window", "other"}
Config ==
  [mode : Modes, clipboardTool : {"auto"} \cup ClipboardTools,
   typeTool : {"auto"} \cup TypeTools, allowed : SUBSET Tools]

\* clip and type name the tools of an outputter, "none" for one it lacks;
\* it keeps the config it was made with, and with it the allowed commands.
Outputter ==
  [clip : ClipboardTools \cup {"none"}, type : TypeTools \cup {"portal", "none"}, allowed : SUBSET Tools]
NoOutputter == [clip |-> "none", type |-> "none", allowed |-> {}]

IsCommandAllowed(cfg, tool) == tool \in cfg.allowed

-----------------------------------------------------------------------------
\* The factory.

SelectClipboardTool(cfg, m) ==
  IF cfg.clipboardTool # "auto" THEN cfg.clipboardTool
  ELSE IF m.env = "wayland" THEN "wl-copy" ELSE "xsel"

\* The first tool of a chain that is installed, else xdotool.
FirstInstalled(chain, m) ==
  LET there == {i \in DOMAIN chain : chain[i] \in m.installed}
  IN IF there = {} THEN "xdotool"
     ELSE chain[CHOOSE i \in there : \A j \in there : i <= j]

SelectGNOMEWaylandTypeTool(m) == FirstInstalled(<<"ydotool", "wtype">>, m)
SelectNonGNOMEWaylandTypeTool(m) ==
  IF m.flatpak THEN FirstInstalled(<<"ydotool", "wtype">>, m)
               ELSE FirstInstalled(<<"wtype", "ydotool">>, m)
SelectWaylandTypeTool(m) ==
  IF m.gnome THEN SelectGNOMEWaylandTypeTool(m) ELSE SelectNonGNOMEWaylandTypeTool(m)
SelectFallbackTypeTool(m) == FirstInstalled(<<"xdotool", "wtype", "ydotool">>, m)

SelectTypeTool(cfg, m) ==
  IF cfg.typeTool # "auto" THEN cfg.typeTool
  ELSE CASE m.env = "wayland" -> SelectWaylandTypeTool(m)
         [] m.env = "x11" -> "xdotool"
         [] OTHER -> SelectFallbackTypeTool(m)

\* Creating an outputter needs its tool allowed and installed.
Usable(cfg, m, tool) == IsCommandAllowed(cfg, tool) /\ tool \in m.installed

CreateClipboardOutputter(cfg, m) ==
  LET tool == SelectClipboardTool(cfg, m)
  IN IF Usable(cfg, m, tool)
     THEN [clip |-> tool, type |-> "none", allowed |-> cfg.allowed] ELSE NoOutputter

UsesPortal(cfg, m) == m.env = "wayland" /\ cfg.typeTool = "auto" /\ m.portal

\* The portal outputter takes a clipboard outputter along when there is one.
CreateTypeOutputter(cfg, m) ==
  LET tool == SelectTypeTool(cfg, m)
  IN IF UsesPortal(cfg, m) THEN [clip |-> CreateClipboardOutputter(cfg, m).clip,
                                type |-> "portal", allowed |-> cfg.allowed]
     ELSE IF Usable(cfg, m, tool) THEN [clip |-> "none", type |-> tool, allowed |-> cfg.allowed]
     ELSE NoOutputter

\* Any mode but active_window gets a clipboard outputter.
GetOutputter(cfg, m) ==
  IF cfg.mode = "active_window" THEN CreateTypeOutputter(cfg, m)
                                ELSE CreateClipboardOutputter(cfg, m)

\* newFallbackOutputter: a clipboard tool that is installed, allowed or not.
FallbackTool(m) ==
  IF m.env = "wayland" /\ "wl-copy" \in m.installed THEN "wl-copy"
  ELSE IF "xsel" \in m.installed THEN "xsel" ELSE "none"

-----------------------------------------------------------------------------
\* What an outputter delivers; text is ascii or other.

CopyWorks(out, m) ==
  out.clip # "none" /\ out.clip \in out.allowed /\ out.clip \in m.working

\* PortalOutputter pastes what it cannot type.
PortalTypes(out, m, ascii) == m.portalWorks /\ (ascii \/ CopyWorks(out, m))

\* TypeOutputter: ydotool refuses non-ASCII text on Wayland, and is the
\* second attempt of a wtype that failed.
ToolTypes(out, m, ascii) ==
  /\ out.type \in out.allowed
  /\ out.type = "ydotool" /\ m.env = "wayland" => ascii
  /\ \/ out.type \in m.working
     \/ out.type = "wtype" /\ "ydotool" \in out.allowed /\ "ydotool" \in m.working

TypeWorks(out, m, ascii) ==
  CASE out.type = "none" -> FALSE
    [] out.type = "portal" -> PortalTypes(out, m, ascii)
    [] OTHER -> ToolTypes(out, m, ascii)

\* The outputter has what OutputText asks of it in this mode.
Serves(out, mode) == IF mode = "clipboard" THEN out.clip # "none" ELSE out.type # "none"
=============================================================================
