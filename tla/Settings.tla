------------------------------- MODULE Settings -------------------------------
(***************************************************************************)
(* Changing a setting from tray, window or hotkey (internal/services/      *)
(* actions.go and config_service.go): the configuration in memory and in   *)
(* its file, and those who have a copy of it: tray, window, and the hotkey *)
(* provider.  Every click runs in a goroutine of its own; an update is     *)
(* serialized by the service's mutex, what follows it is not.              *)
(***************************************************************************)
EXTENDS ConfigFile

CONSTANTS
  Callers,   \* goroutines that run what a click asks for
  Clickable  \* the settings that are changed, a bound

ASSUME ClickableAreFields == Clickable \subseteq Fields

NoOne == "no one"
ASSUME NoOneIsNoCaller == NoOne \notin Callers

VARIABLES
  up,          \* the daemon runs
  config,      \* ConfigService.current
  disk,        \* the config file
  saving,      \* who holds ConfigService.mu
  ready,       \* the tray has its menu items
  trayConfig,  \* TrayManager.config
  menu,        \* marks and labels of the tray
  window,      \* active items of the window's combo boxes
  bound,       \* hotkey and mode of the hotkey provider
  call,        \* where each caller is
  promised,    \* history: what the updates that succeeded add up to
  tells,       \* history: what the file tells: memory, less after a failed write, or other
  disturbed,   \* history: the calls in flight have overlapped
  level        \* history: those an undisturbed call has brought up to date last

views == <<ready, trayConfig, menu, window, bound>>
history == <<promised, tells, disturbed, level>>
vars == <<up, config, disk, saving, views, call, history>>

Active == {"lock", "write", "reload", "bind", "refresh", "show", "again", "mark", "create"}

\* Who shows the configuration, and who acts on it.
Followers == {"views", "keys"}

\* what: a field, or all of them for a reset; was: the config a step has read;
\* failed: the hotkeys could not be reloaded.
Resting == [pc |-> "idle", via |-> "none", what |-> "none", value |-> Nothing,
            was |-> Default, failed |-> FALSE]

TypeOK ==
  /\ up \in BOOLEAN /\ ready \in BOOLEAN /\ tells \in {"memory", "less", "other"} /\ level \subseteq Followers
  /\ config \in Config /\ disk \in Disk /\ trayConfig \in Config /\ promised \in Config
  /\ saving \in Callers \cup {NoOne} /\ disturbed \in BOOLEAN
  /\ DOMAIN menu = Fields /\ DOMAIN window = Combo
  /\ \A c \in Callers : call[c].pc \in Active \cup {"idle"} /\ call[c].was \in Config

Binding(cfg) == [hotkey |-> cfg.hotkey, mode |-> ModeMark(cfg)]

Init ==
  /\ up = FALSE /\ config = Default /\ disk = NoFile /\ saving = NoOne
  /\ ready = FALSE /\ trayConfig = Default /\ menu = Menu(Default) /\ window = Window(Default, Unset)
  /\ bound = Binding(Default)
  /\ call = [c \in Callers |-> Resting]
  /\ promised = Default /\ tells = "memory" /\ disturbed = FALSE /\ level = Followers

-----------------------------------------------------------------------------
At(c, here) == call[c].pc = here
Goto(c, there) == call' = [call EXCEPT ![c].pc = there]
InFlight == {c \in Callers : ~At(c, "idle")}

\* The goroutine of a menu item runs one click after the other.
Waits(c, via, what, value) ==
  \E o \in InFlight \ {c} :
    /\ via = "tray" /\ call[o].via = via /\ call[o].what = what
    /\ what = "hotkey" \/ call[o].value = value

Begin(c, via, what, value, there) ==
  /\ up /\ At(c, "idle") /\ ~Waits(c, via, what, value)
  /\ call' = [call EXCEPT ![c] = [Resting EXCEPT !.pc = there, !.via = via, !.what = what, !.value = value]]
  /\ disturbed' = (InFlight # {})
  /\ level' = IF InFlight = {} THEN level ELSE {}
  /\ UNCHANGED <<promised, tells>>

\* A call returns; one that leaves the views behind is told apart.
Return(c, agrees) ==
  /\ call' = [call EXCEPT ![c] = Resting]
  /\ disturbed' = (disturbed /\ InFlight # {c})
  /\ level' = IF agrees THEN level ELSE level \ {"views"}

-----------------------------------------------------------------------------
\* Clicks.

\* What comes after the update.
Following(what) ==
  CASE what = "mode" -> "reload" [] what = "notify" -> "mark" [] OTHER -> "refresh"

\* UpdateLanguage and its like look, before they lock, if there is something to do.
Update(f, v) == IF config[f] = v THEN Following(f) ELSE "lock"

\* A radio item of the tray.
ClickRadio(c, f, v) ==
  /\ f \in Clickable \ {"notify", "hotkey"} /\ v \in Choices(f) /\ ready
  /\ Begin(c, "tray", f, v, Update(f, v))
  /\ UNCHANGED <<up, config, disk, saving, views>>

\* A combo box shows the choice before it is carried out.
ChangeCombo(c, f, v) ==
  /\ f \in Clickable \cap Combo /\ v \in Choices(f) /\ window[f] # v
  /\ Begin(c, "window", f, v, Update(f, v))
  /\ window' = [window EXCEPT ![f] = v]
  /\ UNCHANGED <<up, config, disk, saving, ready, trayConfig, menu, bound>>

\* The switch of the workflow notifications.
ClickNotify(c) ==
  /\ "notify" \in Clickable /\ ready /\ Begin(c, "tray", "notify", Nothing, "lock")
  /\ UNCHANGED <<up, config, disk, saving, views>>

\* rebindHotkey, once a combination is captured.
Rebind(c, combo) ==
  /\ "hotkey" \in Clickable /\ ready /\ combo \in Choices("hotkey")
  /\ Begin(c, "tray", "hotkey", combo, "lock")
  /\ UNCHANGED <<up, config, disk, saving, views>>

\* ResetToDefaults, from the tray or its hotkey.
Reset(c) ==
  /\ Begin(c, "hotkey", "all", Nothing, "lock")
  /\ UNCHANGED <<up, config, disk, saving, views>>

\* ShowConfigFile writes the file if there is none.
ShowConfigFile(c) ==
  /\ disk.kind = "missing" /\ up /\ At(c, "idle")
  /\ call' = [call EXCEPT ![c] = [Resting EXCEPT !.pc = "create", !.via = "hotkey", !.was = config]]
  /\ UNCHANGED <<up, config, disk, saving, views, history>>

CreateConfigFile(c) ==
  /\ At(c, "create")
  /\ disk' \in {Whole(call[c].was), Torn} /\ call' = [call EXCEPT ![c] = Resting]
  /\ tells' = CASE disk' = Torn -> "less" [] disk' = Whole(config) -> "memory" [] OTHER -> "other"
  /\ UNCHANGED <<up, config, saving, views, promised, disturbed, level>>

-----------------------------------------------------------------------------
\* ConfigService.

Updated(cfg, c) ==
  CASE call[c].what = "all" -> Default
    [] call[c].what = "notify" ->
         [cfg EXCEPT !.notify = IF @ = "on" THEN "off" ELSE "on"]
    [] OTHER -> [cfg EXCEPT ![call[c].what] = call[c].value]

\* Mutant: the copy is taken before the lock.
LockOwnCopy(c) ==
  /\ At(c, "lock")
  /\ disk' = Torn /\ saving' = c
  /\ call' = [call EXCEPT ![c].pc = "write", ![c].was = Updated(config, c)]
  /\ UNCHANGED <<up, config, views, history>>

\* update: the copy, and the file opened and with that truncated.
Lock(c) ==
  /\ At(c, "lock") /\ saving = NoOne
  /\ disk' = Torn /\ saving' = c
  /\ call' = [call EXCEPT ![c].pc = "write", ![c].was = Updated(config, c)]
  /\ UNCHANGED <<up, config, views, history>>

\* The directory or the file cannot be had.
Refused(c) ==
  /\ At(c, "lock") /\ saving = NoOne
  /\ Return(c, call[c].via # "window")
  /\ UNCHANGED <<up, config, disk, saving, views, promised, tells>>

\* Mutant: what is saved is not the copy.
PublishUnsaved(c) ==
  /\ At(c, "write")
  /\ disk' = Whole(config) /\ config' = call[c].was /\ saving' = NoOne
  /\ promised' = Updated(promised, c) /\ tells' = "memory"
  /\ call' = [call EXCEPT ![c].pc = Following(call[c].what), ![c].was = Default]
  /\ UNCHANGED <<up, views, disturbed, level>>

\* The save succeeds, and the copy is published.
Publish(c) ==
  /\ At(c, "write")
  /\ disk' = Whole(call[c].was) /\ config' = call[c].was /\ saving' = NoOne
  /\ promised' = Updated(promised, c) /\ tells' = "memory"
  /\ call' = [call EXCEPT ![c].pc = Following(call[c].what), ![c].was = Default]
  /\ UNCHANGED <<up, views, disturbed, level>>

\* The disk is full: memory stays, the file is cut short.
WriteFails(c) ==
  /\ At(c, "write") /\ saving' = NoOne
  /\ Return(c, call[c].via # "window") /\ tells' = IF disk = Torn THEN "less" ELSE tells
  /\ UNCHANGED <<up, config, disk, views, promised>>

-----------------------------------------------------------------------------
\* What follows an update.

\* IO.SetOutputMethod refuses: the saved mode stays, and nothing is refreshed.
ApplyFails(c) ==
  /\ At(c, "refresh") /\ call[c].what = "output" /\ Return(c, FALSE)
  /\ UNCHANGED <<up, config, disk, saving, views, promised, tells>>

\* updateUISettings, and the one of UpdateHotkey and ResetToDefaults.
Refresh(c) ==
  /\ At(c, "refresh")
  /\ call' = [call EXCEPT ![c].pc = "show", ![c].was = config]
  /\ UNCHANGED <<up, config, disk, saving, views, history>>

\* UpdateHotkey and ResetToDefaults refresh, reload the hotkeys and refresh again.
ToReload(c) == call[c].what \in {"hotkey", "all"} /\ call[c].value # "reloaded"
ToMark(c) == call[c].via = "tray" /\ call[c].what \notin {"hotkey", "all"} /\ ~call[c].failed

Show(c) ==
  /\ At(c, "show")
  /\ trayConfig' = call[c].was /\ window' = Window(call[c].was, window)
  /\ menu' = IF ready THEN Menu(call[c].was) ELSE menu
  /\ level' = IF disturbed THEN level ELSE level \cup {"views"}
  /\ IF ToReload(c) \/ ToMark(c)
     THEN /\ call' = [call EXCEPT ![c].pc = IF ToReload(c) THEN "reload" ELSE "again", ![c].was = Default]
          /\ disturbed' = disturbed
     ELSE /\ call' = [call EXCEPT ![c] = Resting]
          /\ disturbed' = (disturbed /\ InFlight # {c})
  /\ UNCHANGED <<up, config, disk, saving, ready, bound, promised, tells>>

\* reloadHotkeys takes the config of this moment to the hotkey manager.
Reload(c) ==
  /\ At(c, "reload")
  /\ call' = [call EXCEPT ![c].pc = "bind", ![c].was = config]
  /\ UNCHANGED <<up, config, disk, saving, views, history>>

\* Mutant: the provider keeps its binding.
BindNothing(c) ==
  /\ At(c, "bind")
  /\ call' = [call EXCEPT ![c].pc = "refresh", ![c].was = Default,
                          ![c].value = IF call[c].what = "mode" THEN @ ELSE "reloaded"]
  /\ level' = IF disturbed THEN level ELSE level \cup {"keys"}
  /\ UNCHANGED <<up, config, disk, saving, views, promised, tells, disturbed>>

Bind(c) ==
  /\ At(c, "bind")
  /\ bound' = Binding(call[c].was)
  /\ call' = [call EXCEPT ![c].pc = "refresh", ![c].was = Default,
                          ![c].value = IF call[c].what = "mode" THEN @ ELSE "reloaded"]
  /\ level' = IF disturbed THEN level ELSE level \cup {"keys"}
  /\ UNCHANGED <<up, config, disk, saving, ready, trayConfig, menu, window, promised, tells, disturbed>>

\* No provider starts: the manager has the new config, and the call an error.
BindFails(c) ==
  /\ At(c, "bind")
  /\ bound' = Binding(call[c].was)
  /\ call' = [call EXCEPT ![c].pc = "refresh", ![c].was = Default, ![c].failed = TRUE,
                          ![c].value = IF call[c].what = "mode" THEN @ ELSE "reloaded"]
  /\ level' = IF disturbed THEN level ELSE level \cup {"keys"}
  /\ UNCHANGED <<up, config, disk, saving, ready, trayConfig, menu, window, promised, tells, disturbed>>

\* After the callback a radio item is marked, if there was no error.
MarkItem(c) ==
  /\ At(c, "again")
  /\ menu' = [menu EXCEPT ![call[c].what] = call[c].value]
  /\ Return(c, TRUE)
  /\ UNCHANGED <<up, config, disk, saving, ready, trayConfig, window, bound, promised, tells>>

\* The notifications' item is marked from the tray's copy of the config.
MarkNotify(c) ==
  /\ At(c, "mark")
  /\ menu' = [menu EXCEPT !.notify = NotifyMark(trayConfig)]
  /\ Return(c, TRUE)
  /\ UNCHANGED <<up, config, disk, saving, ready, trayConfig, window, bound, promised, tells>>

-----------------------------------------------------------------------------
\* The tray comes up some time after the program.
OnReady ==
  /\ up /\ ~ready /\ ready' = TRUE /\ menu' = Menu(trayConfig)
  /\ UNCHANGED <<up, config, disk, saving, trayConfig, window, bound, call, history>>

\* The user edits or removes the file between two runs; what is done to it
\* during one is gone with the next update.
Edit ==
  /\ ~up
  /\ \/ \E f \in {"output", "mode", "recorder"} \cap Clickable :
          /\ disk.kind = "whole" /\ disk' = [disk EXCEPT !.content[f] = Written]
     \/ disk' = NoFile
  /\ UNCHANGED <<up, config, saving, views, call, history>>

Crash ==
  /\ up /\ up' = FALSE /\ saving' = NoOne
  /\ call' = [c \in Callers |-> Resting]
  /\ config' = Default /\ trayConfig' = Default /\ promised' = Default
  /\ ready' = FALSE /\ menu' = Menu(Default) /\ window' = Window(Default, Unset)
  /\ bound' = Binding(Default)
  /\ tells' = "memory" /\ disturbed' = FALSE /\ level' = Followers
  /\ UNCHANGED disk

\* LoadConfig, which writes a missing file if it can; NewContainer, which turns
\* to the clipboard when nothing can type; and StartHotkeys, whose refresh comes
\* when clicks may already be at work.  A torn file may also keep the program
\* from starting.
Start(c) ==
  /\ ~up /\ up' = TRUE
  /\ \E cfg \in {LoadConfig(disk), [LoadConfig(disk) EXCEPT !.output = "clipboard"]} :
       /\ config' = cfg /\ trayConfig' = cfg /\ promised' = cfg
       /\ menu' = Menu(cfg) /\ window' = Window(cfg, Unset) /\ bound' = Binding(cfg)
       /\ disk' \in IF disk.kind = "missing" THEN {disk, Torn, Whole(Default)} ELSE {disk}
       /\ tells' = IF cfg = LoadConfig(disk') THEN "memory" ELSE "other"
  /\ call' = [call EXCEPT ![c] = [Resting EXCEPT !.pc = "refresh", !.via = "start"]]
  /\ UNCHANGED <<saving, ready, disturbed, level>>

-----------------------------------------------------------------------------
Caller(c) ==
  \/ \E f \in Clickable : \E v \in Choices(f) : ClickRadio(c, f, v) \/ ChangeCombo(c, f, v)
  \/ ClickNotify(c) \/ (\E v \in Choices("hotkey") : Rebind(c, v)) \/ Reset(c) \/ ShowConfigFile(c)
  \/ CreateConfigFile(c) \/ Lock(c) \/ Refused(c)
  \/ Publish(c) \/ WriteFails(c) \/ ApplyFails(c) \/ Refresh(c) \/ Show(c)
  \/ Reload(c) \/ Bind(c) \/ BindFails(c) \/ MarkItem(c) \/ MarkNotify(c)

Next == (\E c \in Callers : Caller(c) \/ Start(c)) \/ OnReady \/ Edit \/ Crash

Spec == Init /\ [][Next]_vars

-----------------------------------------------------------------------------
\* The updates are serialized (config_service.go:24): what is in memory is what
\* the updates that succeeded add up to, and no update undoes another.
NoUpdateLost == up => config = promised

\* A restart gives the settings of memory, whatever failed since, but for two
\* cases that end with the next update (config_service.go:62: a failed save
\* leaves current as it was): the last write failed, which leaves the file cut
\* short, or the start changed a setting in memory only, or ShowConfigFile made
\* the file of an older snapshot.
RestartKeeps ==
  up /\ saving = NoOne =>
    /\ tells = "memory" => LoadConfig(disk) = config
    /\ tells = "less" => disk = Torn

\* Tray, window and hotkey provider agree with the configuration at rest,
\* unless calls overlapped, or one failed half way, and no other has brought
\* them up to date since (actions.go: updateUISettings, reloadHotkeys); the mark
\* of the notifications is another matter.
ViewsAgree ==
  up /\ InFlight = {} =>
    /\ "views" \in level =>
         /\ ready => \A f \in Fields \ {"notify"} : menu[f] = Menu(config)[f]
         /\ window = Window(config, window)
    /\ "keys" \in level => bound = Binding(config)
=============================================================================
