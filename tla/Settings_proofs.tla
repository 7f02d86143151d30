--------------------------- MODULE Settings_proofs ---------------------------
(***************************************************************************)
(* Theorems about Settings, for every set of callers and of settings they  *)
(* may click.                                                              *)
(***************************************************************************)
EXTENDS Settings, TLAPS

USE NoOneIsNoCaller, ClickableAreFields DEF vars, views, history

Values == (UNION {Choices(f) : f \in Fields}) \cup {Nothing, "reloaded"}

Calls ==
  [pc : Active \cup {"idle"}, via : {"none", "tray", "window", "hotkey", "start"},
   what : Fields \cup {"none", "all"}, value : Values, was : Config, failed : BOOLEAN]

\* The part of the types that the theorems need.
CoreTypeOK ==
  /\ up \in BOOLEAN /\ tells \in {"memory", "less", "other"}
  /\ config \in Config /\ promised \in Config /\ disk \in Disk
  /\ saving \in Callers \cup {NoOne}
  /\ call \in [Callers -> Calls]

\* A recording method that could not be loaded again is never in memory.
RecorderInv == config.recorder \in Choices("recorder")

\* A call that is about to update has a value for one of the settings, or is
\* the reset, or the switch of the notifications.
ChoiceInv ==
  \A c \in Callers : call[c].pc \in {"lock", "write"} =>
    \/ call[c].what \in {"all", "notify"}
    \/ call[c].what \in Fields \ {"notify"} /\ call[c].value \in Choices(call[c].what)

\* The mutex: one update at a time is between copy and publication, and its
\* copy is still the one of the configuration in memory.
MutexInv ==
  \A c \in Callers :
    /\ At(c, "write") <=> saving = c
    /\ At(c, "write") => call[c].was = Updated(config, c)

\* A program that does not run makes no calls.
DownInv == ~up => \A c \in Callers : At(c, "idle")

\* What the file is for the one who starts next, an update under way included.
FileInv ==
  up => /\ tells = "memory" => LoadConfig(disk) = config \/ (saving # NoOne /\ disk = Torn)
        /\ tells = "less" => disk = Torn

UpdateInv ==
  CoreTypeOK /\ RecorderInv /\ ChoiceInv /\ MutexInv /\ DownInv /\ config = promised /\ FileInv

(***************************************************************************)
(* Data                                                                    *)
(***************************************************************************)

\* The settings are records with a field each.
LEMMA ConfigFacts ==
  /\ Default \in Config /\ Default.recorder \in Choices("recorder")
  /\ NoFile \in Disk /\ Torn \in Disk
  /\ \A cfg \in Config : Whole(cfg) \in Disk
  BY DEF Default, Alternative, Choices, Written, Config, NoFile, Torn, Whole, Disk

\* What is loaded is a configuration with a known recording method.
LEMMA LoadType ==
  ASSUME NEW file \in Disk
  PROVE  LoadConfig(file) \in Config /\ LoadConfig(file).recorder \in Choices("recorder")
<1>1. Parsed(file) \in Config
  BY ConfigFacts DEF Parsed, Disk
<1>2. ASSUME NEW cfg \in Config
      PROVE  ValidateConfig(cfg) \in Config /\ ValidateConfig(cfg).recorder \in Choices("recorder")
  BY DEF ValidateConfig, Config, Choices, Default, Alternative
<1>. QED  BY <1>1, <1>2 DEF LoadConfig

\* What was saved is loaded again.
LEMMA LoadSaved ==
  ASSUME NEW cfg \in Config, cfg.recorder \in Choices("recorder")
  PROVE  LoadConfig(Whole(cfg)) = cfg
  BY DEF LoadConfig, Parsed, ValidateConfig, Whole

\* An update of a configuration is one.
LEMMA UpdatedType ==
  ASSUME CoreTypeOK, ChoiceInv, NEW c \in Callers, call[c].pc \in {"lock", "write"},
         NEW cfg \in Config, cfg.recorder \in Choices("recorder")
  PROVE  Updated(cfg, c) \in Config /\ Updated(cfg, c).recorder \in Choices("recorder")
<1>1. CASE call[c].what = "all"
  BY <1>1, ConfigFacts DEF Updated
<1>2. CASE call[c].what = "notify"
  BY <1>2 DEF Updated, Config, Choices, Default, Alternative
<1>3. CASE call[c].what \in Fields \ {"notify"} /\ call[c].value \in Choices(call[c].what)
  <2>1. Updated(cfg, c) = [cfg EXCEPT ![call[c].what] = call[c].value]
    BY <1>3 DEF Updated, Fields
  <2>. QED  BY <1>3, <2>1 DEF Fields, Config, Choices, Default, Alternative, Written
<1>. QED  BY <1>1, <1>2, <1>3 DEF ChoiceInv

\* What a call may carry.
LEMMA ValueFacts ==
  /\ Nothing \in Values /\ "reloaded" \in Values
  /\ \A f \in Fields : \A v \in Choices(f) : v \in Values
  BY DEF Values

\* A call at rest.
LEMMA RestingType == Resting \in Calls /\ Resting.pc = "idle"
  BY ValueFacts, ConfigFacts DEF Resting, Calls

(***************************************************************************)
(* Steps of a call outside the mutex                                       *)
(***************************************************************************)

Choosing(r) ==
  \/ r.what \in {"all", "notify"}
  \/ r.what \in Fields \ {"notify"} /\ r.value \in Choices(r.what)

\* A call that neither enters nor leaves the critical section disturbs nobody.
LEMMA Moves ==
  ASSUME UpdateInv, NEW c \in Callers, NEW r \in Calls, call' = [call EXCEPT ![c] = r],
         ~At(c, "write"), r.pc # "write", r.pc = "lock" => Choosing(r),
         up \/ ~At(c, "idle"),
         UNCHANGED <<up, config, disk, saving, promised, tells>>
  PROVE  UpdateInv'
<1>. USE DEF UpdateInv, CoreTypeOK
<1>1. CoreTypeOK'
  OBVIOUS
<1>2. RecorderInv' /\ FileInv' /\ config' = promised'
  BY DEF RecorderInv, FileInv
<1>3. ChoiceInv'
  BY DEF ChoiceInv, Choosing
<1>4. MutexInv'
  BY DEF MutexInv, At, Updated
<1>5. DownInv'
  BY DEF DownInv, At
<1>. QED  BY <1>1, <1>2, <1>3, <1>4, <1>5

\* A click starts a call with a choice of its own.
LEMMA BeginMoves ==
  ASSUME UpdateInv, NEW c \in Callers, NEW via \in {"tray", "window", "hotkey"}, NEW what, NEW value, NEW there,
         Begin(c, via, what, value, there), UNCHANGED <<up, config, disk, saving>>,
         there \in {"lock", "reload", "mark", "refresh"},
         \/ what \in {"all", "notify"} /\ value = Nothing
         \/ what \in Fields \ {"notify"} /\ value \in Choices(what)
  PROVE  UpdateInv'
<1>. DEFINE r == [Resting EXCEPT !.pc = there, !.via = via, !.what = what, !.value = value]
<1>1. what \in Fields \cup {"none", "all"} /\ value \in Values /\ there \in Active
  BY ValueFacts DEF Fields, Active
<1>2. r \in Calls /\ r.pc = there /\ r.what = what /\ r.value = value
  BY <1>1, RestingType DEF Calls
<1>3. r.pc # "write" /\ Choosing(r)
  BY <1>2 DEF Choosing
<1>4. call' = [call EXCEPT ![c] = r] /\ ~At(c, "write") /\ up /\ UNCHANGED <<promised, tells>>
  BY DEF Begin, At
<1>. QED  BY <1>2, <1>3, <1>4, Moves

\* The clicks.
LEMMA ClickStep ==
  ASSUME UpdateInv, NEW c \in Callers,
         \/ \E f \in Clickable : \E v \in Choices(f) : ClickRadio(c, f, v) \/ ChangeCombo(c, f, v)
         \/ ClickNotify(c) \/ (\E v \in Choices("hotkey") : Rebind(c, v)) \/ Reset(c)
  PROVE  UpdateInv'
<1>1. ASSUME NEW f \in Clickable, NEW v \in Choices(f), ClickRadio(c, f, v) \/ ChangeCombo(c, f, v)
      PROVE  UpdateInv'
  <2>1. f \in Fields \ {"notify"}
    BY <1>1 DEF ClickRadio, ChangeCombo, Combo
  <2>2. Update(f, v) \in {"lock", "reload", "mark", "refresh"}
    BY DEF Update, Following
  <2>. QED  BY <1>1, <2>1, <2>2, BeginMoves DEF ClickRadio, ChangeCombo
<1>2. CASE ClickNotify(c)
  BY <1>2, BeginMoves DEF ClickNotify
<1>3. ASSUME NEW v \in Choices("hotkey"), Rebind(c, v)
      PROVE  UpdateInv'
  BY <1>3, BeginMoves DEF Rebind, Fields
<1>4. CASE Reset(c)
  BY <1>4, BeginMoves DEF Reset
<1>. QED  BY <1>1, <1>2, <1>3, <1>4

\* The end of a call.
LEMMA RestMoves ==
  ASSUME UpdateInv, NEW c \in Callers, call' = [call EXCEPT ![c] = Resting],
         ~At(c, "write"), ~At(c, "idle"),
         UNCHANGED <<up, config, disk, saving, promised, tells>>
  PROVE  UpdateInv'
<1>1. Resting \in Calls /\ Resting.pc = "idle"
  BY RestingType
<1>. QED  BY <1>1, Moves

\* What follows an update, except the mark of a menu item, is another place
\* of the same call with another configuration in hand.
LEMMA FollowStep ==
  ASSUME UpdateInv, NEW c \in Callers,
         \/ Refused(c) \/ ApplyFails(c) \/ Refresh(c) \/ Show(c)
         \/ Reload(c) \/ Bind(c) \/ BindFails(c) \/ MarkItem(c) \/ MarkNotify(c)
  PROVE  UpdateInv'
<1>. USE DEF UpdateInv, CoreTypeOK, At
<1>1. CASE Refused(c) \/ ApplyFails(c) \/ MarkItem(c) \/ MarkNotify(c)
  BY <1>1, RestMoves DEF Refused, ApplyFails, MarkItem, MarkNotify, Return
<1>2. call[c] \in Calls
  OBVIOUS
<1>3. CASE Refresh(c)
  <2>. DEFINE r == [call[c] EXCEPT !.pc = "show", !.was = config]
  <2>1. r \in Calls /\ r.pc = "show"
    BY <1>2 DEF Calls, Active
  <2>2. call' = [call EXCEPT ![c] = r]
    BY <1>3 DEF Refresh
  <2>. QED  BY <1>3, <2>1, <2>2, Moves DEF Refresh
<1>6. CASE Reload(c)
  <2>. DEFINE r == [call[c] EXCEPT !.pc = "bind", !.was = config]
  <2>1. r \in Calls /\ r.pc = "bind"
    BY <1>2 DEF Calls, Active
  <2>2. call' = [call EXCEPT ![c] = r]
    BY <1>6 DEF Reload
  <2>. QED  BY <1>6, <2>1, <2>2, Moves DEF Reload
<1>4. CASE Show(c)
  <2>1. CASE call' = [call EXCEPT ![c] = Resting]
    BY <1>4, <2>1, RestMoves DEF Show
  <2>2. CASE \E there \in {"reload", "again"} :
               call' = [call EXCEPT ![c].pc = there, ![c].was = Default]
    <3>1. PICK there \in {"reload", "again"} :
            call' = [call EXCEPT ![c].pc = there, ![c].was = Default]
      BY <2>2
    <3>. DEFINE r == [call[c] EXCEPT !.pc = there, !.was = Default]
    <3>2. call' = [call EXCEPT ![c] = r]
      BY <1>2, <3>1 DEF Calls
    <3>3. r \in Calls /\ r.pc \in {"reload", "again"}
      BY <1>2, ConfigFacts DEF Calls, Active
    <3>. QED  BY <1>4, <3>2, <3>3, Moves DEF Show
  <2>. QED  BY <1>4, <2>1, <2>2 DEF Show
<1>5. CASE Bind(c) \/ BindFails(c)
  <2>. DEFINE w == IF call[c].what = "mode" THEN call[c].value ELSE "reloaded"
  <2>1. w \in Values
    BY <1>2, ValueFacts DEF Calls
  <2>2. CASE Bind(c)
    <3>. DEFINE r == [call[c] EXCEPT !.pc = "refresh", !.was = Default, !.value = w]
    <3>1. r \in Calls /\ r.pc = "refresh"
      BY <1>2, <2>1, ConfigFacts DEF Calls, Active
    <3>2. call' = [call EXCEPT ![c] = r]
      BY <2>2 DEF Bind
    <3>. QED  BY <2>2, <3>1, <3>2, Moves DEF Bind
  <2>3. CASE BindFails(c)
    <3>. DEFINE r == [call[c] EXCEPT !.pc = "refresh", !.was = Default, !.failed = TRUE, !.value = w]
    <3>1. r \in Calls /\ r.pc = "refresh"
      BY <1>2, <2>1, ConfigFacts DEF Calls, Active
    <3>2. call' = [call EXCEPT ![c] = r]
      BY <2>3 DEF BindFails
    <3>. QED  BY <2>3, <3>1, <3>2, Moves DEF BindFails
  <2>. QED  BY <1>5, <2>2, <2>3
<1>. QED  BY <1>1, <1>3, <1>4, <1>5, <1>6

\* The configuration file that ShowConfigFile makes is the one of memory, or
\* does not count.
LEMMA CreateStep ==
  ASSUME UpdateInv, NEW c \in Callers, ShowConfigFile(c) \/ CreateConfigFile(c)
  PROVE  UpdateInv'
<1>. USE DEF UpdateInv, CoreTypeOK, At
<1>1. CASE ShowConfigFile(c)
  <2>. DEFINE r == [Resting EXCEPT !.pc = "create", !.via = "hotkey", !.was = config]
  <2>1. r \in Calls /\ r.pc = "create"
    BY RestingType DEF Calls, Active
  <2>. QED  BY <1>1, <2>1, Moves DEF ShowConfigFile
<1>2. CASE CreateConfigFile(c)
  <2>1. Resting \in Calls /\ Resting.pc = "idle"
    BY RestingType
  <2>2. /\ disk' \in Disk /\ tells' \in {"memory", "less", "other"}
        /\ tells' = "memory" => disk' = Whole(config)
        /\ tells' = "less" => disk' = Torn
    <3>1. call[c].was \in Config
      BY DEF Calls
    <3>2. disk' \in Disk
      BY <1>2, <3>1, ConfigFacts DEF CreateConfigFile
    <3>. QED  BY <1>2, <3>2 DEF CreateConfigFile
  <2>3. CoreTypeOK'
    BY <1>2, <2>1, <2>2 DEF CreateConfigFile
  <2>4. FileInv'
    BY <1>2, <2>2, LoadSaved DEF CreateConfigFile, FileInv, RecorderInv
  <2>5. ChoiceInv' /\ MutexInv' /\ RecorderInv' /\ DownInv'
    BY <1>2, <2>1 DEF CreateConfigFile, ChoiceInv, MutexInv, RecorderInv, DownInv, Updated
  <2>. QED  BY <1>2, <2>3, <2>4, <2>5 DEF CreateConfigFile
<1>. QED  BY <1>1, <1>2

(***************************************************************************)
(* The critical section, and the process                                   *)
(***************************************************************************)

\* ConfigService.update: copy and truncated file ...
LEMMA LockStep ==
  ASSUME UpdateInv, NEW c \in Callers, Lock(c)
  PROVE  UpdateInv'
<1>. USE DEF UpdateInv, CoreTypeOK, At, Lock
<1>1. call[c] \in Calls /\ Updated(config, c) \in Config
  BY UpdatedType DEF RecorderInv
<1>. DEFINE r == [call[c] EXCEPT !.pc = "write", !.was = Updated(config, c)]
<1>2. call' = [call EXCEPT ![c] = r] /\ r \in Calls
  BY <1>1 DEF Calls, Active
<1>3. r.pc = "write" /\ r.was = Updated(config, c) /\ r.what = call[c].what /\ r.value = call[c].value
  BY <1>1 DEF Calls
<1>4. CoreTypeOK'
  BY <1>2, ConfigFacts
<1>5. ChoiceInv'
  BY <1>2, <1>3 DEF ChoiceInv
<1>6. MutexInv'
  <2>1. ASSUME NEW d \in Callers, d # c
        PROVE  call'[d].pc # "write" /\ saving' # d
    BY <1>2, <2>1 DEF MutexInv
  <2>2. call'[c].pc = "write" /\ saving' = c
    BY <1>2, <1>3
  <2>3. call'[c] = r /\ call'[c].was = Updated(config, c)
    BY <1>2, <1>3
  <2>4. Updated(config, c)' = Updated(config, c)
    BY <1>3, <2>3 DEF Updated
  <2>. QED  BY <2>1, <2>2, <2>3, <2>4 DEF MutexInv
<1>7. RecorderInv' /\ FileInv' /\ config' = promised'
  BY DEF RecorderInv, FileInv
<1>8. DownInv'
  BY DEF DownInv
<1>. QED  BY <1>4, <1>5, <1>6, <1>7, <1>8

\* ... and its two ends: published with the file, or given up.
LEMMA UpdateEnds ==
  ASSUME UpdateInv, NEW c \in Callers, Publish(c) \/ WriteFails(c)
  PROVE  UpdateInv'
<1>. USE DEF UpdateInv, CoreTypeOK, At
<1>1. saving = c /\ call[c] \in Calls /\ call[c].pc = "write"
  BY DEF Publish, WriteFails, MutexInv
<1>2. \A d \in Callers : d # c => ~At(d, "write")
  BY <1>1 DEF MutexInv
<1>3. CASE Publish(c)
  <2>. DEFINE cfg == call[c].was
              r == [call[c] EXCEPT !.pc = Following(call[c].what), !.was = Default]
  <2>1. cfg = Updated(config, c) /\ cfg \in Config /\ cfg.recorder \in Choices("recorder")
    BY <1>1, UpdatedType DEF MutexInv, RecorderInv
  <2>2. call' = [call EXCEPT ![c] = r] /\ r \in Calls /\ r.pc \in {"reload", "mark", "refresh"}
    BY <1>1, <1>3, ConfigFacts DEF Publish, Calls, Following, Active
  <2>3. CoreTypeOK'
    BY <1>3, <2>1, <2>2, ConfigFacts DEF Publish
  <2>4. RecorderInv' /\ FileInv' /\ config' = promised'
    BY <1>3, <2>1, LoadSaved DEF Publish, RecorderInv, FileInv
  <2>5. ChoiceInv'
    BY <2>2 DEF ChoiceInv
  <2>6. MutexInv' /\ DownInv'
    BY <1>1, <1>2, <1>3, <2>2 DEF Publish, MutexInv, DownInv
  <2>. QED  BY <2>3, <2>4, <2>5, <2>6
<1>4. CASE WriteFails(c)
  <2>1. Resting \in Calls /\ Resting.pc = "idle"
    BY RestingType
  <2>2. CoreTypeOK' /\ RecorderInv' /\ FileInv' /\ config' = promised'
    BY <1>4, <2>1 DEF WriteFails, Return, RecorderInv, FileInv
  <2>3. ChoiceInv' /\ MutexInv' /\ DownInv'
    BY <1>1, <1>2, <1>4, <2>1 DEF WriteFails, Return, ChoiceInv, MutexInv, DownInv
  <2>. QED  BY <2>2, <2>3
<1>. QED  BY <1>3, <1>4

\* The process comes and goes, and the user edits the file in between.
LEMMA ProcessStep ==
  ASSUME UpdateInv, Edit \/ Crash \/ OnReady \/ \E c \in Callers : Start(c)
  PROVE  UpdateInv'
<1>. USE DEF UpdateInv, CoreTypeOK, At
<1>1. CASE OnReady
  BY <1>1 DEF OnReady, RecorderInv, ChoiceInv, MutexInv, DownInv, FileInv, Updated
<1>2. CASE Edit
  <2>1. disk' \in Disk
    <3>1. ASSUME NEW f \in {"output", "mode", "recorder"}
          PROVE  [disk EXCEPT !.content[f] = Written] \in Disk
      BY DEF Disk, Config, Written
    <3>. QED  BY <1>2, <3>1, ConfigFacts DEF Edit
  <2>2. CoreTypeOK' /\ RecorderInv' /\ FileInv'
    BY <1>2, <2>1 DEF Edit, RecorderInv, FileInv
  <2>3. ChoiceInv' /\ MutexInv' /\ DownInv'
    BY <1>2 DEF Edit, ChoiceInv, MutexInv, DownInv, Updated
  <2>. QED  BY <1>2, <2>2, <2>3 DEF Edit
<1>3. CASE Crash
  <2>1. Resting \in Calls /\ Resting.pc = "idle"
    BY RestingType
  <2>2. CoreTypeOK' /\ RecorderInv' /\ FileInv'
    BY <1>3, <2>1, ConfigFacts DEF Crash, RecorderInv, FileInv
  <2>3. ChoiceInv' /\ MutexInv' /\ DownInv'
    BY <1>3, <2>1 DEF Crash, ChoiceInv, MutexInv, DownInv
  <2>. QED  BY <1>3, <2>2, <2>3 DEF Crash
<1>4. ASSUME NEW c \in Callers, Start(c)
      PROVE  UpdateInv'
  <2>. DEFINE r == [Resting EXCEPT !.pc = "refresh", !.via = "start"]
  <2>1. r \in Calls /\ r.pc = "refresh"
    BY RestingType DEF Calls, Active
  <2>2. config' \in Config /\ config'.recorder \in Choices("recorder")
    BY <1>4, LoadType DEF Start, Config, Choices, Default, Alternative
  <2>3. disk' \in Disk /\ promised' = config' /\ tells' = (IF config' = LoadConfig(disk') THEN "memory" ELSE "other")
    BY <1>4, ConfigFacts DEF Start
  <2>4. CoreTypeOK' /\ RecorderInv' /\ FileInv'
    BY <1>4, <2>1, <2>2, <2>3 DEF Start, RecorderInv, FileInv
  <2>5. ChoiceInv' /\ MutexInv' /\ DownInv'
    BY <1>4, <2>1 DEF Start, ChoiceInv, MutexInv, DownInv, Updated
  <2>. QED  BY <2>3, <2>4, <2>5
<1>. QED  BY <1>1, <1>2, <1>3, <1>4

\* The invariant of the configuration service is inductive.
LEMMA UpdateInvStep == UpdateInv /\ [Next]_vars => UpdateInv'
<1>1. ASSUME UpdateInv, UNCHANGED vars
      PROVE  UpdateInv'
  BY <1>1 DEF UpdateInv, CoreTypeOK, RecorderInv, ChoiceInv, MutexInv, DownInv, FileInv, At, Updated
<1>. QED  BY <1>1, ClickStep, FollowStep, CreateStep, LockStep, UpdateEnds, ProcessStep
          DEF Next, Caller

LEMMA UpdateInvHolds == Spec => []UpdateInv
<1>1. Init => UpdateInv
  <2>1. Resting \in Calls /\ Resting.pc = "idle"
    BY RestingType
  <2>. QED  BY <2>1, ConfigFacts
            DEF Init, UpdateInv, CoreTypeOK, RecorderInv, ChoiceInv, MutexInv, DownInv, FileInv, At
<1>. QED  BY <1>1, UpdateInvStep, PTL DEF Spec

\* No update undoes another: what is in memory is what all updates that
\* succeeded add up to, in the order of their publication (config_service.go:54).
THEOREM UpdatesAddUp == Spec => []NoUpdateLost
<1>1. UpdateInv => NoUpdateLost
  BY DEF UpdateInv, NoUpdateLost
<1>. QED  BY <1>1, UpdateInvHolds, PTL

\* Whenever nobody is writing it the file loads as memory says, whatever failed
\* since, unless the last write failed and left it cut short, or memory or file
\* came from elsewhere than an update and none came since (config_service.go:54,
\* yaml_loader.go:89).
THEOREM FileKeepsUp == Spec => []RestartKeeps
<1>1. UpdateInv => RestartKeeps
  BY DEF UpdateInv, FileInv, RestartKeeps
<1>. QED  BY <1>1, UpdateInvHolds, PTL

(***************************************************************************)
(* What follows an update                                                  *)
(***************************************************************************)

\* The calls that have changed, or are about to change, what others have
\* copied; a call that only creates the file has not.
Working == {c \in Callers : call[c].pc \notin {"idle", "create"}}

RadioItems == {"language", "output", "recorder", "mode"}
After == {"reload", "bind", "refresh", "show", "again"}

\* Where each kind of call may be.
KindInv(c) ==
  LET r == call[c]
  IN /\ r.pc \in After /\ r.via = "tray" => r.what \in RadioItems \cup {"hotkey"}
     /\ r.pc \in {"lock", "write"} \cup After /\ r.via = "tray" /\ r.what \in RadioItems
          => r.value \in Choices(r.what)
     /\ r.pc \in {"lock", "write"} /\ r.what = "notify" => r.via = "tray"
     /\ r.pc \in {"lock", "write"} /\ r.what = "all" => r.via # "tray" /\ r.value # "reloaded"
     /\ r.pc \in {"mark", "again"} => r.via = "tray"
     /\ r.pc = "again" => r.what \in RadioItems
     /\ r.pc \in {"reload", "bind"} => r.what \in {"mode", "hotkey", "all"}

\* Calls that overlap disturb each other, and then nothing is up to date.
OverlapInv ==
  /\ \A c, d \in Working : c # d => disturbed
  /\ disturbed => level = {}

\* Tray, window and provider are up to date.
MenuFits ==
  \A f \in Fields \ {"notify"} :
    Menu(trayConfig)[f] = Menu(config)[f] /\ (ready => menu[f] = Menu(config)[f])
WindowFits == window = Window(config, window)
KeysFit == bound = Binding(config)

\* The hotkey of this call, or all settings, have yet to reach the provider.
Unbound(c) == call[c].what \in {"hotkey", "all"} /\ call[c].value # "reloaded"

\* What an undisturbed call has in hand, and what it has left behind.
FollowInv(c) ==
  ~disturbed =>
    LET r == call[c]
    IN /\ r.pc \in {"show", "bind"} => r.was = config
       /\ r.pc \in After /\ r.via = "tray" /\ r.what \in RadioItems => config[r.what] = r.value
       /\ "views" \in level /\ r.pc \in {"lock", "write", "mark", "again"} =>
            MenuFits /\ (WindowFits \/ r.via = "window")
       /\ "keys" \in level =>
            \/ r.pc \in {"idle", "create", "reload", "bind"}
            \/ r.pc \in {"refresh", "show"} /\ Unbound(c)
            \/ KeysFit

RestInv ==
  Working = {} => /\ "views" \in level => MenuFits /\ WindowFits
                  /\ "keys" \in level => KeysFit

ViewInv ==
  /\ DOMAIN menu = Fields /\ level \subseteq Followers /\ disturbed \in BOOLEAN
  /\ OverlapInv /\ RestInv
  /\ \A c \in Callers : KindInv(c) /\ FollowInv(c)

\* How calls overlap.
LEMMA WorkingMoves ==
  ASSUME UpdateInv, NEW c \in Callers, NEW r, call' = [call EXCEPT ![c] = r]
  PROVE  /\ Working' = IF r.pc \in {"idle", "create"} THEN Working \ {c} ELSE Working \cup {c}
         /\ \A d \in Callers \ {c} : KindInv(d)' = KindInv(d)
         /\ call'[c] = r
  BY DEF Working, KindInv, UpdateInv, CoreTypeOK

\* Beside an undisturbed call nobody is at work.
LEMMA AtRestFollows ==
  ASSUME NEW d \in Callers, call[d].pc \in {"idle", "create"}
  PROVE  FollowInv(d)
  BY DEF FollowInv, After

\* A call goes on.
LEMMA Stays ==
  ASSUME UpdateInv, ViewInv, NEW c \in Working, NEW r, call' = [call EXCEPT ![c] = r],
         r.pc \notin {"idle", "create"}, disturbed' = disturbed,
         level' \subseteq Followers, disturbed => level' = level,
         DOMAIN menu' = Fields, KindInv(c)', FollowInv(c)'
  PROVE  ViewInv'
<1>1. c \in Callers /\ Working' = Working /\ c \in Working'
  BY WorkingMoves DEF Working
<1>2. OverlapInv' /\ RestInv'
  BY <1>1 DEF ViewInv, OverlapInv, RestInv
<1>3. ASSUME NEW d \in Callers PROVE KindInv(d)' /\ FollowInv(d)'
  <2>1. CASE d = c
    BY <2>1
  <2>2. CASE d # c /\ d \in Working
    BY <1>1, <2>2, WorkingMoves DEF ViewInv, OverlapInv, FollowInv
  <2>3. CASE d # c /\ d \notin Working
    <3>1. call'[d].pc \in {"idle", "create"}
      BY <2>3 DEF Working, UpdateInv, CoreTypeOK
    <3>. QED  BY <1>1, <2>3, <3>1, WorkingMoves DEF ViewInv, FollowInv, After
  <2>. QED  BY <2>1, <2>2, <2>3
<1>. QED  BY <1>2, <1>3 DEF ViewInv

\* A call returns.
LEMMA Ends ==
  ASSUME UpdateInv, ViewInv, NEW c \in Working, call' = [call EXCEPT ![c] = Resting],
         disturbed' = (disturbed /\ InFlight # {c}), level' \subseteq Followers,
         disturbed => level' = {}, DOMAIN menu' = Fields,
         ~disturbed => /\ "views" \in level' => MenuFits' /\ WindowFits'
                       /\ "keys" \in level' => KeysFit'
  PROVE  ViewInv'
<1>1. c \in Callers /\ Working' = Working \ {c} /\ call'[c].pc = "idle"
  BY WorkingMoves DEF Working, Resting
<1>2. ASSUME NEW d \in Working, d # c PROVE disturbed'
  BY <1>2 DEF ViewInv, OverlapInv, InFlight, At, Working
<1>3. OverlapInv' /\ RestInv'
  BY <1>1, <1>2 DEF ViewInv, OverlapInv, RestInv
<1>4. ASSUME NEW d \in Callers PROVE KindInv(d)' /\ FollowInv(d)'
  <2>1. CASE d = c
    BY <1>1, <2>1 DEF KindInv, FollowInv, After
  <2>2. CASE d # c /\ d \in Working
    BY <1>1, <1>2, <2>2, WorkingMoves DEF ViewInv, FollowInv
  <2>3. CASE d # c /\ d \notin Working
    <3>1. call'[d].pc \in {"idle", "create"}
      BY <2>3 DEF Working, UpdateInv, CoreTypeOK
    <3>. QED  BY <1>1, <2>3, <3>1, WorkingMoves DEF ViewInv, FollowInv, After
  <2>. QED  BY <2>1, <2>2, <2>3
<1>. QED  BY <1>3, <1>4 DEF ViewInv

\* A call begins.
LEMMA Starts ==
  ASSUME UpdateInv, ViewInv, NEW c \in Callers, At(c, "idle"), NEW r, call' = [call EXCEPT ![c] = r],
         r.pc \notin {"idle", "create"}, disturbed' = (InFlight # {}),
         level' = IF InFlight = {} THEN level ELSE {},
         DOMAIN menu' = Fields, KindInv(c)', InFlight = {} => FollowInv(c)'
  PROVE  ViewInv'
<1>1. Working' = Working \cup {c} /\ Working \subseteq InFlight
  BY WorkingMoves DEF Working, InFlight, At
<1>2. OverlapInv' /\ RestInv' /\ level' \subseteq Followers
  BY <1>1 DEF ViewInv, OverlapInv, RestInv
<1>3. ASSUME NEW d \in Callers PROVE KindInv(d)' /\ FollowInv(d)'
  <2>1. CASE d = c
    BY <2>1 DEF FollowInv
  <2>2. CASE d # c
    <3>1. CASE call[d].pc \in {"idle", "create"}
      <4>1. call'[d].pc \in {"idle", "create"}
        BY <2>2, <3>1 DEF UpdateInv, CoreTypeOK
      <4>. QED  BY <2>2, <4>1, WorkingMoves DEF ViewInv, FollowInv, After
    <3>2. CASE call[d].pc \notin {"idle", "create"}
      BY <1>1, <2>2, <3>2, WorkingMoves DEF ViewInv, FollowInv, Working
    <3>. QED  BY <3>1, <3>2
  <2>. QED  BY <2>1, <2>2
<1>. QED  BY <1>2, <1>3 DEF ViewInv

\* To show a configuration once more changes nothing, not even a combo box
\* that has no item for it (SetActiveID).
LEMMA ShownAgain ==
  ASSUME NEW cfg, NEW before
  PROVE  LET shown == Window(cfg, before) IN shown = Window(cfg, shown)
  BY DEF Window, ActiveID, Combo

\* What the views say is said of the same configuration again.
LEMMA SameViews ==
  ASSUME UNCHANGED <<config, ready, trayConfig, menu>>
  PROVE  MenuFits' = MenuFits
  BY DEF MenuFits

\* A click finds everything up to date, or knows that it is not.
LEMMA BeginViews ==
  ASSUME UpdateInv, ViewInv, NEW c \in Callers, NEW via \in {"tray", "window", "hotkey"}, NEW what, NEW value, NEW there,
         Begin(c, via, what, value, there), UNCHANGED <<config, ready, trayConfig, menu, bound>>,
         window' = window \/ via = "window",
         there \in {"lock", "reload", "refresh"}, what = "notify" => via = "tray",
         via = "tray" => what \in Fields, what = "all" => value = Nothing,
         what \in RadioItems => value \in Choices(what),
         there # "lock" => /\ there = Following(what) /\ what \in RadioItems
                           /\ config[what] = value
  PROVE  ViewInv'
<1>. DEFINE r == [Resting EXCEPT !.pc = there, !.via = via, !.what = what, !.value = value]
<1>1. /\ call' = [call EXCEPT ![c] = r] /\ At(c, "idle") /\ disturbed' = (InFlight # {})
      /\ level' = IF InFlight = {} THEN level ELSE {}
  BY DEF Begin
<1>2. r.pc = there /\ r.via = via /\ r.what = what /\ r.value = value
  BY DEF Resting
<1>3. call'[c] = r
  BY <1>1 DEF UpdateInv, CoreTypeOK
<1>. HIDE DEF r
<1>4. KindInv(c)'
  BY <1>2, <1>3 DEF KindInv, After, Following, Fields, RadioItems, Nothing
<1>5. ASSUME InFlight = {} PROVE FollowInv(c)'
  <2>1. /\ "views" \in level => MenuFits /\ WindowFits
        /\ "keys" \in level => KeysFit
    BY <1>5 DEF ViewInv, RestInv, Working, InFlight, At
  <2>2. /\ "views" \in level' => MenuFits' /\ (WindowFits' \/ via = "window")
        /\ "keys" \in level' => KeysFit'
    BY <1>1, <1>5, <2>1, SameViews DEF WindowFits, KeysFit
  <2>. QED  BY <1>2, <1>3, <2>2 DEF FollowInv, After
<1>. QED  BY <1>1, <1>2, <1>4, <1>5, Starts DEF ViewInv

\* The clicks.
LEMMA ClickViews ==
  ASSUME UpdateInv, ViewInv, NEW c \in Callers,
         \/ \E f \in Clickable : \E v \in Choices(f) : ClickRadio(c, f, v) \/ ChangeCombo(c, f, v)
         \/ ClickNotify(c) \/ (\E v \in Choices("hotkey") : Rebind(c, v)) \/ Reset(c)
  PROVE  ViewInv'
<1>1. ASSUME NEW f \in Clickable, NEW v \in Choices(f), ClickRadio(c, f, v) \/ ChangeCombo(c, f, v)
      PROVE  ViewInv'
  <2>1. f \in RadioItems
    BY <1>1 DEF ClickRadio, ChangeCombo, Combo, RadioItems, Fields
  <2>2. /\ Update(f, v) \in {"lock", "reload", "refresh"}
        /\ Update(f, v) # "lock" => Update(f, v) = Following(f) /\ config[f] = v
    BY <2>1 DEF Update, Following, RadioItems
  <2>. QED  BY <1>1, <2>1, <2>2, BeginViews DEF ClickRadio, ChangeCombo, RadioItems
<1>2. CASE ClickNotify(c)
  BY <1>2, BeginViews DEF ClickNotify, Fields, RadioItems
<1>3. ASSUME NEW v \in Choices("hotkey"), Rebind(c, v)
      PROVE  ViewInv'
  BY <1>3, BeginViews DEF Rebind, Fields, RadioItems
<1>4. CASE Reset(c)
  BY <1>4, BeginViews DEF Reset, RadioItems
<1>. QED  BY <1>1, <1>2, <1>3, <1>4

\* A call that fails before anything changed has changed nothing but the
\* window's combo box.
LEMMA FailViews ==
  ASSUME UpdateInv, ViewInv, NEW c \in Callers, Refused(c) \/ WriteFails(c)
  PROVE  ViewInv'
<1>. USE DEF Refused, WriteFails, Return, At
<1>1. c \in Working
  BY DEF Working
<1>2. level' = (IF call[c].via # "window" THEN level ELSE level \ {"views"}) /\ level' \subseteq level
  OBVIOUS
<1>3. ASSUME ~disturbed
      PROVE  /\ "views" \in level' => MenuFits' /\ WindowFits'
             /\ "keys" \in level' => KeysFit'
  <2>1. FollowInv(c) /\ UNCHANGED <<config, ready, trayConfig, menu, window, bound>>
    BY DEF ViewInv
  <2>2. "views" \in level' => MenuFits /\ WindowFits
    BY <1>2, <1>3, <2>1 DEF FollowInv
  <2>3. "keys" \in level' => KeysFit
    BY <1>2, <1>3, <2>1 DEF FollowInv
  <2>. QED  BY <2>1, <2>2, <2>3, SameViews DEF WindowFits, KeysFit
<1>4. disturbed => level' = {}
  BY <1>2 DEF ViewInv, OverlapInv
<1>. QED  BY <1>1, <1>2, <1>3, <1>4, Ends DEF ViewInv

\* The copy is taken: nothing that others see has changed.
LEMMA LockViews ==
  ASSUME UpdateInv, ViewInv, NEW c \in Callers, Lock(c)
  PROVE  ViewInv'
<1>. USE DEF Lock, At
<1>. DEFINE r == [call[c] EXCEPT !.pc = "write", !.was = Updated(config, c)]
<1>1. c \in Working /\ call[c] \in Calls
  BY DEF Working, UpdateInv, CoreTypeOK
<1>2. /\ call' = [call EXCEPT ![c] = r] /\ call'[c] = r
      /\ r.pc = "write" /\ r.via = call[c].via /\ r.what = call[c].what /\ r.value = call[c].value
  BY <1>1 DEF UpdateInv, CoreTypeOK, Calls
<1>. HIDE DEF r
<1>3. KindInv(c)'
  BY <1>2 DEF ViewInv, KindInv, After
<1>4. FollowInv(c)'
  BY <1>2, SameViews DEF ViewInv, FollowInv, WindowFits, KeysFit, Unbound, After
<1>5. UNCHANGED <<menu, disturbed, level>>
  OBVIOUS
<1>. QED  BY <1>1, <1>2, <1>3, <1>4, <1>5, Stays DEF ViewInv

\* What an update of one setting does to the others.
LEMMA UpdatedElsewhere ==
  ASSUME UpdateInv, NEW c \in Callers, call[c].pc \in {"lock", "write"}
  PROVE  LET new == Updated(config, c)
         IN /\ call[c].what = "notify" =>
                 /\ \A f \in Fields \ {"notify"} : Menu(new)[f] = Menu(config)[f]
                 /\ \A before : Window(new, before) = Window(config, before)
            /\ call[c].what \notin {"mode", "hotkey", "all"} => Binding(new) = Binding(config)
            /\ call[c].what \in RadioItems => new[call[c].what] = call[c].value
<1>1. config \in Config /\ call[c] \in Calls
  BY DEF UpdateInv, CoreTypeOK
<1>2. CASE call[c].what = "notify"
  <2>1. Updated(config, c) = [config EXCEPT !.notify = IF @ = "on" THEN "off" ELSE "on"]
    BY <1>2 DEF Updated
  <2>2. \A f \in {"language", "output", "recorder", "mode", "hotkey"} : Updated(config, c)[f] = config[f]
    BY <1>1, <2>1 DEF Config
  <2>. HIDE <2>1
  <2>. QED  BY <1>2, <2>2 DEF Menu, Window, Binding, RadioItems, Fields, Combo, LanguageMark,
              OutputMark, RecorderMark, ModeMark, HotkeyLabel
<1>3. CASE call[c].what = "all"
  BY <1>3 DEF RadioItems
<1>4. CASE call[c].what \in Fields \ {"notify"}
  <2>1. Updated(config, c) = [config EXCEPT ![call[c].what] = call[c].value]
    BY <1>4 DEF Updated, Fields
  <2>. QED  BY <1>1, <1>4, <2>1 DEF Binding, ModeMark, RadioItems, Fields, Config
<1>. QED  BY <1>2, <1>3, <1>4 DEF UpdateInv, ChoiceInv

\* The update is published: what shows or uses the setting is behind.
LEMMA PublishViews ==
  ASSUME UpdateInv, ViewInv, NEW c \in Callers, Publish(c)
  PROVE  ViewInv'
<1>. USE DEF Publish, At
<1>. DEFINE r == [call[c] EXCEPT !.pc = Following(call[c].what), !.was = Default]
<1>1. c \in Working /\ call[c] \in Calls
  BY DEF Working, UpdateInv, CoreTypeOK
<1>2. /\ call' = [call EXCEPT ![c] = r] /\ call'[c] = r
      /\ r.pc = Following(call[c].what) /\ r.via = call[c].via /\ r.what = call[c].what
      /\ r.value = call[c].value
  BY <1>1 DEF UpdateInv, CoreTypeOK, Calls
<1>. HIDE DEF r
<1>3. config' = Updated(config, c)
  BY DEF UpdateInv, MutexInv
<1>4. KindInv(c) /\ FollowInv(c)
  BY DEF ViewInv
<1>5. r.what \in {"all", "notify"} \cup RadioItems \cup {"hotkey"}
  BY <1>2 DEF UpdateInv, ChoiceInv, Fields, RadioItems
<1>6. r.pc \in {"reload", "mark", "refresh"}
  BY <1>2 DEF Following
<1>7. r.value \in Choices("hotkey") \/ r.what # "hotkey"
  BY <1>2 DEF UpdateInv, ChoiceInv, Fields
<1>8. r.what = "all" => r.via # "tray"
  BY <1>2, <1>4 DEF KindInv
<1>9. KindInv(c)'
  BY <1>2, <1>4, <1>5, <1>6, <1>8 DEF KindInv, Following, After, RadioItems
<1>10. FollowInv(c)'
  <2>. SUFFICES ASSUME ~disturbed PROVE FollowInv(c)'
    BY DEF FollowInv
  <2>1. CASE r.what = "notify"
    <3>1. r.pc = "mark" /\ r.via = "tray"
      BY <1>2, <1>4, <2>1 DEF Following, KindInv
    <3>2. "views" \in level => MenuFits /\ WindowFits
      BY <1>2, <1>4, <3>1 DEF FollowInv
    <3>4. /\ \A f \in Fields \ {"notify"} : Menu(config')[f] = Menu(config)[f]
          /\ \A before : Window(config', before) = Window(config, before)
      <4>1. c \in Callers /\ call[c].pc = "write" /\ call[c].what = "notify"
        BY <1>2, <2>1
      <4>2. LET new == Updated(config, c)
            IN /\ \A f \in Fields \ {"notify"} : Menu(new)[f] = Menu(config)[f]
               /\ \A before : Window(new, before) = Window(config, before)
        BY <4>1, UpdatedElsewhere
      <4>. QED  BY <1>3, <4>2
    <3>5. "views" \in level => MenuFits' /\ WindowFits'
      BY <3>2, <3>4 DEF MenuFits, WindowFits
    <3>3. "keys" \in level => KeysFit'
      BY <1>2, <1>3, <1>4, <2>1, UpdatedElsewhere DEF FollowInv, KeysFit
    <3>. QED  BY <1>2, <3>1, <3>5, <3>3 DEF FollowInv, After
  <2>2. CASE r.what # "notify"
    <3>1. r.pc \in {"reload", "refresh"} /\ (r.what = "mode" <=> r.pc = "reload")
      BY <1>2, <2>2 DEF Following
    <3>2. r.what \in RadioItems => config'[r.what] = r.value
      BY <1>2, <1>3, UpdatedElsewhere
    <3>3. "keys" \in level /\ r.what \notin {"mode", "hotkey", "all"} => KeysFit'
      BY <1>2, <1>3, <1>4, UpdatedElsewhere DEF FollowInv, KeysFit
    <3>4. r.what \in {"hotkey", "all"} => r.value # "reloaded"
      BY <1>2, <1>4, <1>7 DEF KindInv, Choices, Default, Alternative
    <3>. QED  BY <1>2, <3>1, <3>2, <3>3, <3>4 DEF FollowInv, Unbound, After
  <2>. QED  BY <2>1, <2>2
<1>11. UNCHANGED <<menu, disturbed, level>>
  OBVIOUS
<1>. QED  BY <1>1, <1>2, <1>6, <1>9, <1>10, <1>11, Stays DEF ViewInv

\* The mark of a radio item is the setting's value.
LEMMA MarkIsChoice ==
  ASSUME NEW cfg \in Config, NEW f \in RadioItems, cfg[f] \in Choices(f)
  PROVE  Menu(cfg)[f] = cfg[f]
<1>1. CASE f = "language"
  BY <1>1 DEF Menu, LanguageMark
<1>2. CASE f = "output"
  BY <1>2 DEF Menu, OutputMark, Choices, Default, Alternative
<1>3. CASE f = "recorder"
  BY <1>3 DEF Menu, RecorderMark, Choices, Default, Alternative
<1>4. CASE f = "mode"
  BY <1>4 DEF Menu, ModeMark, Choices, Default, Alternative
<1>. QED  BY <1>1, <1>2, <1>3, <1>4 DEF RadioItems

\* The marks that come last say what is configured, if the call was alone.
LEMMA MarkViews ==
  ASSUME UpdateInv, ViewInv, NEW c \in Callers, MarkItem(c) \/ MarkNotify(c)
  PROVE  ViewInv'
<1>. USE DEF MarkItem, MarkNotify, Return, At
<1>1. c \in Working /\ level' = level /\ call[c].via = "tray" /\ config \in Config
  BY DEF Working, ViewInv, KindInv, UpdateInv, CoreTypeOK
<1>2. ASSUME ~disturbed
      PROVE  /\ "views" \in level' => MenuFits' /\ WindowFits'
             /\ "keys" \in level' => KeysFit'
  <2>1. /\ "views" \in level => MenuFits /\ WindowFits
        /\ "keys" \in level => KeysFit
    BY <1>1, <1>2 DEF ViewInv, FollowInv
  <2>2. UNCHANGED <<config, ready, trayConfig, window, bound>>
    OBVIOUS
  <2>3. CASE MarkNotify(c)
    <3>1. \A f \in Fields \ {"notify"} : menu'[f] = menu[f]
      BY <2>3 DEF ViewInv
    <3>. QED  BY <1>1, <2>1, <2>2, <3>1 DEF MenuFits, WindowFits, KeysFit
  <2>4. CASE MarkItem(c)
    <3>1. /\ call[c].what \in RadioItems /\ call[c].value \in Choices(call[c].what)
          /\ config[call[c].what] = call[c].value
      BY <1>1, <1>2, <2>4 DEF ViewInv, KindInv, FollowInv, After
    <3>2. Menu(config)[call[c].what] = call[c].value
      BY <1>1, <3>1, MarkIsChoice
    <3>3. \A f \in Fields : menu'[f] = IF f = call[c].what THEN call[c].value ELSE menu[f]
      BY <2>4 DEF ViewInv
    <3>. QED  BY <1>1, <2>1, <2>2, <3>2, <3>3 DEF MenuFits, WindowFits, KeysFit
  <2>. QED  BY <2>3, <2>4
<1>3. DOMAIN menu' = Fields
  BY DEF ViewInv
<1>. QED  BY <1>1, <1>2, <1>3, Ends DEF ViewInv, OverlapInv

\* SetOutputMethod refuses: the views stay behind, and are told apart.
LEMMA ApplyFailsViews ==
  ASSUME UpdateInv, ViewInv, NEW c \in Callers, ApplyFails(c)
  PROVE  ViewInv'
<1>. USE DEF ApplyFails, Return, At
<1>1. c \in Working /\ level' = level \ {"views"}
  BY DEF Working
<1>2. ~disturbed /\ "keys" \in level' => KeysFit'
  BY DEF ViewInv, FollowInv, Unbound, KeysFit
<1>. QED  BY <1>1, <1>2, Ends DEF ViewInv, OverlapInv

\* A call takes the configuration of the moment, to show it or to bind it.
LEMMA ReadViews ==
  ASSUME UpdateInv, ViewInv, NEW c \in Callers, Refresh(c) \/ Reload(c)
  PROVE  ViewInv'
<1>. USE DEF Refresh, Reload, At
<1>. DEFINE r == [call[c] EXCEPT !.pc = IF Refresh(c) THEN "show" ELSE "bind", !.was = config]
<1>1. c \in Working /\ call[c] \in Calls
  BY DEF Working, UpdateInv, CoreTypeOK
<1>2. /\ call' = [call EXCEPT ![c] = r] /\ call'[c] = r
      /\ r.pc = (IF call[c].pc = "refresh" THEN "show" ELSE "bind") /\ r.was = config
      /\ r.via = call[c].via /\ r.what = call[c].what /\ r.value = call[c].value
  BY <1>1 DEF UpdateInv, CoreTypeOK, Calls
<1>. HIDE DEF r
<1>3. KindInv(c) /\ FollowInv(c) /\ call[c].pc \in {"refresh", "reload"}
  BY DEF ViewInv
<1>4. KindInv(c)'
  BY <1>2, <1>3 DEF KindInv, After
<1>5. UNCHANGED <<config, ready, trayConfig, menu, window, bound, disturbed, level>>
  OBVIOUS
<1>6. FollowInv(c)'
  BY <1>2, <1>3, <1>5 DEF FollowInv, KeysFit, Unbound, After
<1>. QED  BY <1>1, <1>2, <1>4, <1>5, <1>6, Stays DEF ViewInv

\* Tray and window show what the call has read.
LEMMA ShowViews ==
  ASSUME UpdateInv, ViewInv, NEW c \in Callers, Show(c)
  PROVE  ViewInv'
<1>. USE DEF Show, At
<1>1. c \in Working /\ call[c] \in Calls /\ KindInv(c) /\ FollowInv(c)
  BY DEF Working, UpdateInv, CoreTypeOK, ViewInv
<1>2. /\ DOMAIN menu' = Fields /\ level' = IF disturbed THEN level ELSE level \cup {"views"}
      /\ level' \subseteq Followers
  BY DEF ViewInv, Menu, Fields, Followers
<1>3. ~disturbed => MenuFits' /\ WindowFits'
  <2>1. ~disturbed => call[c].was = config
    BY <1>1 DEF FollowInv
  <2>2. window' = Window(call[c].was, window')
    BY ShownAgain
  <2>. QED  BY <2>1, <2>2 DEF MenuFits, WindowFits
<1>4. ~disturbed /\ "keys" \in level => KeysFit' \/ ToReload(c)
  BY <1>1 DEF FollowInv, Unbound, ToReload, KeysFit
<1>5. CASE ToReload(c) \/ ToMark(c)
  <2>. DEFINE r == [call[c] EXCEPT !.pc = IF ToReload(c) THEN "reload" ELSE "again", !.was = Default]
  <2>1. /\ call' = [call EXCEPT ![c] = r] /\ call'[c] = r /\ disturbed' = disturbed
        /\ r.pc = IF ToReload(c) THEN "reload" ELSE "again"
        /\ r.via = call[c].via /\ r.what = call[c].what /\ r.value = call[c].value
    BY <1>1, <1>5 DEF UpdateInv, CoreTypeOK, Calls
  <2>. HIDE DEF r
  <2>2. KindInv(c)'
    BY <1>1, <1>5, <2>1 DEF KindInv, After, ToReload, ToMark
  <2>3. FollowInv(c)'
    BY <1>1, <1>2, <1>3, <1>4, <2>1 DEF FollowInv, After, Unbound
  <2>. QED  BY <1>1, <1>2, <2>1, <2>2, <2>3, Stays
<1>6. CASE ~(ToReload(c) \/ ToMark(c))
  BY <1>1, <1>2, <1>3, <1>4, <1>6, Ends DEF ViewInv, OverlapInv
<1>. QED  BY <1>5, <1>6

\* The provider is bound to what the call has read.
LEMMA BindViews ==
  ASSUME UpdateInv, ViewInv, NEW c \in Callers, Bind(c) \/ BindFails(c)
  PROVE  ViewInv'
<1>. USE DEF Bind, BindFails, At
<1>1. c \in Working /\ call[c] \in Calls /\ KindInv(c) /\ FollowInv(c)
  BY DEF Working, UpdateInv, CoreTypeOK, ViewInv
<1>. DEFINE w == IF call[c].what = "mode" THEN call[c].value ELSE "reloaded"
<1>2. PICK r : /\ call' = [call EXCEPT ![c] = r] /\ r.pc = "refresh" /\ r.via = call[c].via
               /\ r.what = call[c].what /\ r.value = w
  <2>1. CASE Bind(c)
    <3>. DEFINE s == [call[c] EXCEPT !.pc = "refresh", !.was = Default, !.value = w]
    <3>1. call' = [call EXCEPT ![c] = s]
      BY <2>1
    <3>2. s.pc = "refresh" /\ s.via = call[c].via /\ s.what = call[c].what /\ s.value = w
      BY <1>1 DEF Calls
    <3>. QED  BY <3>1, <3>2
  <2>2. CASE BindFails(c)
    <3>. DEFINE s == [call[c] EXCEPT !.pc = "refresh", !.was = Default, !.failed = TRUE, !.value = w]
    <3>1. call' = [call EXCEPT ![c] = s]
      BY <2>2
    <3>2. s.pc = "refresh" /\ s.via = call[c].via /\ s.what = call[c].what /\ s.value = w
      BY <1>1 DEF Calls
    <3>. QED  BY <3>1, <3>2
  <2>. QED  BY <2>1, <2>2
<1>3. call'[c] = r
  BY <1>1, <1>2 DEF Working, UpdateInv, CoreTypeOK
<1>4. /\ level' = (IF disturbed THEN level ELSE level \cup {"keys"}) /\ level' \subseteq Followers
      /\ UNCHANGED <<config, menu, disturbed>> /\ bound' = Binding(call[c].was)
  BY DEF ViewInv, Followers
<1>5. ~disturbed => KeysFit'
  BY <1>1, <1>4 DEF FollowInv, KeysFit
<1>6. KindInv(c)'
  BY <1>1, <1>2, <1>3 DEF KindInv, After, RadioItems
<1>7. FollowInv(c)'
  BY <1>1, <1>2, <1>3, <1>4, <1>5 DEF FollowInv, KindInv, After, RadioItems
<1>. QED  BY <1>1, <1>2, <1>3, <1>4, <1>6, <1>7, Stays DEF ViewInv

\* A call that creates the file touches none of this.
LEMMA CreateViews ==
  ASSUME UpdateInv, ViewInv, NEW c \in Callers, ShowConfigFile(c) \/ CreateConfigFile(c)
  PROVE  ViewInv'
<1>. USE DEF ShowConfigFile, CreateConfigFile, At
<1>1. /\ call[c].pc \in {"idle", "create"} /\ call'[c].pc \in {"idle", "create"}
      /\ UNCHANGED <<config, ready, trayConfig, menu, window, bound, disturbed, level>>
      /\ \A d \in Callers \ {c} : call'[d] = call[d]
  <2>1. Resting.pc = "idle" /\ [Resting EXCEPT !.pc = "create", !.via = "hotkey", !.was = config].pc = "create"
    BY DEF Resting
  <2>2. CASE ShowConfigFile(c)
    BY <2>1, <2>2 DEF UpdateInv, CoreTypeOK
  <2>3. CASE CreateConfigFile(c)
    BY <2>1, <2>3 DEF UpdateInv, CoreTypeOK
  <2>. QED  BY <2>2, <2>3
<1>2. Working' = Working /\ c \notin Working
  BY <1>1 DEF Working
<1>3. OverlapInv' /\ RestInv'
  BY <1>1, <1>2 DEF ViewInv, OverlapInv, RestInv, MenuFits, WindowFits, KeysFit
<1>4. ASSUME NEW d \in Callers PROVE KindInv(d)' /\ FollowInv(d)'
  <2>1. CASE d = c
    BY <1>1, <2>1 DEF KindInv, FollowInv, After
  <2>2. CASE d # c
    BY <1>1, <2>2 DEF ViewInv, KindInv, FollowInv, MenuFits, WindowFits, KeysFit, Unbound
  <2>. QED  BY <2>1, <2>2
<1>. QED  BY <1>1, <1>3, <1>4 DEF ViewInv

\* A start shows and binds what it has loaded; the tray shows what it has.
LEMMA ProcessViews ==
  ASSUME UpdateInv, ViewInv, Edit \/ Crash \/ OnReady \/ \E c \in Callers : Start(c)
  PROVE  ViewInv'
<1>1. \A cfg : DOMAIN Menu(cfg) = Fields
  BY DEF Menu, Fields
<1>2. CASE Crash
  <2>1. /\ Working' = {} /\ disturbed' = FALSE /\ level' = Followers
        /\ \A d \in Callers : call'[d].pc = "idle"
    BY <1>2 DEF Crash, Working, Resting
  <2>2. MenuFits' /\ WindowFits' /\ KeysFit'
    BY <1>2, ShownAgain DEF Crash, MenuFits, WindowFits, KeysFit
  <2>. QED  BY <1>1, <1>2, <2>1, <2>2 DEF Crash, ViewInv, OverlapInv, RestInv, KindInv, FollowInv, After
<1>3. ASSUME NEW c \in Callers, Start(c)
      PROVE  ViewInv'
  <2>1. \A d \in Callers : call[d].pc = "idle"
    BY <1>3 DEF Start, UpdateInv, DownInv, At
  <2>2. /\ \A d \in Callers \ {c} : call'[d].pc = "idle"
        /\ call'[c].pc = "refresh" /\ call'[c].via = "start" /\ call'[c].what = "none"
    BY <1>3, <2>1 DEF Start, Resting, UpdateInv, CoreTypeOK
  <2>3. MenuFits' /\ WindowFits' /\ KeysFit'
    <3>1. window' = Window(config', window')
      BY <1>3, ShownAgain DEF Start
    <3>. QED  BY <1>3, <3>1 DEF Start, MenuFits, WindowFits, KeysFit
  <2>4. Working' = {c} /\ UNCHANGED <<disturbed, level>> /\ DOMAIN menu' = Fields
    BY <1>1, <1>3, <2>2 DEF Start, Working
  <2>5. OverlapInv' /\ RestInv'
    BY <2>4 DEF ViewInv, OverlapInv, RestInv
  <2>6. ASSUME NEW d \in Callers PROVE KindInv(d)' /\ FollowInv(d)'
    BY <2>2, <2>3 DEF KindInv, FollowInv, After
  <2>. QED  BY <2>4, <2>5, <2>6 DEF ViewInv
<1>4. CASE Edit \/ OnReady
  <2>1. /\ UNCHANGED <<config, trayConfig, window, bound, call, disturbed, level>>
        /\ DOMAIN menu' = Fields /\ ((menu' = menu /\ ready' = ready) \/ menu' = Menu(trayConfig))
    BY <1>1, <1>4 DEF Edit, OnReady, ViewInv
  <2>2. (MenuFits => MenuFits') /\ WindowFits' = WindowFits /\ KeysFit' = KeysFit /\ Working' = Working
    BY <2>1 DEF MenuFits, WindowFits, KeysFit, Working
  <2>. QED  BY <2>1, <2>2 DEF ViewInv, OverlapInv, RestInv, KindInv, FollowInv, Unbound
<1>. QED  BY <1>2, <1>3, <1>4

\* So every step keeps who is up to date.
LEMMA ViewInvHolds == Spec => []ViewInv
<1>1. Init => ViewInv
  <2>. SUFFICES ASSUME Init PROVE ViewInv
    OBVIOUS
  <2>1. \A c \in Callers : call[c].pc = "idle"
    BY DEF Init, Resting
  <2>2. DOMAIN menu = Fields
    BY DEF Init, Menu, Fields
  <2>3. MenuFits /\ WindowFits /\ KeysFit
    BY ShownAgain DEF Init, MenuFits, WindowFits, KeysFit
  <2>4. \A c \in Callers : KindInv(c) /\ FollowInv(c)
    BY <2>1 DEF KindInv, FollowInv, After
  <2>. QED  BY <2>1, <2>2, <2>3, <2>4 DEF Init, ViewInv, OverlapInv, RestInv, Working
<1>2. UpdateInv /\ ViewInv /\ [Next]_vars => ViewInv'
  <2>1. ASSUME ViewInv, UNCHANGED vars
        PROVE  ViewInv'
    BY <2>1 DEF ViewInv, OverlapInv, RestInv, Working, KindInv, FollowInv, MenuFits, WindowFits,
                KeysFit, Unbound
  <2>. QED  BY <2>1, ClickViews, FailViews, LockViews, PublishViews, MarkViews, ApplyFailsViews, ReadViews,
               ShowViews, BindViews, CreateViews, ProcessViews DEF Next, Caller
<1>. QED  BY <1>1, <1>2, UpdateInvHolds, PTL DEF Spec

\* At rest the tray, the window and the hotkey provider agree with the
\* configuration, unless calls overlapped, or one failed half way, and no
\* other has brought them up to date since (actions.go: updateUISettings,
\* reloadHotkeys).
THEOREM ViewsKeepUp == Spec => []ViewsAgree
<1>1. ViewInv => ViewsAgree
  BY DEF ViewInv, RestInv, ViewsAgree, MenuFits, WindowFits, KeysFit, Working, InFlight, At
<1>. QED  BY <1>1, ViewInvHolds, PTL

\* Whatever the file says and however calls overlap, what memory, file, tray
\* and window hold is a configuration, or shows one (LoadConfig, ValidateConfig).
THEOREM SettingsTypes == Spec => []TypeOK
<1>. DEFINE Shown == ready \in BOOLEAN /\ trayConfig \in Config /\ DOMAIN window = Combo
<1>1. \A cfg, before : DOMAIN Window(cfg, before) = Combo
  BY DEF Window
<1>2. Init => Shown
  BY <1>1, ConfigFacts DEF Init
<1>3. UpdateInv /\ Shown /\ [Next]_vars => Shown'
  <2>. SUFFICES ASSUME UpdateInv, Shown, [Next]_vars PROVE Shown'
    OBVIOUS
  <2>1. CASE UNCHANGED <<ready, trayConfig, window>>
    BY <2>1
  <2>2. ASSUME NEW c \in Callers, NEW f, NEW v, ChangeCombo(c, f, v)
        PROVE  Shown'
    BY <2>2 DEF ChangeCombo
  <2>3. ASSUME NEW c \in Callers, Show(c)
        PROVE  Shown'
    <3>1. call[c].was \in Config
      BY DEF UpdateInv, CoreTypeOK, Calls
    <3>. QED  BY <1>1, <2>3, <3>1 DEF Show
  <2>4. ASSUME NEW c \in Callers, Start(c)
        PROVE  Shown'
    <3>1. config' \in Config
      BY <2>4, LoadType DEF Start, UpdateInv, CoreTypeOK, Config, Choices, Default, Alternative
    <3>. QED  BY <1>1, <2>4, <3>1 DEF Start
  <2>5. CASE Crash \/ OnReady
    BY <1>1, <2>5, ConfigFacts DEF Crash, OnReady
  <2>6. CASE Edit \/ UNCHANGED vars
    BY <2>1, <2>6 DEF Edit
  <2>7. ASSUME NEW c \in Callers, Caller(c)
        PROVE  Shown'
    <3>1. CASE \E f \in Clickable : \E v \in Choices(f) : ChangeCombo(c, f, v)
      BY <2>2, <3>1
    <3>2. CASE Show(c)
      BY <2>3, <3>2
    <3>3. CASE \/ \E f \in Clickable : \E v \in Choices(f) : ClickRadio(c, f, v)
               \/ ClickNotify(c) \/ (\E v \in Choices("hotkey") : Rebind(c, v)) \/ Reset(c)
               \/ ShowConfigFile(c) \/ CreateConfigFile(c)
      BY <2>1, <3>3 DEF ClickRadio, ClickNotify, Rebind, Reset, ShowConfigFile, CreateConfigFile
    <3>4. CASE \/ Lock(c) \/ Refused(c) \/ Publish(c) \/ WriteFails(c) \/ ApplyFails(c)
               \/ Refresh(c) \/ Reload(c)
      BY <2>1, <3>4 DEF Lock, Refused, Publish, WriteFails, ApplyFails, Refresh, Reload
    <3>5. CASE Bind(c) \/ BindFails(c) \/ MarkItem(c) \/ MarkNotify(c)
      BY <2>1, <3>5 DEF Bind, BindFails, MarkItem, MarkNotify
    <3>. QED  BY <2>7, <3>1, <3>2, <3>3, <3>4, <3>5 DEF Caller
  <2>. QED  BY <2>4, <2>5, <2>6, <2>7 DEF Next
<1>4. UpdateInv /\ ViewInv /\ Shown => TypeOK
  BY DEF UpdateInv, CoreTypeOK, ViewInv, Calls, TypeOK
<1>. QED  BY <1>2, <1>3, <1>4, UpdateInvHolds, ViewInvHolds, PTL DEF Spec
=============================================================================
