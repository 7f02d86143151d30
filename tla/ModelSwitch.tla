----------------------------- MODULE ModelSwitch -----------------------------
(***************************************************************************)
(* Switching the speech model from tray, window and command line           *)
(* (ServiceContainer.SwitchModel and AudioService.SwitchModel), with the   *)
(* tray's cancellable click, a save that fails and the rollback, starts of *)
(* recordings and deletions beside it, resets of the configuration and     *)
(* other refreshes of the tray, and crashes.  AudioService.tla has the     *)
(* engine's readers and their lock.                                        *)
(***************************************************************************)
EXTENDS ModelFiles

CONSTANTS
  DefaultModel,
  Clicked, \* the models that are clicked in the tray's menu, a bound
  Typed,   \* the models that window and command line switch to, a bound
  Beside   \* what else callers do, a bound

ASSUME DefaultIsModel == DefaultModel \in Models
ASSUME ChosenAreModels == Clicked \cup Typed \subseteq Models
ASSUME BesideAreRoles == Beside \subseteq {"record", "delete", "reset", "other"}

VARIABLES
  up,           \* the daemon has started
  config,       \* General.Model, in memory and on disk
  engine,       \* AudioService.engine
  recording,    \* AudioService.isRecording
  mu,           \* who holds AudioService.mu over several steps
  call,         \* where each caller is
  downloading,  \* downloadingModelID
  owner,        \* whose context modelDownloadCancel cancels
  trayConfig,   \* TrayManager.config
  titles,       \* marks of the model menu
  alone,        \* history: the switch that has had the place for itself
  settled,      \* history: such a switch, or a start, came last
  disturbed,    \* history: those who bring a model to the menu have overlapped
  crossed       \* history: no refresh of the menu has been undisturbed since

tray == <<downloading, owner, trayConfig, titles>>
history == <<alone, settled>>
overlap == <<disturbed, crossed>>
vars == <<files, up, config, engine, recording, mu, call, tray, history, overlap>>

CONSTANT NoModel

ASSUME NoModelIsNone == NoModel \notin Models

Resolving == {"resolve", "request", "copy", "stat", "rename", "validate", "drop"}
Updating == {"refresh", "show", "fill"}
Switching == {"check", "swap", "load", "save", "finish"} \cup Resolving \cup Updating
PCs == Switching \cup {"idle", "restore", "restoring", "cross", "unpaint", "unpainting",
                       "begin", "mark", "marking", "remove"}

\* role: what the goroutine runs, where tray and direct are switches, undo is a
\* click that cancels one, and other refreshes the tray after some update; model:
\* the one to resolve; want: the one chosen; was: what a step has read before;
\* sound: its new engine comes from a file with nothing wrong in it.
Roles == {"none", "tray", "direct", "undo", "record", "delete", "reset", "other", "main"}
Resting ==
  [role |-> "none", pc |-> "idle", model |-> NoModel, want |-> NoModel, was |-> NoModel,
   sound |-> TRUE, rolling |-> FALSE, cancelled |-> FALSE, ok |-> FALSE]

Radio(m) == [n \in Models |-> IF n = m THEN "on" ELSE "off"]

TypeOK ==
  /\ FilesTypeOK
  /\ up \in BOOLEAN /\ recording \in BOOLEAN
  /\ config \in Models /\ trayConfig \in Models
  /\ engine \in [model : Models, sound : BOOLEAN]
  /\ mu \in Callers \cup {NoOne}
  /\ call \in [Callers ->
       [role : Roles, pc : PCs, model : Models \cup {NoModel}, want : Models \cup {NoModel},
        was : Models \cup {NoModel}, sound : BOOLEAN,
        rolling : BOOLEAN, cancelled : BOOLEAN, ok : BOOLEAN]]
  /\ downloading \in Models \cup {NoModel}
  /\ owner \in Callers \cup {NoOne}
  /\ titles \in [Models -> {"on", "off", "cross"}]
  /\ alone \in Callers \cup {NoOne} /\ settled \in BOOLEAN
  /\ disturbed \in BOOLEAN /\ crossed \in BOOLEAN

Init ==
  /\ FilesInit
  /\ up = FALSE /\ recording = FALSE /\ mu = NoOne
  /\ config = DefaultModel /\ trayConfig = DefaultModel
  /\ engine = [model |-> DefaultModel, sound |-> TRUE]
  /\ call = [c \in Callers |-> Resting]
  /\ downloading = NoModel /\ owner = NoOne /\ titles = Radio(DefaultModel)
  /\ alone = NoOne /\ settled = TRUE /\ disturbed = FALSE /\ crossed = FALSE

-----------------------------------------------------------------------------
\* Program counters.

At(c, here) == call[c].pc = here
Is(c, role) == call[c].role = role
Switcher(c) == Is(c, "tray") \/ Is(c, "direct")
Enter(c, role, there) == [call EXCEPT ![c].role = role, ![c].pc = there]
Goto(c, there) == call' = [call EXCEPT ![c].pc = there]
Rest(c) == call' = [call EXCEPT ![c] = Resting]

\* A switch has its result, and forgets what it worked with.
End(c, result) ==
  call' = [call EXCEPT ![c] =
    [@ EXCEPT !.pc = "finish", !.ok = result, !.model = NoModel, !.was = NoModel, !.sound = TRUE]]

InFlight == {c \in Callers : Switcher(c)}
OtherDownloads(c) ==
  {d \in Callers \ {c} : /\ call[d].model = call[c].model
                         /\ call[d].pc \in {"copy", "stat", "rename", "drop"}}

\* The error returns of whoever resolves a model.
Fail(c) ==
  IF Switcher(c) THEN End(c, FALSE) /\ UNCHANGED mu
  ELSE Rest(c) /\ mu' = IF mu = c THEN NoOne ELSE mu

\* A switch begins, when it is chosen, and has returned.
Begins(c) ==
  IF InFlight = {} THEN alone' = c /\ UNCHANGED settled ELSE alone' = NoOne /\ settled' = FALSE

Returned(c) ==
  /\ alone' = IF alone = c THEN NoOne ELSE alone
  /\ settled' = IF alone = c /\ call[c].ok THEN TRUE
                ELSE settled /\ ~(call[c].rolling /\ engine.model # config)

-----------------------------------------------------------------------------
\* Who has read, or changed, what the menu is to show, and has yet to paint it.
Holding(c) ==
  \/ call[c].pc \in {"restoring", "unpainting", "marking", "show", "fill"}
  \/ At(c, "refresh") /\ ~Is(c, "other")
  \/ Is(c, "tray") /\ call[c].pc \in {"finish", "mark"} /\ call[c].ok /\ ~call[c].cancelled

Holders == {c \in Callers : Holding(c)}

\* One more becomes a holder.
Claims ==
  /\ disturbed' = (Holders # {})
  /\ crossed' = (crossed \/ Holders # {})

-----------------------------------------------------------------------------
\* The tray: handleModelClick, one goroutine per menu item.

Clicking == {"restore", "restoring", "cross", "unpaint", "unpainting"}
ItemIsFree(m) == \A c \in Callers : call[c].want = m => call[c].pc \notin Clicking

CancelOwner(calls) == [c \in Callers |-> IF c = owner THEN [calls[c] EXCEPT !.cancelled = TRUE] ELSE calls[c]]

ClickAgain(c, m) ==
  /\ At(c, "idle") /\ up /\ ItemIsFree(m)
  /\ downloading = m /\ owner # NoOne
  /\ call' = [CancelOwner(Enter(c, "undo", "unpaint")) EXCEPT ![c].want = m]
  /\ downloading' = NoModel /\ owner' = NoOne
  /\ UNCHANGED <<files, up, config, engine, recording, mu, trayConfig, titles, history, overlap>>

\* The marks are restored first, if another model was downloading.
Click(c, m) ==
  /\ At(c, "idle") /\ up /\ ItemIsFree(m)
  /\ ~(downloading = m /\ owner # NoOne)
  /\ LET next == IF downloading \in {NoModel, m} THEN "cross" ELSE "restore"
     IN call' = [CancelOwner(Enter(c, "tray", next)) EXCEPT ![c].want = m]
  /\ downloading' = m /\ owner' = c /\ Begins(c)
  /\ UNCHANGED <<files, up, config, engine, recording, mu, trayConfig, titles, overlap>>

\* A goroutine looks up the model in the tray's config, to paint it next.
LookUp(c, there) ==
  /\ call' = [call EXCEPT ![c].pc = there, ![c].was = trayConfig] /\ Claims
  /\ UNCHANGED <<files, up, config, engine, recording, mu, tray, history>>

Restore(c) == At(c, "restore") /\ LookUp(c, "restoring")
Unpaint(c) == At(c, "unpaint") /\ LookUp(c, "unpainting")
MarkOld(c) == At(c, "mark") /\ ~call[c].ok /\ LookUp(c, "marking")

\* updateModelRadioUI with the model looked up.
Repaint(c) ==
  /\ call[c].pc \in {"restoring", "unpainting", "marking"}
  /\ titles' = Radio(call[c].was)
  /\ IF At(c, "restoring")
     THEN call' = [call EXCEPT ![c].pc = "cross", ![c].was = NoModel]
     ELSE Rest(c)
  /\ UNCHANGED <<files, up, config, engine, recording, mu, downloading, owner, trayConfig, history, overlap>>

\* setModelDownloadingUI, which comes too late for a click already cancelled.
Cross(c) ==
  /\ At(c, "cross")
  /\ titles' = [titles EXCEPT ![call[c].want] = "cross"] /\ Goto(c, "begin")
  /\ crossed' = (crossed \/ call[c].cancelled)
  /\ UNCHANGED <<files, up, config, engine, recording, mu, downloading, owner, trayConfig, history, disturbed>>

\* Mutant: the click's context stays the one to cancel.
FinishClickOnly(c) ==
  /\ Is(c, "tray") /\ At(c, "finish") /\ Returned(c)
  /\ IF call[c].cancelled THEN Rest(c) ELSE Goto(c, "mark")
  /\ UNCHANGED <<files, up, config, engine, recording, mu, tray, overlap>>

\* After onSelectModel has returned.
FinishClick(c) ==
  /\ Is(c, "tray") /\ At(c, "finish") /\ Returned(c)
  /\ IF call[c].cancelled THEN Rest(c) /\ UNCHANGED <<downloading, owner>>
     ELSE /\ Goto(c, "mark")
          /\ IF downloading = call[c].want
             THEN downloading' = NoModel /\ owner' = NoOne
             ELSE UNCHANGED <<downloading, owner>>
  /\ UNCHANGED <<files, up, config, engine, recording, mu, trayConfig, titles, overlap>>

\* Mutant: the model is marked even if the switch has failed.
MarkChoiceAnyway(c) ==
  /\ At(c, "mark")
  /\ titles' = Radio(call[c].want) /\ Rest(c)
  /\ UNCHANGED <<files, up, config, engine, recording, mu, downloading, owner, trayConfig, history, overlap>>

MarkChoice(c) ==
  /\ At(c, "mark") /\ call[c].ok
  /\ titles' = Radio(call[c].want) /\ Rest(c)
  /\ UNCHANGED <<files, up, config, engine, recording, mu, downloading, owner, trayConfig, history, overlap>>

\* Window and CLI only return the error.
FinishCall(c) ==
  /\ Is(c, "direct") /\ At(c, "finish") /\ Returned(c) /\ Rest(c)
  /\ UNCHANGED <<files, up, config, engine, recording, mu, tray, overlap>>

-----------------------------------------------------------------------------
\* ServiceContainer.SwitchModel.

BeginSwitch(c) ==
  /\ At(c, "begin")
  /\ call' = [call EXCEPT ![c].pc = "check", ![c].model = call[c].want, ![c].was = config]
  /\ UNCHANGED <<files, up, config, engine, recording, mu, tray, history, overlap>>

BeginDirect(c, m) ==
  /\ m \in Typed /\ At(c, "idle") /\ up /\ Begins(c)
  /\ call' = [Enter(c, "direct", "check") EXCEPT ![c].model = m, ![c].want = m, ![c].was = config]
  /\ UNCHANGED <<files, up, config, engine, recording, mu, tray, overlap>>

\* AudioService.SwitchModel, up to modelManager.SwitchModel.
Check(c) ==
  /\ At(c, "check") /\ mu = NoOne
  /\ IF recording THEN End(c, FALSE) ELSE Goto(c, "resolve")
  /\ UNCHANGED <<files, up, config, engine, recording, mu, tray, history, overlap>>

\* stt.NewEngine
Load(c) ==
  /\ Switcher(c) /\ At(c, "load") /\ FileOf(call[c].model).there
  /\ call' = [call EXCEPT ![c].pc = "swap", ![c].sound = FileOf(call[c].model).sound]
  /\ UNCHANGED <<files, up, config, engine, recording, mu, tray, history, overlap>>

LoadFails(c) ==
  /\ Switcher(c) /\ At(c, "load") /\ End(c, FALSE)
  /\ UNCHANGED <<files, up, config, engine, recording, mu, tray, history, overlap>>

\* The second look at isRecording, and the swap.
Swap(c) ==
  /\ At(c, "swap") /\ mu = NoOne
  /\ IF recording THEN End(c, FALSE) /\ UNCHANGED engine
     ELSE /\ engine' = [model |-> call[c].model, sound |-> call[c].sound]
          /\ IF call[c].rolling THEN End(c, FALSE) ELSE Goto(c, "save")
  /\ UNCHANGED <<files, up, config, recording, mu, tray, history, overlap>>

\* ConfigService.UpdateModel
Save(c) ==
  /\ At(c, "save")
  /\ config' = call[c].want
  /\ Goto(c, "refresh") /\ Claims
  /\ UNCHANGED <<files, up, engine, recording, mu, tray, history>>

\* Mutant: a failed save is only reported.
SaveFailsForGood(c) ==
  /\ At(c, "save") /\ config # call[c].want /\ End(c, FALSE)
  /\ UNCHANGED <<files, up, config, engine, recording, mu, tray, history, overlap>>

\* The rollback is a switch to the model of before.
SaveFails(c) ==
  /\ At(c, "save") /\ config # call[c].want
  /\ call' = [call EXCEPT ![c].pc = "check", ![c].rolling = TRUE, ![c].model = call[c].was,
                         ![c].was = NoModel]
  /\ UNCHANGED <<files, up, config, engine, recording, mu, tray, history, overlap>>

\* updateUISettings reads the config, and has the tray store it ...
Refresh(c) ==
  /\ At(c, "refresh")
  /\ call' = [call EXCEPT ![c].pc = "show", ![c].was = config]
  /\ IF Is(c, "other") THEN Claims ELSE UNCHANGED overlap
  /\ UNCHANGED <<files, up, config, engine, recording, mu, tray, history>>

Show(c) ==
  /\ At(c, "show")
  /\ trayConfig' = call[c].was /\ Goto(c, "fill")
  /\ UNCHANGED <<files, up, config, engine, recording, mu, downloading, owner, titles, history, overlap>>

\* ... and paint it.  A reset refreshes once more after it reloaded the hotkeys.
Fill(c) ==
  /\ At(c, "fill")
  /\ titles' = Radio(call[c].was)
  /\ \/ Switcher(c) /\ End(c, TRUE)
     \/ Is(c, "reset") /\ call' = [call EXCEPT ![c] = [Resting EXCEPT !.role = "other", !.pc = "refresh"]]
     \/ Is(c, "other") /\ Rest(c)
  /\ crossed' = (crossed /\ disturbed)
  /\ UNCHANGED <<files, up, config, engine, recording, mu, downloading, owner, trayConfig, history, disturbed>>

-----------------------------------------------------------------------------
\* ModelManager.resolveModel, for a switch, a recording, or a start.

Keep == UNCHANGED <<up, config, engine, recording, tray, history, overlap>>

FindModel(c) ==
  /\ At(c, "resolve") /\ MayBeValid(call[c].model) /\ Goto(c, "load")
  /\ UNCHANGED <<files, mu>> /\ Keep

NeedModel(c) ==
  /\ At(c, "resolve") /\ MayBeInvalid(call[c].model) /\ Goto(c, "request")
  /\ UNCHANGED <<files, mu>> /\ Keep

RequestFails(c) == At(c, "request") /\ Goto(c, "drop") /\ UNCHANGED <<files, mu>> /\ Keep

Create(c) ==
  /\ At(c, "request") /\ CreateTmp(c, call[c].model, OtherDownloads(c))
  /\ Goto(c, "copy") /\ UNCHANGED mu /\ Keep

Copied(c) == At(c, "copy") /\ CopyEnds(c, call[c].model) /\ Goto(c, "stat") /\ UNCHANGED mu /\ Keep

NotCopied(c) == At(c, "copy") /\ CopyFails(c, call[c].model) /\ Goto(c, "drop") /\ UNCHANGED mu /\ Keep

Stat(c) ==
  /\ At(c, "stat") /\ Goto(c, IF LongEnough(call[c].model) THEN "rename" ELSE "drop")
  /\ UNCHANGED <<files, mu>> /\ Keep

\* A rename may also fail.
Rename(c) ==
  /\ At(c, "rename") /\ RenameTmp(call[c].model, OtherDownloads(c))
  /\ Goto(c, "validate") /\ UNCHANGED mu /\ Keep

NotRenamed(c) == At(c, "rename") /\ Goto(c, "drop") /\ UNCHANGED <<files, mu>> /\ Keep

Drop(c) ==
  /\ At(c, "drop") /\ RemoveTmp(call[c].model, OtherDownloads(c)) /\ Fail(c) /\ Keep

Valid(c) == At(c, "validate") /\ MayBeValid(call[c].model) /\ Goto(c, "load") /\ UNCHANGED <<files, mu>> /\ Keep

Invalid(c) == At(c, "validate") /\ MayBeInvalid(call[c].model) /\ Fail(c) /\ UNCHANGED files /\ Keep

-----------------------------------------------------------------------------
\* Around it.

\* HandleStartRecording makes sure of the model while it holds mu.
AskToRecord(c) ==
  /\ "record" \in Beside /\ At(c, "idle") /\ up /\ mu = NoOne /\ ~recording
  /\ mu' = c /\ call' = [Enter(c, "record", "resolve") EXCEPT ![c].model = config]
  /\ UNCHANGED files /\ Keep

Record(c) ==
  /\ Is(c, "record") /\ At(c, "load") /\ Rest(c) /\ recording' = TRUE /\ mu' = NoOne
  /\ UNCHANGED <<files, up, config, engine, tray, history, overlap>>

StopRecording ==
  /\ up /\ mu = NoOne /\ recording /\ recording' = FALSE
  /\ UNCHANGED <<files, up, config, engine, mu, call, tray, history, overlap>>

\* DeleteModel under mu: what is configured stays.
AskToDelete(c, m) ==
  /\ "delete" \in Beside /\ At(c, "idle") /\ up /\ mu = NoOne /\ ~recording /\ m # config
  /\ mu' = c /\ call' = [Enter(c, "delete", "remove") EXCEPT ![c].model = m]
  /\ UNCHANGED files /\ Keep

Delete(c) ==
  /\ At(c, "remove") /\ RemoveModel(call[c].model, Callers) /\ Rest(c) /\ mu' = NoOne /\ Keep

\* ResetToDefaults updates the configuration and leaves the engine alone.
Reset(c) ==
  /\ "reset" \in Beside /\ At(c, "idle") /\ up
  /\ config' = DefaultModel /\ call' = Enter(c, "reset", "refresh") /\ Claims
  /\ alone' = NoOne
  /\ settled' = (settled /\ InFlight = {} /\ engine.model = DefaultModel)
  /\ UNCHANGED <<files, up, engine, recording, mu, tray>>

\* Another setting was changed, or the hotkeys were reloaded.
BeginRefresh(c) ==
  /\ "other" \in Beside /\ At(c, "idle") /\ up
  /\ call' = Enter(c, "other", "refresh")
  /\ UNCHANGED <<files, up, config, engine, recording, mu, tray, history, overlap>>

\* What the process remembered is gone; Start sets it anew.
Crash ==
  /\ ForgetWriters
  /\ up' = FALSE /\ recording' = FALSE /\ mu' = NoOne
  /\ call' = [c \in Callers |-> Resting]
  /\ downloading' = NoModel /\ owner' = NoOne /\ alone' = NoOne /\ settled' = TRUE
  /\ disturbed' = FALSE /\ crossed' = FALSE
  /\ engine' = [model |-> config, sound |-> TRUE]
  /\ trayConfig' = config /\ titles' = Radio(config)
  /\ UNCHANGED config

\* NewContainer: the model of the config, its engine, the tray.
Boot(c) ==
  /\ ~up /\ \A d \in Callers : At(d, "idle")
  /\ call' = [Enter(c, "main", "resolve") EXCEPT ![c].model = config]
  /\ UNCHANGED <<files, mu>> /\ Keep

Start(c) ==
  /\ Is(c, "main") /\ At(c, "load") /\ FileOf(call[c].model).there
  /\ engine' = [model |-> call[c].model, sound |-> FileOf(call[c].model).sound]
  /\ up' = TRUE /\ Rest(c)
  /\ trayConfig' = config /\ titles' = Radio(config) /\ settled' = TRUE
  /\ disturbed' = FALSE /\ crossed' = FALSE
  /\ UNCHANGED <<files, config, recording, mu, downloading, owner, alone>>

StartFails(c) == Is(c, "main") /\ At(c, "load") /\ Rest(c) /\ UNCHANGED <<files, mu>> /\ Keep

-----------------------------------------------------------------------------
Resolve(c) ==
  \/ FindModel(c) \/ NeedModel(c) \/ RequestFails(c) \/ Create(c) \/ Copied(c) \/ NotCopied(c)
  \/ Stat(c) \/ Rename(c) \/ NotRenamed(c) \/ Drop(c) \/ Valid(c) \/ Invalid(c)

SwitchStep(c) ==
  \/ BeginSwitch(c) \/ Check(c) \/ Load(c) \/ LoadFails(c) \/ Swap(c)
  \/ Save(c) \/ SaveFails(c) \/ Refresh(c) \/ Show(c) \/ Fill(c)

TrayStep(c) ==
  \/ \E m \in Clicked : ClickAgain(c, m) \/ Click(c, m)
  \/ Restore(c) \/ Unpaint(c) \/ Repaint(c) \/ Cross(c)
  \/ FinishClick(c) \/ MarkOld(c) \/ MarkChoice(c)

Step(c) ==
  \/ TrayStep(c) \/ SwitchStep(c) \/ Resolve(c)
  \/ FinishCall(c) \/ Record(c) \/ Delete(c) \/ Start(c) \/ StartFails(c)
  \/ \E m \in Models : BeginDirect(c, m) \/ AskToDelete(c, m)
  \/ AskToRecord(c) \/ Boot(c) \/ Reset(c) \/ BeginRefresh(c)

Next == (\E c \in Callers : Step(c)) \/ StopRecording \/ Crash

Spec == Init /\ [][Next]_vars

-----------------------------------------------------------------------------
\* A failed save rolls the engine back (actions.go:65): when no two switches
\* overlapped since the last one that had the place for itself, and no reset or
\* failed rollback came between, the engine is the configured one at rest.
EngineIsConfigured == up /\ settled /\ InFlight = {} => engine.model = config

\* The atomic download (model_downloader.go:63): a model file, and the file an
\* engine was loaded from, has its whole content unless two downloads of this
\* model overlapped.
ModelsAreWhole ==
  /\ \A m \in Models : dest[m].there => dest[m].sound
  /\ engine.sound

\* Once every click has been answered, the next click on a model is a choice
\* and not taken for a cancellation (handleModelClick).
TrayAnswers ==
  (\A c \in Callers : At(c, "idle")) /\ up => owner = NoOne /\ downloading = NoModel

\* At rest the menu marks the configured model, after switches that succeeded,
\* failed or were cancelled, and after resets, unless one goroutine painted
\* between what another had read or saved and what it paints, and no refresh
\* has been undisturbed since (handleModelClick, updateUISettings).
MenuMarks ==
  (\A c \in Callers : At(c, "idle")) /\ up /\ ~crossed => titles = Radio(config)
=============================================================================
