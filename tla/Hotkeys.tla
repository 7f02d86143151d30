------------------------------- MODULE Hotkeys -------------------------------
(***************************************************************************)
(* The hotkey manager (hotkeys/manager), which goroutines of the menu, the *)
(* window, the application and custom hotkey actions call without a lock,  *)
(* and the life of the providers that it makes.                            *)
(*                                                                         *)
(* A source is what one successful provider.Start opens: the keyboard's    *)
(* handle, or the portal's session, with the listener that reads it.  What *)
(* evdev makes of key events is EvdevProvider's part; here the event of an *)
(* open source is for a custom action, or for anything else.               *)
(*                                                                         *)
(* A provider's Start and Stop hold its mutex; the steps of the manager    *)
(* between two calls that can block are one action.                        *)
(***************************************************************************)
EXTENDS Naturals

CONSTANTS
  Menus,        \* goroutines of menu items and of the window
  Actors,       \* goroutines that custom hotkey actions start
  MaxCalls,     \* bound on the reloads and captures
  Environments  \* what the system supports, and the provider override

Env == [evdev : BOOLEAN, dbus : BOOLEAN, override : {"auto", "evdev", "dbus"}]

ASSUME HotkeysAssumption ==
  /\ MaxCalls \in Nat
  /\ Menus \cap Actors = {} /\ "app" \notin Menus \cup Actors
  /\ Environments \subseteq Env

Callers   == Menus \cup Actors \cup {"app"}
Providers == 1..(2 + 2 * MaxCalls)   \* at most two per start or reload
Sources   == 1..(1 + 2 * MaxCalls)   \* at most two per capture that is applied
None      == 0

VARIABLES
  mode,         \* config.Hotkeys.Mode as the manager has it
  provider,     \* HotkeyManager.provider
  isListening,  \* HotkeyManager.isListening
  prov, nProv,  \* the providers made so far
  src, nSrc,    \* the sources opened so far
  pc, arg,      \* each caller's place, and the provider or source it holds
  calls,        \* reloads and captures begun
  overlapped,   \* whether a call overlapped another or followed the shutdown
  env           \* what the system supports, and the override

managerVars  == <<mode, provider, isListening>>
providerVars == <<prov, nProv>>
sourceVars   == <<src, nSrc>>
callerVars   == <<pc, arg, calls, overlapped>>

vars == <<managerVars, providerVars, sourceVars, callerVars, env>>

Modes == {"toggle", "ptt"}
Kinds == {"evdev", "dbus", "dummy"}

Provider == [kind : Kinds, registered : BOOLEAN,
             cur : Sources \cup {None}]          \* its open source: isListening
Source   == [owner : Providers, open : BOOLEAN,
             waiting : BOOLEAN,                  \* a session's event is unread
             at : {"none", "read", "handle", "action", "gone"}]  \* its listener

NewProvider(k) == [kind |-> k, registered |-> FALSE, cur |-> None]

Places == {"new", "idle", "reload", "drain", "select", "register", "start",
           "fallback", "registerFallback", "startFallback", "capture",
           "drainStop", "stopped"}

\* Every variable keeps its type; a source is open exactly while its provider
\* listens to it, and every provider and source fits the reserved bounds.
TypeOK ==
  /\ mode \in Modes /\ isListening \in BOOLEAN
  /\ provider \in 1..nProv /\ nProv \in Providers /\ nSrc \in Sources \cup {None}
  /\ prov \in [Providers -> Provider] /\ src \in [Sources -> Source]
  /\ \A s \in Sources : src[s].open <=> s <= nSrc /\ prov[src[s].owner].cur = s
  /\ pc \in [Callers -> Places] /\ calls \in 0..MaxCalls /\ overlapped \in BOOLEAN
  /\ arg \in [Callers -> Providers \cup Sources \cup {None}]
  /\ env \in Environments

\* selectProviderForEnvironment
SelectProvider(m) ==
  IF m = "ptt" /\ env.evdev THEN "evdev"
  ELSE IF env.override # "auto" THEN env.override
  ELSE IF env.dbus THEN "dbus"
  ELSE IF env.evdev THEN "evdev"
  ELSE "dummy"

Init ==
  /\ env \in Environments
  /\ mode \in Modes /\ isListening = FALSE
  /\ provider = 1 /\ nProv = 1 /\ nSrc = None
  /\ prov = [p \in Providers |-> NewProvider(IF p = 1 THEN SelectProvider(mode) ELSE "dummy")]
  /\ src = [s \in Sources |-> [owner |-> 1, open |-> FALSE, waiting |-> FALSE, at |-> "none"]]
  /\ pc = [c \in Callers |-> IF c \in Menus THEN "idle" ELSE "new"]
  /\ arg = [c \in Callers |-> None]
  /\ calls = 0 /\ overlapped = FALSE

(***************************************************************************)
(* Callers                                                                 *)
(***************************************************************************)
Busy == {c \in Callers : pc[c] \notin {"new", "idle", "stopped"}}

\* The tray and the window are closed before the hotkeys.
Served == pc["app"] \notin {"drainStop", "stopped"}

Goto(c, l) == pc' = [pc EXCEPT ![c] = l]

\* A call begins; whether others are under way, or the shutdown, is remembered.
Begin(c, l) ==
  /\ Goto(c, l)
  /\ overlapped' = (overlapped \/ Busy # {} \/ ~Served)

\* A menu item or the window begins a call.
Click(c) ==
  /\ c \in Menus /\ pc[c] = "idle" /\ Served
  /\ calls < MaxCalls /\ calls' = calls + 1

\* What a caller returns to.
Home(c) == IF c \in Actors THEN "new" ELSE "idle"

\* Start and Stop hold the provider's mutex while they block.
Locked(p) ==
  \E c \in Callers :
    \/ pc[c] \in {"drain", "drainStop"} /\ src[arg[c]].owner = p
    \/ pc[c] \in {"start", "startFallback"} /\ arg[c] = p

(***************************************************************************)
(* Listeners                                                               *)
(***************************************************************************)
KindOf(s) == prov[src[s].owner].kind

ListenerStep(s, source) ==
  /\ src' = [src EXCEPT ![s] = source]
  /\ UNCHANGED <<managerVars, providerVars, nSrc, env>>

\* A key is pressed or let go.  The listener of the keyboard's handle reads it;
\* what it does not read before the handle closes is lost.
KeyEvent(s) ==
  /\ src[s].open /\ KindOf(s) = "evdev" /\ src[s].at = "read"
  /\ ListenerStep(s, [src[s] EXCEPT !.at = "handle"])
  /\ UNCHANGED callerVars

\* The portal sends a session an event, ...
Activation(s) ==
  /\ src[s].open /\ KindOf(s) = "dbus" /\ ~src[s].waiting
  /\ ListenerStep(s, [src[s] EXCEPT !.waiting = TRUE])
  /\ UNCHANGED callerVars

\* ... which its listener reads even after the session is closed.
ReadActivation(s) ==
  /\ src[s].at = "read" /\ src[s].waiting
  /\ ListenerStep(s, [src[s] EXCEPT !.at = "handle", !.waiting = FALSE])
  /\ UNCHANGED callerVars

\* evdev handles an event under the provider's mutex, so one that was read before
\* a Stop may be handled after it.
Handling(s) ==
  /\ src[s].at = "handle"
  /\ KindOf(s) = "evdev" => ~Locked(src[s].owner)

\* No callback, one that returns, or a custom action's.
HandleEvent(s) ==
  /\ Handling(s)
  /\ \E next \in {"read", "action"} : ListenerStep(s, [src[s] EXCEPT !.at = next])
  /\ UNCHANGED callerVars

\* ResetToDefaults reloads the hotkeys unless the defaults cannot be saved.
ResetToDefaults ==
  \/ /\ calls < MaxCalls /\ calls' = calls + 1
     /\ \E a \in Actors : pc[a] = "new" /\ Begin(a, "reload")
     /\ UNCHANGED arg
  \/ UNCHANGED callerVars

\* Mutant: the action runs on the listener, which goes on when it has returned.
RunActionInline(s) ==
  /\ src[s].at = "action"
  /\ \/ /\ calls < MaxCalls /\ calls' = calls + 1
        /\ \A a \in Actors : pc[a] = "new"
        /\ \E a \in Actors : Begin(a, "reload")
        /\ ListenerStep(s, src[s])
        /\ UNCHANGED arg
     \/ /\ \A a \in Actors : pc[a] = "new"
        /\ ListenerStep(s, [src[s] EXCEPT !.at = "read"])
        /\ UNCHANGED callerVars

\* A custom action runs on a goroutine of its own, off the listener.
RunAction(s) ==
  /\ src[s].at = "action"
  /\ ResetToDefaults
  /\ ListenerStep(s, [src[s] EXCEPT !.at = "read"])

\* The handle is closed; a session's channel is read to its end.
ListenerEnds(s) ==
  /\ src[s].at = "read" /\ ~src[s].open /\ ~src[s].waiting
  /\ ListenerStep(s, [src[s] EXCEPT !.at = "gone"])
  /\ UNCHANGED callerVars

(***************************************************************************)
(* Providers                                                               *)
(***************************************************************************)
\* Provider p starts listening, unless it does already: a keyboard is there, or
\* the portal agrees.
MayStart(p) ==
  /\ prov[p].cur = None
  /\ \/ prov[p].kind = "evdev" /\ env.evdev
     \/ prov[p].kind = "dbus" /\ env.dbus

Listen(p) ==
  /\ nSrc' = nSrc + 1
  /\ prov' = [prov EXCEPT ![p].cur = nSrc + 1]
  /\ src' = [src EXCEPT ![nSrc + 1] =
               [owner |-> p, open |-> TRUE, waiting |-> FALSE, at |-> "read"]]

\* provider.Stop, up to the wait for the listener: the source is closed.
Close(p) ==
  IF prov[p].cur = None THEN UNCHANGED <<prov, src>>
  ELSE /\ prov' = [prov EXCEPT ![p].cur = None]
       /\ src' = [src EXCEPT ![prov[p].cur].open = FALSE]

(***************************************************************************)
(* The manager                                                             *)
(***************************************************************************)
Start ==
  /\ pc["app"] = "new"
  /\ Begin("app", IF isListening THEN "idle" ELSE "register")
  /\ UNCHANGED <<arg, calls, managerVars, providerVars, sourceVars, env>>

\* Mutant: the old provider listens on.
LeaveProvider(c, drain, next) ==
  /\ isListening' = FALSE
  /\ IF pc[c] = "reload" THEN Goto(c, next) /\ UNCHANGED overlapped ELSE Begin(c, next)
  /\ UNCHANGED <<arg, mode, provider, providerVars, sourceVars, env>>

\* The first part of Stop and of ReloadConfig: if the manager listens, the
\* provider stops, and the caller waits for it at "drain".
StopProvider(c, drain, next) ==
  LET waits == isListening /\ prov[provider].cur # None
      place == IF waits THEN drain ELSE next
  IN
  /\ isListening => ~Locked(provider) /\ Close(provider)
  /\ ~isListening => UNCHANGED <<prov, src>>
  /\ isListening' = waits
  /\ arg' = [arg EXCEPT ![c] = IF waits THEN prov[provider].cur ELSE None]
  /\ IF pc[c] = "reload" THEN Goto(c, place) /\ UNCHANGED overlapped ELSE Begin(c, place)
  /\ UNCHANGED <<mode, provider, nProv, nSrc, env>>

ReloadConfig(c) ==
  /\ \/ Click(c)
     \/ pc[c] = "reload" /\ UNCHANGED calls
  /\ StopProvider(c, "drain", "select")

Stop ==
  /\ pc["app"] = "idle" /\ UNCHANGED calls
  /\ StopProvider("app", "drainStop", "stopped")

\* The D-Bus provider waits for its listener, the evdev provider 50 ms at most.
ProviderStopped(c) ==
  /\ pc[c] \in {"drain", "drainStop"}
  /\ KindOf(arg[c]) = "dbus" => src[arg[c]].at = "gone"
  /\ isListening' = FALSE
  /\ Goto(c, IF pc[c] = "drain" THEN "select" ELSE "stopped")
  /\ arg' = [arg EXCEPT ![c] = None]
  /\ UNCHANGED <<mode, provider, providerVars, sourceVars, calls, overlapped, env>>

SelectNew(c) ==
  /\ pc[c] = "select"
  /\ mode' \in Modes
  /\ nProv' = nProv + 1 /\ provider' = nProv + 1
  /\ prov' = [prov EXCEPT ![nProv + 1] = NewProvider(SelectProvider(mode'))]
  /\ Goto(c, "register")
  /\ UNCHANGED <<isListening, sourceVars, arg, calls, overlapped, env>>

\* registerAllHotkeysOn, then provider.Start, which takes the mutex.  The D-Bus
\* provider refuses an action that it has already.
Register(c) ==
  /\ pc[c] \in {"register", "registerFallback"} /\ ~Locked(provider)
  /\ IF prov[provider].kind = "dbus" /\ prov[provider].registered
       THEN Goto(c, Home(c)) /\ UNCHANGED <<prov, arg>>
       ELSE /\ Goto(c, IF pc[c] = "register" THEN "start" ELSE "startFallback")
            /\ prov' = [prov EXCEPT ![provider].registered = TRUE]
            /\ arg' = [arg EXCEPT ![c] = provider]
  /\ UNCHANGED <<managerVars, nProv, sourceVars, calls, overlapped, env>>

\* Mutant: a fallback that listens goes unnoticed.
StartUnnoticed(c) ==
  /\ pc[c] \in {"start", "startFallback"}
  /\ MayStart(arg[c]) /\ Listen(arg[c])
  /\ isListening' = (isListening \/ pc[c] = "start")
  /\ Goto(c, Home(c))
  /\ arg' = [arg EXCEPT ![c] = None]
  /\ UNCHANGED <<mode, provider, nProv, calls, overlapped, env>>

ProviderStarts(c) ==
  /\ pc[c] \in {"start", "startFallback"}
  /\ MayStart(arg[c]) /\ Listen(arg[c])
  /\ isListening' = TRUE
  /\ Goto(c, Home(c))
  /\ arg' = [arg EXCEPT ![c] = None]
  /\ UNCHANGED <<mode, provider, nProv, calls, overlapped, env>>

\* The user may refuse, and the keyboards may be gone.
ProviderFails(c) ==
  /\ pc[c] \in {"start", "startFallback"}
  /\ Goto(c, IF pc[c] = "start" THEN "fallback" ELSE Home(c))
  /\ arg' = [arg EXCEPT ![c] = None]
  /\ UNCHANGED <<managerVars, providerVars, sourceVars, calls, overlapped, env>>

\* startFallbackAfterRegistration: the other provider, if it is supported.
FallbackKinds ==
  {k \in {"evdev", "dbus"} : k # prov[provider].kind /\ env[k]}
    \ (IF prov[provider].kind = "dummy" THEN {"evdev", "dbus"} ELSE {})

NoFallback(c) ==
  /\ pc[c] = "fallback" /\ FallbackKinds = {}
  /\ Goto(c, Home(c))
  /\ UNCHANGED <<managerVars, providerVars, sourceVars, arg, calls, overlapped, env>>

SelectFallback(c) ==
  /\ pc[c] = "fallback"
  /\ \E k \in FallbackKinds : prov' = [prov EXCEPT ![nProv + 1] = NewProvider(k)]
  /\ nProv' = nProv + 1 /\ provider' = nProv + 1
  /\ Goto(c, "registerFallback")
  /\ UNCHANGED <<mode, isListening, sourceVars, arg, calls, overlapped, env>>

\* Mutant: the listener goes on during the capture.
CaptureListening(c) ==
  /\ Click(c) /\ prov[provider].kind = "evdev" /\ ~Locked(provider)
  /\ Begin(c, "capture")
  /\ arg' = [arg EXCEPT ![c] = provider]
  /\ UNCHANGED <<managerVars, providerVars, sourceVars, env>>

\* The listener stops for the capture.
CaptureOnce(c) ==
  /\ Click(c) /\ prov[provider].kind = "evdev" /\ ~Locked(provider)
  /\ Close(provider)
  /\ Begin(c, "capture")
  /\ arg' = [arg EXCEPT ![c] = provider]
  /\ UNCHANGED <<managerVars, nProv, nSrc, env>>

\* A key was pressed, the capture was cancelled or the time is up.  The same
\* provider is started again; then rebindHotkey saves a captured hotkey and
\* reloads.
CaptureEnds(c) ==
  /\ pc[c] = "capture" /\ ~Locked(arg[c])
  /\ \/ isListening /\ MayStart(arg[c]) /\ Listen(arg[c])
     \/ UNCHANGED <<prov, sourceVars>>
  /\ \E next \in {"idle", "reload"} : Goto(c, next)
  /\ arg' = [arg EXCEPT ![c] = None]
  /\ UNCHANGED <<managerVars, nProv, calls, overlapped, env>>

-----------------------------------------------------------------------------
Listener(s) ==
  ReadActivation(s) \/ HandleEvent(s) \/ RunAction(s) \/ ListenerEnds(s)

\* What a caller does once its call has begun.
Proceed(c) ==
  \/ pc[c] = "reload" /\ ReloadConfig(c)
  \/ ProviderStopped(c) \/ SelectNew(c)
  \/ Register(c) \/ ProviderStarts(c) \/ ProviderFails(c)
  \/ NoFallback(c) \/ SelectFallback(c)
  \/ CaptureEnds(c)

Next ==
  \/ \E s \in Sources : KeyEvent(s) \/ Activation(s) \/ Listener(s)
  \/ \E c \in Callers : ReloadConfig(c) \/ CaptureOnce(c) \/ Proceed(c)
  \/ Start \/ Stop

Spec == Init /\ [][Next]_vars

\* Listeners are scheduled and callbacks return; a call that has begun goes on.
\* Nobody has to press a key or to begin a call.
Fairness ==
  /\ \A s \in Sources : WF_vars(Listener(s))
  /\ \A c \in Callers : WF_vars(Proceed(c))

FairSpec == Spec /\ Fairness

(***************************************************************************)
(* Properties                                                              *)
(***************************************************************************)
\* Unless calls of the manager overlap, a press acts once: there is one open
\* source, and it is the manager's provider's.  (ReloadConfig, fallback)
OneListener ==
  ~overlapped => \A s \in Sources : src[s].open =>
    src[s].owner = provider /\ \A t \in Sources : src[t].open => t = s

\* Unless calls of the manager overlap, nobody listens once the shutdown is
\* over, whichever provider had taken over.  (Stop, isListening)
StoppedIsSilent ==
  ~overlapped /\ pc["app"] = "stopped" /\ Busy = {} => \A s \in Sources : ~src[s].open

\* Unless calls of the manager overlap, the keys that are pressed during a
\* capture reach no listener.  (CaptureOnce)
CaptureIsSilent ==
  ~overlapped /\ (\E c \in Callers : pc[c] = "capture") => \A s \in Sources : ~src[s].open

\* Every call of the manager returns, although a Stop waits for a listener that
\* may be about to run an action that stops it.  (registerAllHotkeysOn)
CallsReturn == \A c \in Callers : c \in Busy ~> c \notin Busy
=============================================================================
