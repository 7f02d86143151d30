---------------------------- MODULE EvdevProvider ----------------------------
(***************************************************************************)
(* One evdev keyboard provider (hotkeys/providers/evdev_provider.go): the  *)
(* keyboard it reads, its listeners, the capture of a hotkey, which may be *)
(* bound to the recording, and the recording that the callback of this     *)
(* hotkey drives.  The hotkey manager starts and stops the provider at any *)
(* time, as for a capture; Hotkeys models when.                            *)
(*                                                                         *)
(* Each Start opens a handle of the one keyboard and a listener that reads *)
(* it; a capture session has a handle of its own.                          *)
(***************************************************************************)
EXTENDS Naturals, FiniteSets, HotkeyNames

CONSTANTS
  Modifiers,  \* the modifier keys of the keyboard
  Keys,       \* its other keys
  RecHotkey,  \* the recording hotkey in the configuration
  RecChord,   \* modifier keys one may hold for it
  ActHotkey,  \* the hotkey of a custom action
  MaxStarts,  \* bound on the starts of the provider
  MaxQueue    \* bound on the unread events of a handle

ASSUME ProviderAssumption ==
  /\ Modifiers \subseteq ModifierKeys /\ Keys \cap ModifierKeys = {} /\ "none" \notin Keys
  /\ ValidateHotkey(RecHotkey) /\ ValidateHotkey(ActHotkey)
  /\ MaxStarts \in Nat \ {0} /\ MaxQueue \in Nat \ {0}

\* Modifier keys that one may hold for a hotkey: one at least for each of its
\* modifiers, and none that it does not ask for, on whatever side.
Pairs == {KeysOf(mod) : mod \in {"ctrl", "alt", "shift", "super"}}

ChordOf(parts, keys) ==
  LET modifiers == ParseHotkey(parts).modifiers
  IN /\ \A mod \in modifiers : KeysOf(mod) \cap keys # {}
     /\ \A pair \in Pairs : pair \cap keys # {} => \E mod \in modifiers : KeysOf(mod) \subseteq pair

ASSUME RecChordAssumption == RecChord \subseteq Modifiers /\ ChordOf(RecHotkey, RecChord)

Handles == 1..MaxStarts
None    == 0

VARIABLES
  modDown,    \* the modifier keys that are held on the keyboard
  keyDown,    \* the other keys that are held
  repeating,  \* the key the keyboard repeats, the one pressed last
  current,    \* the open handle: isListening, devices, stopListening
  stopping,   \* a Stop waits for the listener, and holds the mutex
  mods,       \* modifierState
  held,       \* the hotkeys whose press fired and whose release is pending
  starts,     \* handles opened so far
  hotkey,     \* the recording hotkey the provider has registered
  handle,     \* each handle with its listener
  session,    \* the capture session
  captured,   \* what a capture returned and nobody has bound yet
  ptt,        \* HotkeyManager.PushToTalk, for the life of the provider
  rec,        \* AudioService.isRecording
  startedBy,  \* the handle whose press started a push-to-talk recording
  chord,      \* history: the modifiers that were held when hotkey was chosen
  blurred     \* history: the reader cannot know which modifiers are held

keyboardVars == <<modDown, keyDown, repeating>>
providerVars == <<current, stopping, mods, held, starts, hotkey, chord>>
captureVars  == <<session, captured>>
recVars      == <<rec, startedBy>>

vars == <<keyboardVars, providerVars, handle, captureVars, ptt, recVars, blurred>>

\* Value 1 is a key that goes down, 0 one that comes up, 2 an autorepeat.
\* History: the modifiers that are down when a key is pressed.
Event   == [key : Keys \cup Modifiers, value : 0..2, with : SUBSET Modifiers]
NoEvent == [key |-> "none", value |-> 0, with |-> {}]

Handle == [at : {"unused", "read", "handle", "call", "gone"},
           queue : Seq(Event),
           event : Event \cup {NoEvent},  \* the event its listener has read
           fire : SUBSET {"rec", "act"}]   \* the callbacks it has yet to run

Idle(place) == [at |-> place, queue |-> <<>>, event |-> NoEvent, fire |-> {}]

NoSession == [open |-> FALSE, queue |-> <<>>, mods |-> {}]
NoHotkey  == [hotkey |-> <<>>, chord |-> {}]

\* Every variable keeps its type; the open handle is the latest, nothing is
\* left to read in a closed one, and nobody listens during a capture.
TypeOK ==
  /\ modDown \subseteq Modifiers /\ keyDown \subseteq Keys
  /\ repeating \in Keys \cup Modifiers \cup {"none"}
  /\ current \in {None, starts} /\ stopping \in BOOLEAN /\ starts \in {None} \cup Handles
  /\ mods \subseteq Modifiers /\ held \subseteq {hotkey, ActHotkey}
  /\ handle \in [Handles -> Handle]
  /\ \A h \in Handles : /\ Len(handle[h].queue) <= MaxQueue
                        /\ h # current => handle[h].queue = <<>>
                        /\ handle[h].at = "unused" <=> h > starts
  /\ session.open \in BOOLEAN /\ session.mods \subseteq Modifiers
  /\ session.open => current = None
  /\ chord \subseteq Modifiers /\ captured.chord \subseteq Modifiers
  /\ ptt \in BOOLEAN /\ rec \in BOOLEAN /\ startedBy \in Handles \cup {None} /\ blurred \in BOOLEAN

Init ==
  /\ modDown = {} /\ keyDown = {} /\ repeating = "none"
  /\ current = None /\ stopping = FALSE /\ mods = {} /\ held = {} /\ starts = None
  /\ hotkey = RecHotkey /\ chord = RecChord
  /\ handle = [h \in Handles |-> Idle("unused")]
  /\ session = NoSession /\ captured = NoHotkey
  /\ ptt \in BOOLEAN /\ rec = FALSE /\ startedBy = None /\ blurred = FALSE

(***************************************************************************)
(* The keyboard                                                            *)
(***************************************************************************)
Feed(key, value, with) ==
  LET e == [key |-> key, value |-> value, with |-> with]
  IN
  /\ IF current = None THEN UNCHANGED handle
     ELSE /\ Len(handle[current].queue) < MaxQueue
          /\ handle' = [handle EXCEPT ![current].queue = Append(@, e)]
  /\ IF ~session.open THEN UNCHANGED session
     ELSE /\ Len(session.queue) < MaxQueue
          /\ session' = [session EXCEPT !.queue = Append(@, e)]
  /\ blurred' = (blurred \/ (value = 2 /\ key \in Modifiers))
  /\ UNCHANGED <<providerVars, captured, ptt, recVars>>

PressModifier(m) ==
  /\ m \notin modDown /\ modDown' = modDown \cup {m} /\ repeating' = m
  /\ Feed(m, 1, {}) /\ UNCHANGED keyDown

ReleaseModifier(m) ==
  /\ m \in modDown /\ modDown' = modDown \ {m} /\ repeating' = "none"
  /\ Feed(m, 0, {}) /\ UNCHANGED keyDown

PressKey(k) ==
  /\ k \notin keyDown /\ keyDown' = keyDown \cup {k} /\ repeating' = k
  /\ Feed(k, 1, modDown) /\ UNCHANGED modDown

ReleaseKey(k) ==
  /\ k \in keyDown /\ keyDown' = keyDown \ {k} /\ repeating' = "none"
  /\ Feed(k, 0, {}) /\ UNCHANGED modDown

\* The keyboard repeats the key pressed last until a key is let go.
Autorepeat ==
  /\ repeating # "none"
  /\ Feed(repeating, 2, {}) /\ UNCHANGED keyboardVars

(***************************************************************************)
(* The listener of a handle                                                *)
(***************************************************************************)
ReadOne(h) ==
  /\ handle[h].at = "read" /\ h = current /\ handle[h].queue # <<>>
  /\ handle' = [handle EXCEPT ![h].at = "handle", ![h].event = Head(handle[h].queue),
                              ![h].queue = Tail(@)]
  /\ UNCHANGED <<keyboardVars, providerVars, captureVars, ptt, recVars, blurred>>

\* handleKeyEvent takes the mutex, so an event that was read before a Stop may be
\* handled after it.
Handling(h) == handle[h].at = "handle" /\ ~stopping

Handled(h) == handle' = [handle EXCEPT ![h].at = "read", ![h].event = NoEvent]

\* Mutant: a modifier that is let go stays.
KeepsModifiers(known, e) == known \cup {e.key}

\* Down is value 1; anything else is up.
Track(known, e) == IF e.value = 1 THEN known \cup {e.key} ELSE known \ {e.key}

TrackModifier(h) ==
  /\ Handling(h) /\ handle[h].event.key \in Modifiers
  /\ mods' = Track(mods, handle[h].event)
  /\ Handled(h)
  /\ UNCHANGED <<keyboardVars, current, stopping, held, starts, hotkey, chord,
                 captureVars, ptt, recVars, blurred>>

AllModifiersPressed(parts, down) ==
  \A mod \in ParseHotkey(parts).modifiers : IsModifierPressed(mod, down)

\* Mutant: a release needs the modifiers, too.
FiresWithModifiers(parts, e) ==
  /\ ParseHotkey(parts).key = e.key /\ e.value # 2
  /\ AllModifiersPressed(parts, mods)
  /\ e.value = 0 => parts \in held

\* A press needs all modifiers; a release needs a pending press; an autorepeat
\* is neither.
Fires(parts, e) ==
  /\ ParseHotkey(parts).key = e.key /\ e.value # 2
  /\ e.value = 1 => AllModifiersPressed(parts, mods)
  /\ e.value = 0 => parts \in held

\* Callbacks are kept by hotkey, and the actions are registered last.
Firing(e) == {parts \in {hotkey, ActHotkey} : Fires(parts, e)}
Callback(parts) == IF parts = ActHotkey THEN "act" ELSE "rec"

SkipEvent(h) ==
  /\ Handling(h) /\ handle[h].event.key \notin Modifiers /\ Firing(handle[h].event) = {}
  /\ Handled(h)
  /\ UNCHANGED <<keyboardVars, providerVars, captureVars, ptt, recVars, blurred>>

\* The hotkeys are marked under the mutex, and their callbacks run after it.
FireHotkeys(h) ==
  LET firing == Firing(handle[h].event)
  IN
  /\ Handling(h) /\ handle[h].event.key \notin Modifiers /\ firing # {}
  /\ held' = IF handle[h].event.value = 1 THEN held \cup firing ELSE held \ firing
  /\ handle' = [handle EXCEPT ![h].at = "call", ![h].fire = {Callback(parts) : parts \in firing}]
  /\ UNCHANGED <<keyboardVars, current, stopping, mods, starts, hotkey, chord,
                 captureVars, ptt, recVars, blurred>>

\* One callback after the other.
Called(h, callback) ==
  LET left == handle[h].fire \ {callback}
  IN handle' = [handle EXCEPT ![h] =
       IF left = {} THEN [@ EXCEPT !.at = "read", !.event = NoEvent, !.fire = {}]
                    ELSE [@ EXCEPT !.fire = left]]

StartRecording(by) ==
  \/ ~rec /\ rec' = TRUE /\ startedBy' = by
  \/ UNCHANGED recVars                  \* it records already, or cannot start

StopRecording == rec' = FALSE /\ startedBy' = None

\* RecordingHotkey, on the listener: push-to-talk records while the hotkey is
\* held, otherwise a press toggles.
RecordingHotkey(h) ==
  /\ handle[h].at = "call" /\ "rec" \in handle[h].fire
  /\ LET pressed == handle[h].event.value = 1 IN
     \/ ptt /\ pressed /\ StartRecording(h)
     \/ ptt /\ ~pressed /\ StopRecording
     \/ ~ptt /\ pressed /\ rec /\ StopRecording
     \/ ~ptt /\ pressed /\ ~rec /\ StartRecording(None)
     \/ ~ptt /\ ~pressed /\ UNCHANGED recVars
  /\ Called(h, "rec")
  /\ UNCHANGED <<keyboardVars, providerVars, captureVars, ptt, blurred>>

\* A custom action gets a goroutine of its own.
ActionHotkey(h) ==
  /\ handle[h].at = "call" /\ "act" \in handle[h].fire
  /\ Called(h, "act")
  /\ UNCHANGED <<keyboardVars, providerVars, captureVars, ptt, recVars, blurred>>

\* The handle is closed, or the stop channel is.
ListenerExits(h) ==
  /\ handle[h].at = "read" /\ h # current
  /\ handle' = [handle EXCEPT ![h] = Idle("gone")]
  /\ UNCHANGED <<keyboardVars, providerVars, captureVars, ptt, recVars, blurred>>

(***************************************************************************)
(* Start and Stop                                                          *)
(***************************************************************************)
\* A listener that Stop gave up on has handled what it had read before the
\* provider is started again, which takes a capture or a portal's refusal.  The
\* restart between a capture and the new binding is left out.
NoneHandles == \A h \in Handles : handle[h].at # "handle"

Start ==
  /\ current = None /\ ~stopping /\ ~session.open /\ captured = NoHotkey
  /\ starts < MaxStarts /\ NoneHandles
  /\ starts' = starts + 1 /\ current' = starts + 1
  /\ handle' = [handle EXCEPT ![starts + 1] = Idle("read")]
  /\ blurred' = (mods # modDown)
  /\ UNCHANGED <<keyboardVars, stopping, mods, held, hotkey, chord, captureVars, ptt, recVars>>

\* Stop closes the handle: what nobody has read is lost.
Stop ==
  /\ current # None /\ ~stopping
  /\ stopping' = TRUE
  /\ current' = None
  /\ handle' = [handle EXCEPT ![current].queue = <<>>]
  /\ UNCHANGED <<keyboardVars, mods, held, starts, hotkey, chord, captureVars, ptt, recVars, blurred>>

\* The listeners are gone, or 50 ms have passed.
StopReturns ==
  /\ stopping /\ stopping' = FALSE
  /\ UNCHANGED <<keyboardVars, current, mods, held, starts, hotkey, chord, handle,
                 captureVars, ptt, recVars, blurred>>

(***************************************************************************)
(* A capture, which the manager stops the provider for                     *)
(***************************************************************************)
CaptureOnce ==
  /\ current = None /\ ~stopping /\ ~session.open /\ captured = NoHotkey /\ starts < MaxStarts
  /\ session' = [NoSession EXCEPT !.open = TRUE]
  /\ blurred' = (modDown # {})
  /\ UNCHANGED <<keyboardVars, providerVars, handle, captured, ptt, recVars>>

\* processKeyEvent: only a press of another key ends the session, with the
\* hotkey that names it, or with none for Escape.
ProcessKeyEvent ==
  /\ session.open /\ session.queue # <<>>
  /\ LET e == Head(session.queue)
         goesOn == [session EXCEPT !.queue = Tail(@)]
         combo == BuildHotkeyString(BuildModifierState(session.mods), e.key)
     IN
     \/ /\ e.key \in Modifiers
        /\ session' = [goesOn EXCEPT !.mods = Track(@, e)] /\ UNCHANGED captured
     \/ /\ e.key \notin Modifiers /\ e.value # 1
        /\ session' = goesOn /\ UNCHANGED captured
     \/ /\ e.key \notin Modifiers /\ e.value = 1 /\ CheckCancelCondition(e.key, session.mods)
        /\ session' = NoSession /\ UNCHANGED captured
     \/ /\ e.key \notin Modifiers /\ e.value = 1 /\ ~CheckCancelCondition(e.key, session.mods)
        /\ ValidateHotkey(combo)
        /\ session' = NoSession
        /\ captured' = [hotkey |-> combo, chord |-> IF blurred THEN session.mods ELSE e.with]
  /\ UNCHANGED <<keyboardVars, providerVars, handle, ptt, recVars, blurred>>

CaptureTimesOut ==
  /\ session.open /\ session' = NoSession
  /\ UNCHANGED <<keyboardVars, providerVars, handle, captured, ptt, recVars, blurred>>

\* rebindHotkey saves what was captured, and the manager makes a new provider;
\* the save may also fail.
Rebind ==
  /\ captured # NoHotkey /\ current = None /\ ~stopping /\ NoneHandles
  /\ hotkey' = captured.hotkey /\ chord' = captured.chord
  /\ mods' = {} /\ held' = {} /\ captured' = NoHotkey
  /\ UNCHANGED <<keyboardVars, current, stopping, starts, handle, session, ptt, recVars, blurred>>

RebindFails ==
  /\ captured # NoHotkey /\ captured' = NoHotkey
  /\ UNCHANGED <<keyboardVars, providerVars, handle, session, ptt, recVars, blurred>>

-----------------------------------------------------------------------------
Keyboard ==
  \/ Autorepeat \/ \E m \in Modifiers : PressModifier(m) \/ ReleaseModifier(m)
  \/ \E k \in Keys : PressKey(k) \/ ReleaseKey(k)

Listener(h) ==
  \/ ReadOne(h) \/ TrackModifier(h) \/ SkipEvent(h) \/ FireHotkeys(h)
  \/ RecordingHotkey(h) \/ ActionHotkey(h) \/ ListenerExits(h)

Capture == CaptureOnce \/ ProcessKeyEvent \/ CaptureTimesOut \/ Rebind \/ RebindFails

Next == Keyboard \/ Start \/ Stop \/ StopReturns \/ Capture \/ \E h \in Handles : Listener(h)

Spec == Init /\ [][Next]_vars

(***************************************************************************)
(* Properties                                                              *)
(***************************************************************************)
Quiet(h) == h = current /\ handle[h].at = "read" /\ handle[h].queue = <<>>

\* Push-to-talk: a recording that a hold started goes on no longer than the hold,
\* whatever is let go first and whatever repeats, as long as that listener is
\* not stopped under it.  (the rule that a release needs no modifiers)
HoldEnds ==
  \A h \in Handles : Quiet(h) /\ startedBy = h => ParseHotkey(hotkey).key \in keyDown

\* What a capture returns names the modifiers that were held, all and no other,
\* unless one was held from before the capture or had repeated.
\* (processKeyEvent, BuildModifierState)
CaptureIsChord ==
  captured # NoHotkey =>
    LET named == UNION {KeysOf(mod) : mod \in ParseHotkey(captured.hotkey).modifiers}
    IN /\ \A pair \in Pairs : pair \cap named # {} <=> pair \cap captured.chord # {}
       /\ captured.hotkey = NormalizeHotkey(captured.hotkey)

\* The recording hotkey fires when its key is pressed with the modifiers it was
\* chosen with, whatever else is held, and not without one of them on either
\* side, unless a modifier was held from before or had repeated.
\* (handleKeyEvent, IsModifierPressed, ParseHotkey)
ChordFires ==
  \A h \in Handles :
    LET e == handle[h].event
    IN /\ h = current /\ handle[h].at = "handle" /\ ~blurred
       /\ e.value = 1 /\ e.key = ParseHotkey(hotkey).key
       => /\ chord \subseteq e.with => Fires(hotkey, e)
          /\ Fires(hotkey, e) => \A pair \in Pairs : pair \cap chord # {} => pair \cap e.with # {}
=============================================================================
