----------------------------- MODULE HotkeyNames -----------------------------
(***************************************************************************)
(* Names of keys and hotkeys (hotkeys/utils).  A hotkey is what is between *)
(* its "+" signs: modifiers, and the main key as the last part.            *)
(***************************************************************************)
EXTENDS Sequences, SequencesExt

\* The modifier keys of a keyboard.
ModifierKeys ==
  {"leftctrl", "rightctrl", "leftalt", "rightalt", "leftshift", "rightshift", "leftmeta", "rightmeta"}

IsModifier(name) ==
  name \in {"ctrl", "alt", "shift", "super", "meta", "win", "altgr", "hyper"} \cup ModifierKeys

\* The keys that stand for a modifier; side-specific names stand for themselves.
KeysOf(mod) ==
  CASE mod = "ctrl" -> {"leftctrl", "rightctrl"}
    [] mod = "alt" -> {"leftalt", "rightalt"}
    [] mod = "shift" -> {"leftshift", "rightshift"}
    [] mod \in {"super", "meta", "win"} -> {"leftmeta", "rightmeta"}
    [] mod = "altgr" -> {"rightalt"}
    [] OTHER -> {mod}

\* Mutant: the general names stand for the left key.
IsLeftModifierPressed(mod, down) ==
  \/ KeysOf(mod) \cap {"leftctrl", "leftalt", "leftshift", "leftmeta"} \cap down # {}
  \/ mod = "altgr" /\ "rightalt" \in down

IsModifierPressed(mod, down) == KeysOf(mod) \cap down # {}

\* Of some names those of modifiers, in the order of a normalized hotkey; a
\* modifier that is not in the order, as "hyper", is dropped.
Named == {"ctrl", "shift", "alt", "altgr", "super"}

InOrder(names) ==
  LET Listed(mod) == IF mod \in names THEN <<mod>> ELSE <<>>
  IN Listed("ctrl") \o Listed("shift") \o Listed("alt") \o Listed("altgr") \o Listed("super")

BuildModifierState(down) == InOrder({mod \in Named : IsModifierPressed(mod, down)})

\* mapMod
Canonical(mod) ==
  CASE mod \in {"win", "meta", "leftmeta", "rightmeta"} -> "super"
    [] mod \in {"rightalt", "altgr"} -> "altgr"
    [] mod = "leftalt" -> "alt"
    [] mod \in {"leftctrl", "rightctrl"} -> "ctrl"
    [] mod \in {"leftshift", "rightshift"} -> "shift"
    [] OTHER -> mod

NormalizeHotkey(parts) ==
  Append(InOrder({Canonical(mod) : mod \in Range(Front(parts))}), Last(parts))

ParseHotkey(parts) == [modifiers |-> Range(Front(parts)), key |-> Last(parts)]

ValidateHotkey(parts) == ~IsModifier(ParseHotkey(NormalizeHotkey(parts)).key)

BuildHotkeyString(mods, key) == NormalizeHotkey(Append(mods, key))

\* Escape without a modifier cancels a capture.
CheckCancelCondition(key, down) == key = "esc" /\ down = {}
=============================================================================
