---------------------------- MODULE OutputRouting ----------------------------
(***************************************************************************)
(* Routing a text to clipboard or active window                            *)
(* (internal/services/io_service.go), while the user changes the mode      *)
(* (internal/services/actions.go).  OutputText, setOutputMode and          *)
(* ResetToDefaults run in goroutines of their own; the config and the      *)
(* outputter are each read and replaced atomically, not together.          *)
(***************************************************************************)
EXTENDS Outputters

CONSTANTS
  Callers,  \* goroutines, each of which outputs texts and sets the mode
  Machines, \* what the machine may be
  Configs   \* what the config file may say at the start

ASSUME MachinesAreMachines == Machines \subseteq Machine
ASSUME ConfigsAreConfigs == Configs \subseteq Config

VARIABLES
  machine,    \* fixed
  config,     \* ConfigService.current
  outputter,  \* IOService.outputManager
  role,       \* what a caller is calling: OutputText or setOutputMode
  pc,         \* where its call is
  out,        \* the outputter a call has in hand
  mode,       \* the mode a call has read, or is to set
  ascii,      \* the text of a call is ASCII
  raced,      \* history: calls that overlapped another one
  unfit,      \* history: calls that did not find the outputter in place
  spoiled     \* history: something may have set outputter and mode apart

call == <<role, pc, out, mode, ascii>>
history == <<raced, unfit, spoiled>>
vars == <<machine, config, outputter, call, history>>

Active == {"read", "try", "persist", "persistAgain", "create", "set", "retry"}
Resting == {"idle", "failed"}
Idle == \A c \in Callers : pc[c] \notin Active

TypeOK ==
  /\ machine \in Machines /\ config \in Config /\ outputter \in Outputter
  /\ role \in [Callers -> {"text", "setter"}]
  /\ pc \in [Callers -> Active \cup Resting]
  /\ out \in [Callers -> Outputter] /\ mode \in [Callers -> Modes]
  /\ ascii \in [Callers -> BOOLEAN]
  /\ raced \subseteq Callers /\ unfit \subseteq Callers
  /\ spoiled \in BOOLEAN

\* NewContainer, whose fallback edits the config; without any outputter the
\* daemon does not start.
Container(cfg, m) ==
  LET first == GetOutputter(cfg, m)
      tool == FallbackTool(m)
  IN IF first # NoOutputter THEN [config |-> cfg, outputter |-> first]
     ELSE [config |-> [cfg EXCEPT !.mode = "clipboard", !.clipboardTool = tool],
           outputter |-> [clip |-> tool, type |-> "none", allowed |-> cfg.allowed]]

Init ==
  /\ machine \in Machines
  /\ \E cfg \in Configs :
       LET started == Container(cfg, machine)
       IN /\ started.outputter.clip # "none" \/ started.outputter.type # "none"
          /\ config = started.config /\ outputter = started.outputter
  /\ role = [c \in Callers |-> "text"]
  /\ pc = [c \in Callers |-> "idle"]
  /\ out = [c \in Callers |-> NoOutputter]
  /\ mode = [c \in Callers |-> "clipboard"]
  /\ ascii = [c \in Callers |-> TRUE]
  /\ raced = {} /\ unfit = {}
  /\ spoiled = (config.mode = "other")

-----------------------------------------------------------------------------
\* What every call does.

Others(c) == {d \in Callers \ {c} : pc[d] \in Active}
Goto(c, there) == pc' = [pc EXCEPT ![c] = there]

\* The outputter is the one the settings ask for, and does what they say.
InPlace == outputter = GetOutputter(config, machine) /\ Serves(outputter, config.mode)

Begin(c) ==
  /\ pc[c] \in Resting
  /\ raced' = IF Others(c) = {} THEN raced ELSE raced \cup Others(c) \cup {c}
  /\ spoiled' = (spoiled \/ Others(c) # {})
  /\ unfit' = IF InPlace THEN unfit ELSE unfit \cup {c}

\* A call returns, and what it had in hand is gone.
Leave(c, how) ==
  /\ Goto(c, how) /\ role' = [role EXCEPT ![c] = "text"]
  /\ out' = [out EXCEPT ![c] = NoOutputter]
  /\ mode' = [mode EXCEPT ![c] = "clipboard"]
  /\ ascii' = [ascii EXCEPT ![c] = TRUE]
  /\ raced' = raced \ {c} /\ unfit' = unfit \ {c}

\* One that had the place for itself and succeeded leaves things right.
Succeed(c) == Leave(c, "idle") /\ spoiled' = (spoiled /\ c \in raced)

\* One that fails after it changed the mode leaves the old outputter.
Fail(c) == Leave(c, "failed") /\ spoiled' = TRUE

-----------------------------------------------------------------------------
\* OutputText.

TakeOutputter(t) ==
  /\ Begin(t) /\ Goto(t, "read") /\ role' = [role EXCEPT ![t] = "text"]
  /\ out' = [out EXCEPT ![t] = outputter]
  /\ \E a \in BOOLEAN : ascii' = [ascii EXCEPT ![t] = a]
  /\ UNCHANGED <<machine, config, outputter, mode>>

ReadMode(t) ==
  /\ pc[t] = "read" /\ Goto(t, "try")
  /\ mode' = [mode EXCEPT ![t] = config.mode]
  /\ UNCHANGED <<machine, config, outputter, role, out, ascii, history>>

OtherMode(m) == IF m = "clipboard" THEN "active_window" ELSE "clipboard"

Delivers(t, o, m) ==
  IF m = "clipboard" THEN CopyWorks(o, machine) ELSE TypeWorks(o, machine, ascii[t])

\* Mutant: a text that cannot be delivered is given up.
DeliverOnce(t) ==
  /\ pc[t] = "try"
  /\ IF Delivers(t, out[t], mode[t]) THEN Succeed(t) ELSE Fail(t)
  /\ UNCHANGED <<machine, config, outputter>>

\* Mutant: what is not ASCII goes to the clipboard at once.
DeliverAsciiOnly(t) ==
  /\ pc[t] = "try"
  /\ IF Delivers(t, out[t], mode[t]) /\ (ascii[t] \/ mode[t] = "clipboard")
     THEN Succeed(t)
     ELSE /\ Goto(t, "persist")
          /\ mode' = [mode EXCEPT ![t] = OtherMode(@)]
          /\ UNCHANGED <<role, out, ascii, history>>
  /\ UNCHANGED <<machine, config, outputter>>

\* A failure turns to the other mode (unknown modes type first).
Deliver(t) ==
  /\ pc[t] = "try"
  /\ IF Delivers(t, out[t], mode[t])
     THEN Succeed(t)
     ELSE /\ Goto(t, "persist")
          /\ mode' = [mode EXCEPT ![t] = OtherMode(@)]
          /\ UNCHANGED <<role, out, ascii, history>>
  /\ UNCHANGED <<machine, config, outputter>>

\* fallbackToTyping, fallbackToClipboard: whatever outputter is there now.
Redeliver(t) ==
  /\ pc[t] = "retry"
  /\ IF Delivers(t, outputter, mode[t]) THEN Succeed(t) ELSE Fail(t)
  /\ UNCHANGED <<machine, config, outputter>>

-----------------------------------------------------------------------------
\* Changing the mode: switchOutputMode of a text, SetOutputMethod of a setter.

\* setOutputMode persists the mode and calls SetOutputMethod, which does too.
Choose(s) ==
  /\ Begin(s) /\ Goto(s, "persist") /\ role' = [role EXCEPT ![s] = "setter"]
  /\ \E m \in {"clipboard", "active_window"} : mode' = [mode EXCEPT ![s] = m]
  /\ UNCHANGED <<machine, config, outputter, out, ascii>>

AfterPersist(c) == IF pc[c] = "persist" /\ role[c] = "setter" THEN "persistAgain" ELSE "create"

\* UpdateOutputMode: nothing to save, saved, or the save failed.
UpdateOutputMode(c) ==
  /\ pc[c] \in {"persist", "persistAgain"}
  /\ \/ /\ Goto(c, AfterPersist(c))
        /\ config' = [config EXCEPT !.mode = mode[c]]
        /\ UNCHANGED <<role, out, mode, ascii, history>>
     \/ /\ config.mode # mode[c]
        /\ Leave(c, "failed")
        /\ spoiled' = (spoiled \/ pc[c] = "persistAgain")
        /\ UNCHANGED config
  /\ UNCHANGED <<machine, outputter>>

\* Mutant: the outputter is made before the mode is set.
CreateForOldMode(c) ==
  /\ pc[c] = "create"
  /\ LET made == GetOutputter([config EXCEPT !.mode = OtherMode(@)], machine)
     IN IF made = NoOutputter
        THEN Fail(c)
        ELSE /\ Goto(c, "set") /\ out' = [out EXCEPT ![c] = made]
             /\ UNCHANGED <<role, mode, ascii, history>>
  /\ UNCHANGED <<machine, config, outputter>>

\* GetOutputterFromConfig, with the config of this moment.
CreateOutputter(c) ==
  /\ pc[c] = "create"
  /\ LET made == GetOutputter(config, machine)
     IN IF made = NoOutputter
        THEN Fail(c)
        ELSE /\ Goto(c, "set") /\ out' = [out EXCEPT ![c] = made]
             /\ UNCHANGED <<role, mode, ascii, history>>
  /\ UNCHANGED <<machine, config, outputter>>

SetOutputter(c) ==
  /\ pc[c] = "set"
  /\ outputter' = out[c]
  /\ IF role[c] = "text"
     THEN Goto(c, "retry") /\ UNCHANGED <<role, out, mode, ascii, history>>
     ELSE Succeed(c)
  /\ UNCHANGED <<machine, config>>

\* ResetToDefaults saves the default mode and leaves the outputter alone.
Reset ==
  /\ config' = [config EXCEPT !.mode = "active_window", !.clipboardTool = "auto",
                              !.typeTool = "auto", !.allowed = Tools]
  /\ raced' = raced \cup {c \in Callers : pc[c] \in Active}
  /\ spoiled' = TRUE
  /\ UNCHANGED <<machine, outputter, call, unfit>>

-----------------------------------------------------------------------------
OutputText(c) == TakeOutputter(c) \/ ReadMode(c) \/ Deliver(c) \/ Redeliver(c)
SwitchMode(c) == Choose(c) \/ UpdateOutputMode(c) \/ CreateOutputter(c) \/ SetOutputter(c)

Next == Reset \/ \E c \in Callers : OutputText(c) \/ SwitchMode(c)

Spec == Init /\ [][Next]_vars

-----------------------------------------------------------------------------
\* Properties.

\* At rest the outputter can do what the mode asks for, unless calls
\* overlapped, one failed half-way, or the settings were reset - and the
\* next call that has the place for itself and succeeds puts it right.
FitAtRest == Idle /\ ~spoiled => Serves(outputter, config.mode)

\* OutputText gives up the mode the user chose only because that mode does
\* not deliver on this machine, unless it overlapped another call or did not
\* find the outputter in place.
FallbackIsEarned ==
  \A t \in Callers \ (raced \cup unfit) :
    role[t] = "text" /\ pc[t] = "persist" =>
      ~Delivers(t, GetOutputter(config, machine), config.mode)

\* A text whose change of mode is saved is lost only if neither clipboard
\* nor typing delivers on this machine - with the same exceptions.
LostOnlyIfHopeless ==
  [][\A t \in Callers \ (raced \cup unfit) :
       role[t] = "text" /\ pc[t] \in Active \ {"persist"} /\ pc'[t] = "failed" =>
         /\ ~CopyWorks(CreateClipboardOutputter(config, machine), machine)
         /\ ~TypeWorks(CreateTypeOutputter(config, machine), machine, ascii[t])]_vars
=============================================================================
