------------------------- MODULE ModelSwitch_proofs -------------------------
(***************************************************************************)
(* The properties of ModelSwitch, proved for every set of models and of    *)
(* callers.  One inductive invariant, SwitchInv, has four parts: where the *)
(* calls are (Types, MainInv), what is in the files (FileInv), whose click *)
(* the next one cancels (OwnerInv), and what a switch that has the place   *)
(* for itself has done so far (SettledInv).  MenuInv rests on it: what     *)
(* those have in hand who have yet to paint the menu.                      *)
(***************************************************************************)
EXTENDS ModelSwitch, TLAPS

(***************************************************************************)
(* Calls and files                                                         *)
(***************************************************************************)

SwitchRoles == {"tray", "direct"}
Opening == Resolving \cup {"check", "load", "swap"}
Preparing == {"restore", "restoring", "cross", "begin"}
Marking == {"mark", "marking"}
Reading == {"restoring", "unpainting", "marking", "show", "fill"}

Records ==
  [role : Roles, pc : PCs, model : Models \cup {NoModel}, want : Models \cup {NoModel},
   was : Models \cup {NoModel}, sound : {TRUE},
   rolling : BOOLEAN, cancelled : BOOLEAN, ok : BOOLEAN]

\* What a call has in hand, by its role and its place.
Sensible(r) ==
  /\ r.pc = "idle" <=> r.role = "none"
  /\ r.role = "none" => ~r.rolling /\ ~r.cancelled
  /\ r.role = "tray" => r.pc \in Switching \cup Preparing \cup Marking
  /\ r.role = "direct" => r.pc \in Switching
  /\ r.role = "undo" => r.pc \in {"unpaint", "unpainting"}
  /\ r.role \in {"reset", "other"} => r.pc \in Updating
  /\ r.role \in {"record", "main"} => r.pc \in Resolving \cup {"load"}
  /\ r.role = "delete" => r.pc = "remove"
  /\ r.pc \in Opening \cup {"remove"} => r.model \in Models
  /\ r.role \in SwitchRoles => r.want \in Models
  /\ r.role \in SwitchRoles /\ r.pc \in Opening \cup {"save"} /\ ~r.rolling => r.was \in Models
  /\ r.pc \in Preparing \cup {"save"} => ~r.rolling
  /\ r.pc \in Reading => r.was \in Models
  /\ r.pc \in Marking => ~r.cancelled

\* Nothing that the engine has loaded has anything wrong in it.
Values ==
  /\ FilesTypeOK
  /\ config \in Models /\ trayConfig \in Models
  /\ engine \in [model : Models, sound : {TRUE}]
  /\ downloading \in Models \cup {NoModel} /\ owner \in Callers \cup {NoOne}
  /\ alone \in Callers \cup {NoOne}
  /\ up \in BOOLEAN /\ settled \in BOOLEAN

Types ==
  /\ Values
  /\ call \in [Callers -> Records]
  /\ \A c \in Callers : Sensible(call[c])

\* The main goroutine is alone until the daemon is up, and loads what is
\* configured.
MainInv ==
  /\ ~up => \A c \in Callers : call[c].role \in {"none", "main"}
  /\ \A c, d \in Callers : Is(c, "main") /\ Is(d, "main") => c = d
  /\ \A c \in Callers : Is(c, "main") => ~up /\ call[c].model = config

\* A temporary file that is not sound is being written by the only download of
\* its model, or is about to be dropped.
TmpInv ==
  \A m \in Models : tmp[m].there /\ ~tmp[m].sound =>
    \A c \in Callers :
      call[c].model = m /\ call[c].pc \in {"copy", "stat", "rename"} =>
        At(c, "copy") /\ at[c] = "tmp" /\ tmp[m].writer = c


\* Whatever has a model's name is sound.
WholeFiles == \A m \in Models : dest[m].there => dest[m].sound

FileInv == FilesTypeOK /\ TmpInv /\ WholeFiles

(***************************************************************************)
(* Clicks                                                                  *)
(***************************************************************************)

\* Before it has its result a click can be cancelled, or has been.
Cancellable(c) == Is(c, "tray") /\ call[c].pc \notin Marking

OwnerInv ==
  /\ owner = NoOne <=> downloading = NoModel
  /\ owner # NoOne => /\ Cancellable(owner) /\ ~call[owner].cancelled
                      /\ call[owner].want = downloading
  /\ \A c \in Callers \ {owner} : Cancellable(c) => call[c].cancelled

(***************************************************************************)
(* Switches                                                                *)
(***************************************************************************)

\* The engine is that of the configuration.
Fit == engine.model = config

\* A switch that has the place for itself, place by place.
AloneInv(c) ==
  LET r == call[c]
  IN /\ r.pc \in Preparing /\ settled => Fit
     /\ r.pc \in Opening /\ ~r.rolling => r.was = config /\ r.model = r.want /\ (settled => Fit)
     /\ r.pc \in Opening /\ r.rolling => r.model = config
     /\ r.pc = "save" => engine.model = r.want /\ r.was = config
     /\ r.pc \in Updating => config = r.want /\ engine.model = r.want
     /\ r.pc = "finish" => Fit \/ (~r.ok /\ (settled => r.rolling))

SettledInv ==
  /\ alone # NoOne => InFlight = {alone} /\ call[alone].pc \notin Marking /\ AloneInv(alone)
  /\ settled => /\ \A c \in InFlight : c = alone \/ call[c].pc \in Marking
                /\ alone = NoOne => Fit

(***************************************************************************)
(* Steps of one call                                                       *)
(***************************************************************************)

\* Of the calls only c's changes.
Others(c) == call' \in [Callers -> Records] /\ \A d \in Callers \ {c} : call'[d] = call[d]

\* What a call has besides its place, and but for a cancellation.
Alike(r, s) ==
  /\ s.role = r.role /\ s.model = r.model /\ s.want = r.want /\ s.was = r.was
  /\ s.rolling = r.rolling /\ s.ok = r.ok

Same(r, s) == Alike(r, s) /\ s.cancelled = r.cancelled

\* Goto takes a call to another place.
LEMMA GotoMoves ==
  ASSUME call \in [Callers -> Records], NEW c \in Callers, NEW p \in PCs, Goto(c, p)
  PROVE  Others(c) /\ call'[c].pc = p /\ Same(call[c], call'[c])
BY DEF Goto, Others, Same, Alike, Records

\* Rest takes it out of everything.
LEMMA RestMoves ==
  ASSUME call \in [Callers -> Records], NEW c \in Callers, Rest(c)
  PROVE  /\ Others(c) /\ call'[c] = Resting
         /\ call'[c].role = "none" /\ call'[c].pc = "idle" /\ call'[c].want = NoModel
         /\ ~call'[c].rolling /\ ~call'[c].cancelled /\ ~call'[c].ok
         /\ call'[c].model = NoModel
BY DEF Rest, Others, Records, Resting, Roles, PCs

\* A call gets a new record.
LEMMA ReplaceMoves ==
  ASSUME call \in [Callers -> Records], NEW c \in Callers, NEW r \in Records,
         call' = [call EXCEPT ![c] = r]
  PROVE  Others(c) /\ call'[c] = r
BY DEF Others

\* It goes on with what it has read, or forgets it.
LEMMA ReadMoves ==
  ASSUME call \in [Callers -> Records], NEW c \in Callers, NEW p \in PCs, NEW m \in Models \cup {NoModel},
         call' = [call EXCEPT ![c].pc = p, ![c].was = m]
  PROVE  /\ Others(c) /\ call'[c].pc = p /\ call'[c].was = m
         /\ call'[c].role = call[c].role /\ call'[c].want = call[c].want
         /\ call'[c].rolling = call[c].rolling /\ call'[c].cancelled = call[c].cancelled
<1>. DEFINE r == [call[c] EXCEPT !.pc = p, !.was = m]
<1>1. call[c] \in Records
  OBVIOUS
<1>2. /\ r \in Records /\ r.pc = p /\ r.was = m /\ r.role = call[c].role /\ r.want = call[c].want
      /\ r.rolling = call[c].rolling /\ r.cancelled = call[c].cancelled
  BY <1>1 DEF Records
<1>3. call' = [call EXCEPT ![c] = r]
  OBVIOUS
<1>. HIDE DEF r
<1>. QED
  BY <1>2, <1>3, ReplaceMoves

\* It enters.
LEMMA EnterMoves ==
  ASSUME call \in [Callers -> Records], NEW c \in Callers, NEW role \in Roles, NEW p \in PCs,
         call' = Enter(c, role, p)
  PROVE  /\ Others(c) /\ call'[c].role = role /\ call'[c].pc = p
         /\ call'[c].rolling = call[c].rolling /\ call'[c].cancelled = call[c].cancelled
<1>. DEFINE r == [call[c] EXCEPT !.role = role, !.pc = p]
<1>1. call[c] \in Records
  OBVIOUS
<1>2. /\ r \in Records /\ r.role = role /\ r.pc = p
      /\ r.rolling = call[c].rolling /\ r.cancelled = call[c].cancelled
  BY <1>1 DEF Records
<1>3. call' = [call EXCEPT ![c] = r]
  BY DEF Enter
<1>. HIDE DEF r
<1>. QED
  BY <1>2, <1>3, ReplaceMoves

\* End gives a switch its result.
LEMMA EndMoves ==
  ASSUME call \in [Callers -> Records], NEW c \in Callers, NEW result \in BOOLEAN, End(c, result)
  PROVE  /\ Others(c) /\ call'[c].pc = "finish" /\ call'[c].ok = result
         /\ call'[c].role = call[c].role /\ call'[c].want = call[c].want
         /\ call'[c].rolling = call[c].rolling /\ call'[c].cancelled = call[c].cancelled
         /\ call'[c].model = NoModel
<1>. DEFINE r == [call[c] EXCEPT !.pc = "finish", !.ok = result, !.model = NoModel,
                                 !.was = NoModel, !.sound = TRUE]
<1>1. call[c] \in Records /\ "finish" \in PCs
  BY DEF PCs, Switching
<1>2. /\ r \in Records /\ r.pc = "finish" /\ r.ok = result /\ r.role = call[c].role
      /\ r.want = call[c].want /\ r.rolling = call[c].rolling
      /\ r.cancelled = call[c].cancelled /\ r.model = NoModel
  BY <1>1 DEF Records
<1>3. call' = [call EXCEPT ![c] = r]
  BY DEF End
<1>. QED
  BY <1>2, <1>3 DEF Others

\* A step of resolving a model: on to the next place, or to an end.
Onward(c) ==
  /\ call[c].pc \in Resolving
  /\ \/ \E p \in Resolving \cup {"load"} : Goto(c, p)
     \/ Switcher(c) /\ End(c, FALSE)
     \/ ~Switcher(c) /\ Rest(c)

\* Each step of resolveModel is one of these, and leaves what is configured.
LEMMA ResolveIsOnward ==
  ASSUME NEW c \in Callers, Resolve(c)
  PROVE  Onward(c) /\ UNCHANGED <<up, config, engine, recording, tray, history, overlap>>
BY DEF Resolve, Onward, Resolving, At, Keep, Fail, FindModel, NeedModel, RequestFails, Create,
       Copied, NotCopied, Stat, Rename, NotRenamed, Drop, Valid, Invalid, Switcher

\* Records that are right for their place stay so when only one of them changes.
LEMMA OneIsSensible ==
  ASSUME Types, NEW c \in Callers, Others(c), Sensible(call'[c])
  PROVE  \A d \in Callers : Sensible(call'[d])
BY DEF Types, Others

\* Where such a step leads, and what the call still has.
LEMMA OnwardIsSensible ==
  ASSUME Types, NEW c \in Callers, Onward(c)
  PROVE  /\ Others(c) /\ Sensible(call'[c])
         /\ call'[c].role = "none" \/ call'[c].role = call[c].role
         /\ call'[c].role # "none" =>
              /\ call'[c].want = call[c].want /\ call'[c].cancelled = call[c].cancelled
              /\ call'[c].rolling = call[c].rolling
         /\ Switcher(c) => call'[c].role = call[c].role
         /\ \/ Same(call[c], call'[c]) /\ call'[c].pc \in Resolving \cup {"load"}
            \/ call'[c].pc = "finish" /\ ~call'[c].ok /\ Switcher(c)
            \/ call'[c].role = "none" /\ ~Switcher(c)
<1>1. call \in [Callers -> Records] /\ Sensible(call[c]) /\ call[c].pc \in Resolving
  BY DEF Types, Onward
<1>2. ASSUME NEW p \in Resolving \cup {"load"}, Goto(c, p)
      PROVE  Others(c) /\ Same(call[c], call'[c]) /\ call'[c].pc = p /\ Sensible(call'[c])
  <2>1. p \in PCs
    BY DEF PCs, Switching
  <2>2. Others(c) /\ call'[c].pc = p /\ Same(call[c], call'[c])
    BY <1>1, <1>2, <2>1, GotoMoves
  <2>. QED
    BY <1>1, <2>2 DEF Sensible, Same, Alike, Opening, Resolving, Switching, Updating, Preparing, Marking, Reading, SwitchRoles
<1>3. ASSUME Switcher(c), End(c, FALSE)
      PROVE  /\ Others(c) /\ Sensible(call'[c]) /\ call'[c].pc = "finish" /\ ~call'[c].ok
             /\ call'[c].role = call[c].role /\ call'[c].want = call[c].want
             /\ call'[c].rolling = call[c].rolling /\ call'[c].cancelled = call[c].cancelled
  <2>1. /\ Others(c) /\ call'[c].pc = "finish" /\ call'[c].ok = FALSE
        /\ call'[c].role = call[c].role /\ call'[c].want = call[c].want
        /\ call'[c].rolling = call[c].rolling /\ call'[c].cancelled = call[c].cancelled
    BY <1>1, <1>3, EndMoves
  <2>. QED
    BY <1>1, <1>3, <2>1 DEF Sensible, Opening, Resolving, Switching, Updating, Preparing, Marking, Reading, SwitchRoles, Switcher, Is
<1>4. ASSUME ~Switcher(c), Rest(c)
      PROVE  Others(c) /\ Sensible(call'[c]) /\ call'[c].role = "none"
  <2>1. /\ Others(c) /\ call'[c].role = "none" /\ call'[c].pc = "idle"
        /\ ~call'[c].rolling /\ ~call'[c].cancelled
    BY <1>1, <1>4, RestMoves
  <2>. QED
    BY <2>1 DEF Sensible, Opening, Resolving, Switching, Updating, Preparing, Marking, Reading, SwitchRoles
<1>. QED
  BY <1>1, <1>2, <1>3, <1>4 DEF Onward, Same, Alike, Switcher, Is

\* What a step of c has to respect, part by part of the invariant.
LEMMA TypesStay ==
  ASSUME Types, NEW c \in Callers, Others(c), Sensible(call'[c]), Values'
  PROVE  Types'
BY OneIsSensible DEF Types, Others

\* While the daemon is up there is no main goroutine to look after.
LEMMA MainStays ==
  ASSUME MainInv, up, up', NEW c \in Callers, Others(c), call'[c].role # "main"
  PROVE  MainInv'
BY DEF MainInv, Others, Is

\* A switch only runs in a daemon that is up.
LEMMA SwitchersAreUp ==
  ASSUME Types, MainInv, NEW c \in Callers, Switcher(c)
  PROVE  up
BY DEF MainInv, Types, Switcher, Is

\* The click that the next one cancels stays that, if c keeps to what it had.
LEMMA OwnerStays ==
  ASSUME Types, OwnerInv, NEW c \in Callers, Others(c), UNCHANGED <<downloading, owner>>,
         Cancellable(c)' => Cancellable(c) /\ call'[c].cancelled = call[c].cancelled,
         owner = c => /\ Cancellable(c)' /\ call'[c].want = call[c].want
                      /\ call'[c].cancelled = call[c].cancelled
  PROVE  OwnerInv'
<1>1. /\ owner \in Callers \cup {NoOne} /\ UNCHANGED <<downloading, owner>>
      /\ \A d \in Callers \ {c} : Cancellable(d)' <=> Cancellable(d)
      /\ \A d \in Callers \ {c} : call'[d] = call[d]
  BY DEF Types, Values, Cancellable, Others, Is
<1>. QED
  BY <1>1, NoOneIsNoCaller DEF OwnerInv

\* What a call that has the place for itself has, does not depend on the others.
LEMMA AloneStays ==
  ASSUME NEW d \in Callers, AloneInv(d), call'[d] = call[d], UNCHANGED <<config, engine, settled>>
  PROVE  AloneInv(d)'
BY DEF AloneInv, Fit

\* Steps of a call that is not in flight, and that leave engine, configuration
\* and choices alone.
LEMMA SettledBeside ==
  ASSUME SettledInv, NEW c \in Callers, Others(c), c \notin InFlight, c \notin InFlight',
         UNCHANGED <<config, engine, history>>
  PROVE  SettledInv'
<1>1. InFlight' = InFlight
  BY DEF InFlight, Others, Switcher, Is
<1>3. ASSUME alone # NoOne
      PROVE  InFlight' = {alone'} /\ call'[alone].pc \notin Marking /\ AloneInv(alone)'
  <2>1. InFlight = {alone} /\ call[alone].pc \notin Marking /\ AloneInv(alone)
    BY <1>3 DEF SettledInv
  <2>2. alone \in Callers \ {c} /\ alone' = alone
    BY <2>1 DEF InFlight, history
  <2>3. call'[alone] = call[alone]
    BY <2>2 DEF Others
  <2>4. AloneInv(alone)'
    BY <2>1, <2>2, <2>3, AloneStays DEF history
  <2>. QED
    BY <1>1, <2>1, <2>2, <2>3, <2>4
<1>4. \A d \in InFlight : d \in Callers \ {c} /\ call'[d] = call[d]
  BY DEF InFlight, Others
<1>. QED
  BY <1>1, <1>3, <1>4 DEF SettledInv, history, Fit

\* Steps of a switch that goes on: only when it has the place for itself is
\* there something to know about it.
LEMMA SettledOnward ==
  ASSUME SettledInv, NEW c \in Callers, Others(c), c \in InFlight, c \in InFlight',
         call[c].pc \notin Marking, call'[c].pc \notin Marking, UNCHANGED history,
         alone = c => AloneInv(c)'
  PROVE  SettledInv'
<1>1. InFlight' = InFlight
  BY DEF InFlight, Others, Switcher, Is
<1>2. alone # c => alone = NoOne /\ ~settled
  BY DEF SettledInv
<1>. QED
  BY <1>1, <1>2, NoOneIsNoCaller DEF SettledInv, history

(***************************************************************************)
(* A switch on its way                                                     *)
(***************************************************************************)

CallInv == Types /\ MainInv /\ OwnerInv /\ SettledInv

\* Such a file is what an engine is loaded from.
LEMMA WholeIsLoaded ==
  ASSUME WholeFiles, Types, NEW m \in Models, FileOf(m).there
  PROVE  FileOf(m).sound = TRUE
BY DEF WholeFiles, FileOf, WholeFile, Missing, Types, Values, FilesTypeOK, Content

\* What c's own step has to leave as it is, for the step to keep CallInv.
GoesOn(c) ==
  /\ Others(c) /\ Sensible(call'[c])
  /\ call'[c].role = call[c].role /\ call'[c].want = call[c].want
  /\ call'[c].cancelled = call[c].cancelled
  /\ call'[c].pc \notin Marking
  /\ UNCHANGED <<up, downloading, owner, history>>

\* Who is at one of these places runs a switch.
LEMMA OnlySwitchersAreThere ==
  ASSUME Types, NEW c \in Callers,
         call[c].pc \in Preparing \cup {"check", "swap", "save", "finish"} \cup Marking
  PROVE  Switcher(c)
BY DEF Types, Sensible, Records, Roles, Resolving, Updating, Preparing, Marking, Switcher, Is

\* A switch that goes on has to show only what it has when it is alone.
LEMMA GoingOnKeeps ==
  ASSUME CallInv, NEW c \in Callers, Switcher(c), call[c].pc \notin Marking,
         GoesOn(c), Values', alone = c => AloneInv(c)'
  PROVE  CallInv'
<1>. USE DEF CallInv
<1>1. Types'
  BY TypesStay DEF GoesOn
<1>2. MainInv'
  BY SwitchersAreUp, MainStays DEF GoesOn, Switcher, Is
<1>3. OwnerInv'
  BY OwnerStays, NoOneIsNoCaller DEF GoesOn, OwnerInv, Cancellable, Is
<1>4. SettledInv'
  BY SettledOnward DEF GoesOn, InFlight, Switcher, Is
<1>. QED
  BY <1>1, <1>2, <1>3, <1>4

\* Resolving a model changes nothing that a switch is judged by.
LEMMA AloneOnward ==
  ASSUME Types, SettledInv, NEW c \in Callers, alone = c, Onward(c), Switcher(c),
         UNCHANGED <<config, engine, history>>
  PROVE  AloneInv(c)'
<1>1. /\ Others(c) /\ AloneInv(c) /\ call[c].pc \in Resolving
      /\ call'[c].want = call[c].want /\ call'[c].rolling = call[c].rolling
      /\ \/ Same(call[c], call'[c]) /\ call'[c].pc \in Resolving \cup {"load"}
         \/ call'[c].pc = "finish" /\ ~call'[c].ok
  BY OnwardIsSensible, NoOneIsNoCaller DEF SettledInv, Onward, Switcher, Is
<1>2. call[c] \in Records /\ call'[c] \in Records
  BY <1>1 DEF Types, Others
<1>. QED
  BY <1>1, <1>2 DEF AloneInv, Fit, Opening, Preparing, Updating, Resolving, Same, Alike, history, Records

\* Values that do not change keep their types.
LEMMA ValuesStay ==
  ASSUME Values, UNCHANGED <<files, up, config, engine, downloading, owner, trayConfig, history>>
  PROVE  Values'
BY DEF Values, FilesTypeOK, files, history

\* Each step of ServiceContainer.SwitchModel and AudioService.SwitchModel
\* outside the download.
LEMMA SwitchStepKeeps ==
  ASSUME CallInv, WholeFiles, NEW c \in Callers, SwitchStep(c), Switcher(c)
  PROVE  CallInv'
<1>. USE DEF Opening, Resolving, Switching, Updating, Preparing, Marking, Reading, SwitchRoles
<1>. DEFINE r == call[c]
            s == call'[c]
<1>1. /\ call \in [Callers -> Records] /\ r \in Records /\ Sensible(r) /\ Values
      /\ alone = c => AloneInv(c)
  BY NoOneIsNoCaller DEF CallInv, Types, SettledInv
<1>2. Switcher(c)
  OBVIOUS
<1>3. \A result \in BOOLEAN : End(c, result) =>
        /\ Others(c) /\ s \in Records /\ s.pc = "finish" /\ s.ok = result
        /\ s.role = r.role /\ s.want = r.want /\ s.cancelled = r.cancelled
        /\ s.rolling = r.rolling /\ s.model = NoModel
  BY <1>1, EndMoves DEF Others
<1>4. \A p \in PCs : Goto(c, p) => Others(c) /\ s \in Records /\ s.pc = p /\ Same(r, s)
  BY <1>1, GotoMoves DEF Others
<1>5. ASSUME Others(c), s.pc = "finish", ~s.ok, s.role = r.role, s.want = r.want,
             s.cancelled = r.cancelled, s.rolling = r.rolling,
             r.pc \in Opening, Switcher(c),
             UNCHANGED <<files, up, config, engine, tray, history>>
      PROVE  CallInv'
  <2>1. GoesOn(c)
    BY <1>1, <1>5 DEF GoesOn, Sensible, Others, Switcher, Is, tray
  <2>2. Values'
    BY <1>1, <1>5, ValuesStay DEF tray
  <2>4. s \in Records
    BY <1>5 DEF Others
  <2>5. alone = c => AloneInv(c)'
    BY <1>1, <1>5, <2>4 DEF AloneInv, Fit, Records, tray, history
  <2>. QED
    BY <1>5, <2>1, <2>2, <2>5, GoingOnKeeps
<1>7. CASE BeginSwitch(c)
  <2>1. /\ r.pc = "begin" /\ Others(c) /\ s \in Records /\ s.pc = "check" /\ s.role = r.role
        /\ s.want = r.want /\ s.model = r.want /\ s.was = config /\ s.cancelled = r.cancelled
        /\ s.rolling = r.rolling
        /\ UNCHANGED <<files, up, config, engine, tray, history>>
    <3>1. "check" \in PCs /\ r.want \in Models \cup {NoModel} /\ config \in Models \cup {NoModel}
      BY <1>1 DEF PCs, Values, Records
    <3>. QED
      BY <1>1, <1>7, <3>1 DEF BeginSwitch, At, Others, Records
  <2>2. Switcher(c) /\ r.want \in Models /\ ~r.rolling
    BY <1>1, <1>2, <2>1 DEF Sensible, Switcher, Is
  <2>3. GoesOn(c)
    BY <1>1, <2>1, <2>2 DEF GoesOn, Sensible, Switching, SwitchRoles, Switcher, Is, tray, Values
  <2>4. alone = c => AloneInv(c)'
    BY <1>1, <2>1, <2>2 DEF AloneInv, Fit, tray, history
  <2>. QED
    BY <1>1, <1>2, <2>1, <2>3, <2>4, ValuesStay, GoingOnKeeps DEF tray
<1>8. CASE Check(c)
  <2>1. r.pc = "check" /\ UNCHANGED <<files, up, config, engine, tray, history>>
    BY <1>8 DEF Check, At
  <2>2. CASE End(c, FALSE)
    BY <1>2, <1>3, <1>5, <2>1, <2>2
  <2>3. CASE Goto(c, "resolve")
    <3>1. Others(c) /\ s.pc = "resolve" /\ Same(r, s)
      BY <1>4, <2>3 DEF PCs, Switching, Resolving
    <3>2. GoesOn(c)
      BY <1>1, <2>1, <3>1, <1>2
         DEF GoesOn, Same, Alike, Sensible, Switcher, Is, tray
    <3>3. alone = c => AloneInv(c)'
      BY <1>1, <2>1, <3>1 DEF AloneInv, Same, Alike, Fit, tray, history
    <3>. QED
      BY <1>1, <1>2, <2>1, <3>2, <3>3, ValuesStay, GoingOnKeeps DEF tray
  <2>. QED
    BY <1>8, <2>2, <2>3 DEF Check
<1>9. CASE Load(c)
  <2>1. /\ r.pc = "load" /\ Switcher(c) /\ UNCHANGED <<files, up, config, engine, tray, history>>
        /\ r.model \in Models /\ FileOf(r.model).sound = TRUE
    <3>1. /\ r.pc = "load" /\ Switcher(c) /\ UNCHANGED <<files, up, config, engine, tray, history>>
          /\ FileOf(r.model).there
      BY <1>9 DEF Load, At
    <3>2. r.model \in Models
      BY <1>1, <3>1 DEF Sensible
    <3>. QED
      BY <3>1, <3>2, WholeIsLoaded DEF CallInv
  <2>2. Others(c) /\ s \in Records /\ s.pc = "swap" /\ Same(r, s)
    BY <1>1, <1>9, <2>1 DEF Load, Others, Same, Alike, Records, PCs
  <2>3. GoesOn(c)
    BY <1>1, <2>1, <2>2
         DEF GoesOn, Same, Alike, Sensible, Switcher, Is, tray
  <2>4. alone = c => AloneInv(c)'
    BY <1>1, <2>1, <2>2 DEF AloneInv, Same, Alike, Fit, tray, history
  <2>. QED
    BY <1>1, <1>2, <2>1, <2>3, <2>4, ValuesStay, GoingOnKeeps DEF tray
<1>10. CASE LoadFails(c)
  BY <1>3, <1>5, <1>10 DEF LoadFails, At
<1>11. CASE Swap(c)
  <2>1. r.pc = "swap" /\ UNCHANGED <<files, up, config, tray, history>>
    BY <1>11 DEF Swap, At
  <2>2. CASE recording
    BY <1>2, <1>3, <1>5, <1>11, <2>1, <2>2 DEF Swap
  <2>3. CASE ~recording
    <3>1. engine' = [model |-> r.model, sound |-> r.sound] /\ r.model \in Models /\ r.sound = TRUE
      BY <1>1, <1>11, <2>1, <2>3 DEF Swap, Sensible, Records
    <3>2. Values'
      BY <1>1, <2>1, <3>1 DEF Values, FilesTypeOK, files, tray, history
    <3>3. CASE r.rolling
      <4>1. /\ Others(c) /\ s \in Records /\ s.pc = "finish" /\ ~s.ok
            /\ s.role = r.role /\ s.want = r.want /\ s.cancelled = r.cancelled /\ s.rolling
        BY <1>3, <1>11, <2>3, <3>3 DEF Swap
      <4>2. GoesOn(c)
        BY <1>1, <1>2, <2>1, <4>1
             DEF GoesOn, Sensible, Switcher, Is, tray
      <4>3. alone = c => AloneInv(c)'
        BY <1>1, <2>1, <3>3, <4>1 DEF AloneInv, Fit, tray, history
      <4>. QED
        BY <1>2, <2>1, <3>2, <4>2, <4>3, GoingOnKeeps DEF tray
    <3>4. CASE ~r.rolling
      <4>1. Others(c) /\ s \in Records /\ s.pc = "save" /\ Same(r, s)
        BY <1>4, <1>11, <2>3, <3>4 DEF Swap, PCs
      <4>2. GoesOn(c)
        BY <1>1, <1>2, <2>1, <3>4, <4>1
         DEF GoesOn, Same, Alike, Sensible, Switcher, Is, tray
      <4>3. engine.model' = r.model
        BY <3>1
      <4>4. alone = c => AloneInv(c)'
        BY <1>1, <2>1, <3>4, <4>1, <4>3 DEF AloneInv, Same, Alike, Fit, tray, history
      <4>. QED
        BY <1>2, <2>1, <3>2, <4>2, <4>4, GoingOnKeeps DEF tray
    <3>. QED
      BY <3>3, <3>4
  <2>. QED
    BY <2>2, <2>3
<1>12. CASE Save(c)
  <2>1. r.pc = "save" /\ config' = r.want /\ UNCHANGED <<files, up, engine, tray, history>>
    BY <1>12 DEF Save, At
  <2>2. Others(c) /\ s.pc = "refresh" /\ Same(r, s)
    BY <1>4, <1>12 DEF Save, PCs
  <2>3. Switcher(c) /\ r.want \in Models
    BY <1>1, <1>2, <2>1 DEF Sensible, Switcher, Is
  <2>4. Values'
    BY <1>1, <2>1, <2>3 DEF Values, FilesTypeOK, files, tray, history
  <2>5. GoesOn(c)
    BY <1>1, <2>1, <2>2, <2>3
         DEF GoesOn, Same, Alike, Sensible, Switcher, Is, tray
  <2>6. alone = c => AloneInv(c)'
    BY <1>1, <2>1, <2>2 DEF AloneInv, Same, Alike, Fit, tray, history
  <2>. QED
    BY <1>2, <2>1, <2>4, <2>5, <2>6, GoingOnKeeps DEF tray
<1>13. CASE SaveFails(c)
  <2>1. r.pc = "save" /\ UNCHANGED <<files, up, config, engine, tray, history>>
    BY <1>13 DEF SaveFails, At
  <2>2. Switcher(c) /\ r.was \in Models
    BY <1>1, <1>2, <2>1 DEF Sensible, Switcher, Is
  <2>3. /\ Others(c) /\ s \in Records /\ s.pc = "check" /\ s.role = r.role /\ s.want = r.want
        /\ s.model = r.was /\ s.cancelled = r.cancelled /\ s.rolling
    BY <1>1, <1>13, <2>2 DEF SaveFails, Others, Records, PCs
  <2>4. GoesOn(c)
    BY <1>1, <2>1, <2>2, <2>3
         DEF GoesOn, Sensible, Switcher, Is, tray
  <2>5. alone = c => AloneInv(c)'
    BY <1>1, <2>1, <2>3 DEF AloneInv, Fit, tray, history
  <2>. QED
    BY <1>1, <1>2, <2>1, <2>4, <2>5, ValuesStay, GoingOnKeeps DEF tray
<1>14. CASE Refresh(c)
  <2>1. r.pc = "refresh" /\ UNCHANGED <<files, up, config, engine, tray, history>>
    BY <1>14 DEF Refresh, At
  <2>2. /\ Others(c) /\ s \in Records /\ s.pc = "show" /\ s.role = r.role /\ s.want = r.want
        /\ s.was = config /\ s.cancelled = r.cancelled
    BY <1>1, <1>14 DEF Refresh, Others, Records, PCs, Values
  <2>3. GoesOn(c)
    BY <1>1, <1>2, <2>1, <2>2
         DEF GoesOn, Sensible, Switcher, Is, tray, Values
  <2>4. alone = c => AloneInv(c)'
    BY <1>1, <2>1, <2>2 DEF AloneInv, Fit, tray, history
  <2>. QED
    BY <1>1, <1>2, <2>1, <2>3, <2>4, ValuesStay, GoingOnKeeps DEF tray
<1>15. CASE Show(c)
  <2>1. /\ r.pc = "show" /\ trayConfig' = r.was
        /\ UNCHANGED <<files, up, config, engine, downloading, owner, history>>
    BY <1>15 DEF Show, At
  <2>2. Others(c) /\ s.pc = "fill" /\ Same(r, s)
    BY <1>4, <1>15 DEF Show, PCs
  <2>3. r.was \in Models
    BY <1>1, <2>1 DEF Sensible
  <2>4. Values'
    BY <1>1, <2>1, <2>3 DEF Values, FilesTypeOK, files, history
  <2>5. GoesOn(c)
    BY <1>1, <1>2, <2>1, <2>2, <2>3
         DEF GoesOn, Same, Alike, Sensible
  <2>6. alone = c => AloneInv(c)'
    BY <1>1, <2>1, <2>2 DEF AloneInv, Same, Alike, Fit, history
  <2>. QED
    BY <1>2, <2>1, <2>4, <2>5, <2>6, GoingOnKeeps
<1>16. CASE Fill(c)
  <2>1. /\ r.pc = "fill" /\ End(c, TRUE)
        /\ UNCHANGED <<files, up, config, engine, downloading, owner, trayConfig, history>>
    BY <1>2, <1>16 DEF Fill, At, Switcher, Is
  <2>2. /\ Others(c) /\ s.pc = "finish" /\ s.ok /\ s.role = r.role /\ s.want = r.want
        /\ s.cancelled = r.cancelled /\ s.rolling = r.rolling
    BY <1>3, <2>1
  <2>3. GoesOn(c)
    BY <1>1, <1>2, <2>1, <2>2 DEF GoesOn, Sensible, Switcher, Is
  <2>4. alone = c => AloneInv(c)'
    BY <1>1, <2>1, <2>2 DEF AloneInv, Fit, history
  <2>. QED
    BY <1>1, <1>2, <2>1, <2>3, <2>4, ValuesStay, GoingOnKeeps
<1>. QED
  BY <1>7, <1>8, <1>9, <1>10, <1>11, <1>12, <1>13, <1>14, <1>15, <1>16 DEF SwitchStep

(***************************************************************************)
(* Resolving a model                                                       *)
(***************************************************************************)

\* The calls and what is configured, while a model is resolved: for a switch,
\* for a recording, or by the main goroutine.
LEMMA ResolveKeeps ==
  ASSUME CallInv, NEW c \in Callers, Resolve(c), FilesTypeOK'
  PROVE  CallInv'
<1>. DEFINE r == call[c]
            s == call'[c]
<1>1. Onward(c) /\ UNCHANGED <<up, config, engine, recording, tray, history>>
  BY ResolveIsOnward
<1>2. /\ Others(c) /\ Sensible(s) /\ r.pc \in Resolving /\ (s.role = "none" \/ s.role = r.role)
      /\ s.role # "none" => s.want = r.want /\ s.cancelled = r.cancelled
      /\ \/ Same(r, s) /\ s.pc \in Resolving \cup {"load"}
         \/ s.pc = "finish" /\ Switcher(c) /\ s.role = r.role
         \/ s.role = "none" /\ ~Switcher(c)
  BY <1>1, OnwardIsSensible DEF CallInv, Onward
<1>3. Values'
  BY <1>1 DEF CallInv, Types, Values, tray, history
<1>4. CASE Switcher(c)
  <2>1. GoesOn(c)
    BY <1>1, <1>2, <1>4 DEF GoesOn, Switcher, Is, Same, Alike, Resolving, Marking, tray
  <2>2. r.pc \notin Marking
    BY <1>2 DEF Resolving, Marking
  <2>3. alone = c => AloneInv(c)'
    BY <1>1, <1>4, AloneOnward DEF CallInv, tray
  <2>. QED
    BY <1>3, <1>4, <2>1, <2>2, <2>3, GoingOnKeeps
<1>5. CASE ~Switcher(c)
  <2>1. Types'
    BY <1>2, <1>3, TypesStay DEF CallInv
  <2>2. MainInv'
    <3>1. s.role = "none" \/ (s.role = r.role /\ s.model = r.model)
      BY <1>2, <1>5 DEF Same, Alike
    <3>. QED
      BY <1>1, <1>2, <3>1 DEF CallInv, MainInv, Others, Is
  <2>3. OwnerInv'
    BY <1>1, <1>2, <1>5, OwnerStays, NoOneIsNoCaller
       DEF CallInv, OwnerInv, Cancellable, Switcher, Is, tray
  <2>4. SettledInv'
    BY <1>1, <1>2, <1>5, SettledBeside DEF CallInv, InFlight, Switcher, Is
  <2>. QED
    BY <2>1, <2>2, <2>3, <2>4 DEF CallInv
<1>. QED
  BY <1>4, <1>5

(***************************************************************************)
(* The files                                                               *)
(***************************************************************************)

\* The calls that write a temporary file, or give it the model's name.
Writing(c, m) == call[c].model = m /\ call[c].pc \in {"copy", "stat", "rename"}

\* Where c may go without a change of the files.
LEMMA FilesStay ==
  ASSUME FileInv, NEW c \in Callers, UNCHANGED files,
         \A d \in Callers \ {c} : call'[d].model = call[d].model /\ call'[d].pc = call[d].pc,
         \A m \in Models : Writing(c, m)' => Writing(c, m) /\ ~At(c, "copy")
  PROVE  FileInv'
BY DEF FileInv, FilesTypeOK, TmpInv, WholeFiles, files, Writing, At

\* A sound file stays sound when a writer ends, and so does one that the last
\* to truncate it has written.
LEMMA EndsSound ==
  ASSUME NEW file \in Content, NEW c \in Callers
  PROVE  /\ Written(file, c) \in Content /\ Abandoned(file, c) \in Content
         /\ Written(file, c).there = file.there /\ Abandoned(file, c).there = file.there
         /\ Written(file, c).sound = (file.sound \/ file.writer = c)
         /\ Abandoned(file, c).sound = file.sound
         /\ file.writer # c => /\ Written(file, c).writer = file.writer
                              /\ Abandoned(file, c).writer = file.writer
BY DEF Written, Abandoned, Content

\* There is nothing in a missing file.
LEMMA MissingIsContent == Missing \in Content /\ Missing.there = FALSE
BY DEF Missing, Content

\* A writer that has ended its copy, or given it up.
LEMMA CopyKeepsFiles ==
  ASSUME Types, FileInv, NEW c \in Callers, Copied(c) \/ NotCopied(c)
  PROVE  FileInv'
<1>. DEFINE n == call[c].model
<1>1. /\ n \in Models /\ call[c].pc = "copy" /\ FilesTypeOK /\ tmp[n] \in Content /\ dest[n] \in Content
  BY DEF Types, Values, Sensible, Opening, Resolving, Copied, NotCopied, At, FilesTypeOK
<1>2. /\ at' = [at EXCEPT ![c] = "gone"] /\ Others(c)
      /\ \/ Copied(c) /\ call'[c].pc = "stat" /\ call'[c].model = n
         \/ NotCopied(c) /\ call'[c].pc = "drop"
  <2>1. "stat" \in PCs /\ "drop" \in PCs
    BY DEF PCs, Switching, Resolving
  <2>. QED
    BY <1>1, <2>1, GotoMoves DEF Types, Copied, NotCopied, CopyEnds, CopyFails, Same, Alike
<1>3. PICK f \in Content, g \in Content :
        /\ tmp' = [tmp EXCEPT ![n] = f] /\ dest' = [dest EXCEPT ![n] = g]
        /\ dest[n].there /\ dest[n].sound => g.sound
        /\ g.there => dest[n].there
        /\ f.there => tmp[n].there
        /\ tmp[n].sound => f.sound
        /\ at[c] = "tmp" /\ call'[c].pc # "drop" /\ tmp[n].writer = c => f.sound
        /\ at[c] # "tmp" => f = tmp[n]
        /\ f.sound \/ tmp[n].writer = c \/ f.writer = tmp[n].writer
  <2>. USE <1>1
  <2>1. CASE Copied(c)
    <3>. DEFINE f == IF at[c] = "tmp" THEN Written(tmp[n], c) ELSE tmp[n]
                g == IF at[c] = "dest" THEN Written(dest[n], c) ELSE dest[n]
    <3>1. /\ tmp' = IF at[c] = "tmp" THEN [tmp EXCEPT ![n] = Written(@, c)] ELSE tmp
          /\ dest' = IF at[c] = "dest" THEN [dest EXCEPT ![n] = Written(@, c)] ELSE dest
      BY <2>1 DEF Copied, CopyEnds
    <3>2. tmp' = [tmp EXCEPT ![n] = f] /\ dest' = [dest EXCEPT ![n] = g]
      BY <3>1 DEF FilesTypeOK
    <3>3. /\ f \in Content /\ g \in Content
          /\ dest[n].there /\ dest[n].sound => g.sound
          /\ g.there => dest[n].there
          /\ f.there => tmp[n].there
          /\ tmp[n].sound => f.sound
          /\ at[c] = "tmp" /\ call'[c].pc # "drop" /\ tmp[n].writer = c => f.sound
          /\ at[c] # "tmp" => f = tmp[n]
          /\ f.sound \/ tmp[n].writer = c \/ f.writer = tmp[n].writer
      <4>1. \A file \in {tmp[n], dest[n]} :
              /\ Written(file, c) \in Content /\ Written(file, c).there = file.there
              /\ Written(file, c).sound = (file.sound \/ file.writer = c)
              /\ file.writer # c => Written(file, c).writer = file.writer
        BY EndsSound
      <4>2. CASE at[c] = "tmp"
        BY <4>1, <4>2
      <4>3. CASE at[c] = "dest"
        BY <4>1, <4>3
      <4>4. CASE at[c] \notin {"tmp", "dest"}
        BY <4>4
      <4>. QED
        BY <4>2, <4>3, <4>4
    <3>. QED
      BY <3>2, <3>3
  <2>2. CASE NotCopied(c) /\ call'[c].pc = "drop"
    <3>. DEFINE f == IF at[c] = "tmp" THEN Abandoned(tmp[n], c) ELSE tmp[n]
                g == IF at[c] = "dest" THEN Abandoned(dest[n], c) ELSE dest[n]
    <3>1. /\ tmp' = IF at[c] = "tmp" THEN [tmp EXCEPT ![n] = Abandoned(@, c)] ELSE tmp
          /\ dest' = IF at[c] = "dest" THEN [dest EXCEPT ![n] = Abandoned(@, c)] ELSE dest
      BY <2>2 DEF NotCopied, CopyFails
    <3>2. tmp' = [tmp EXCEPT ![n] = f] /\ dest' = [dest EXCEPT ![n] = g]
      BY <3>1 DEF FilesTypeOK
    <3>3. /\ f \in Content /\ g \in Content
          /\ dest[n].there /\ dest[n].sound => g.sound
          /\ g.there => dest[n].there
          /\ f.there => tmp[n].there
          /\ tmp[n].sound => f.sound
          /\ at[c] = "tmp" /\ call'[c].pc # "drop" /\ tmp[n].writer = c => f.sound
          /\ at[c] # "tmp" => f = tmp[n]
          /\ f.sound \/ tmp[n].writer = c \/ f.writer = tmp[n].writer
      BY EndsSound, <2>2
    <3>. QED
      BY <3>2, <3>3
  <2>. QED
    BY <1>2, <2>1, <2>2
<1>4. FilesTypeOK'
  BY <1>1, <1>3, <1>2 DEF FilesTypeOK
<1>5. WholeFiles'
  BY <1>1, <1>3 DEF WholeFiles, FilesTypeOK, FileInv
<1>6. TmpInv'
  <2>. SUFFICES ASSUME NEW m \in Models, tmp'[m].there, ~tmp'[m].sound,
                       NEW d \in Callers, Writing(d, m)'
                PROVE  call'[d].pc = "copy" /\ at'[d] = "tmp" /\ tmp'[m].writer = d
    BY DEF TmpInv, Writing, At
  <2>1. tmp[m].there /\ ~tmp[m].sound
    BY <1>1, <1>3 DEF FilesTypeOK
  <2>2. \A e \in Callers : Writing(e, m) => At(e, "copy") /\ at[e] = "tmp" /\ tmp[m].writer = e
    BY <2>1 DEF FileInv, TmpInv, Writing
  <2>3. CASE d = c
    <3>1. call'[c].pc # "drop" /\ m = n /\ Writing(c, m)
      BY <1>1, <1>2, <2>3 DEF Writing
    <3>. QED
      BY <1>1, <1>3, <2>2, <3>1 DEF FilesTypeOK
  <2>4. CASE d # c
    <3>1. call'[d] = call[d] /\ Writing(d, m)
      BY <1>2, <2>4 DEF Others, Writing
    <3>2. tmp[m].writer = d /\ At(d, "copy") /\ at[d] = "tmp" /\ m # n
      BY <1>1, <2>2, <2>4, <3>1 DEF Writing
    <3>. QED
      BY <1>1, <1>3, <1>2, <2>4, <3>1, <3>2 DEF FilesTypeOK, At
  <2>. QED
    BY <2>3, <2>4
<1>. QED
  BY <1>4, <1>5, <1>6 DEF FileInv

\* os.Create: the new file is not sound only if no other download of the model
\* is on its way.
LEMMA CreateKeepsFiles ==
  ASSUME Types, FileInv, NEW c \in Callers, Create(c)
  PROVE  FileInv'
<1>. DEFINE n == call[c].model
            f == [Missing EXCEPT !.there = TRUE, !.writer = c, !.sound = OtherDownloads(c) # {}]
<1>1. n \in Models /\ call[c].pc = "request" /\ FilesTypeOK
  BY DEF Types, Values, Sensible, Opening, Resolving, Create, At
<1>2. f \in Content /\ f.writer = c /\ f.sound = (OtherDownloads(c) # {})
  BY DEF Missing, Content
<1>3. /\ tmp' = [tmp EXCEPT ![n] = f] /\ at' = [at EXCEPT ![c] = "tmp"] /\ dest' = dest
      /\ Others(c) /\ call'[c].pc = "copy" /\ call'[c].model = n
  BY GotoMoves DEF Types, Create, CreateTmp, PCs, Switching, Resolving, Same, Alike
<1>. HIDE DEF f
<1>4. FilesTypeOK' /\ WholeFiles'
  BY <1>1, <1>2, <1>3 DEF FilesTypeOK, FileInv, WholeFiles
<1>5. TmpInv'
  <2>. SUFFICES ASSUME NEW m \in Models, tmp'[m].there, ~tmp'[m].sound,
                       NEW d \in Callers, Writing(d, m)'
                PROVE  call'[d].pc = "copy" /\ at'[d] = "tmp" /\ tmp'[m].writer = d
    BY DEF TmpInv, Writing, At
  <2>1. CASE m = n
    <3>1. OtherDownloads(c) = {}
      BY <1>1, <1>2, <1>3, <2>1 DEF FilesTypeOK
    <3>2. d = c
      BY <1>3, <2>1, <3>1 DEF OtherDownloads, Writing, Others
    <3>. QED
      BY <1>1, <1>2, <1>3, <2>1, <3>2 DEF FilesTypeOK
  <2>2. CASE m # n
    <3>1. d # c /\ Writing(d, m) /\ tmp'[m] = tmp[m] /\ call'[d] = call[d]
      BY <1>1, <1>3, <2>2 DEF Writing, Others, FilesTypeOK
    <3>2. At(d, "copy") /\ at[d] = "tmp" /\ tmp[m].writer = d
      BY <3>1 DEF FileInv, TmpInv, Writing
    <3>. QED
      BY <1>1, <1>3, <3>1, <3>2 DEF FilesTypeOK, At
  <2>. QED
    BY <2>1, <2>2
<1>. QED
  BY <1>4, <1>5 DEF FileInv

\* What was under the temporary name goes; the writers of other models do not
\* notice.
LEMMA TmpGoes ==
  ASSUME FileInv, NEW c \in Callers, NEW n \in Models, FilesTypeOK',
         tmp' = [tmp EXCEPT ![n] = Missing],
         \A d \in Callers \ {c} : call'[d] = call[d],
         \A d \in Callers \ {c} : call[d].model # n => at'[d] = at[d],
         \A m \in Models : ~Writing(c, m)'
  PROVE  TmpInv'
<1>. SUFFICES ASSUME NEW m \in Models, tmp'[m].there, ~tmp'[m].sound,
                     NEW d \in Callers, Writing(d, m)'
              PROVE  call'[d].pc = "copy" /\ at'[d] = "tmp" /\ tmp'[m].writer = d
  BY DEF TmpInv, Writing, At
<1>1. m # n /\ tmp'[m] = tmp[m] /\ d # c
  BY MissingIsContent DEF FileInv, FilesTypeOK
<1>2. call'[d] = call[d] /\ Writing(d, m)
  BY <1>1 DEF Writing
<1>3. At(d, "copy") /\ at[d] = "tmp" /\ tmp[m].writer = d
  BY <1>1, <1>2 DEF FileInv, TmpInv, Writing
<1>. QED
  BY <1>1, <1>2, <1>3 DEF Writing, At

\* os.Rename: what is renamed is sound.
LEMMA RenameKeepsFiles ==
  ASSUME Types, FileInv, NEW c \in Callers, Rename(c)
  PROVE  FileInv'
<1>. DEFINE n == call[c].model
<1>1. n \in Models /\ call[c].pc = "rename" /\ FilesTypeOK
  BY DEF Types, Values, Sensible, Opening, Resolving, Rename, At
<1>2. /\ tmp' = [tmp EXCEPT ![n] = Missing] /\ dest' = [dest EXCEPT ![n] = tmp[n]] /\ tmp[n].there
      /\ at' = [d \in Callers |-> IF d \notin OtherDownloads(c) THEN at[d]
                                  ELSE IF at[d] = "tmp" THEN "dest" ELSE "gone"]
  BY DEF Rename, RenameTmp
<1>3. Others(c) /\ call'[c].pc = "validate"
  BY GotoMoves DEF Types, Rename, PCs, Switching, Resolving
<1>4. tmp[n].sound
  BY <1>1, <1>2 DEF FileInv, TmpInv, At
<1>5. FilesTypeOK' /\ WholeFiles'
  BY <1>1, <1>2, <1>4, MissingIsContent DEF FilesTypeOK, FileInv, WholeFiles
<1>6. TmpInv'
  BY <1>1, <1>2, <1>3, <1>5, TmpGoes DEF Others, OtherDownloads, Writing
<1>. QED
  BY <1>5, <1>6 DEF FileInv

\* A failed download removes the temporary file, whoever writes it.
LEMMA DropKeepsFiles ==
  ASSUME Types, FileInv, NEW c \in Callers, Drop(c)
  PROVE  FileInv'
<1>. DEFINE n == call[c].model
<1>1. n \in Models /\ call[c].pc = "drop" /\ FilesTypeOK
  BY DEF Types, Values, Sensible, Opening, Resolving, Drop, At
<1>2. /\ tmp' = [tmp EXCEPT ![n] = Missing] /\ dest' = dest
      /\ at' = [d \in Callers |-> IF d \in OtherDownloads(c) /\ at[d] = "tmp" THEN "gone" ELSE at[d]]
  BY DEF Drop, RemoveTmp, Relink
<1>3. Others(c) /\ call'[c].pc \in {"finish", "idle"}
  BY EndMoves, RestMoves DEF Types, Drop, Fail
<1>4. FilesTypeOK' /\ WholeFiles'
  BY <1>1, <1>2, MissingIsContent DEF FilesTypeOK, FileInv, WholeFiles
<1>5. TmpInv'
  <2>1. \A d \in Callers \ {c} : call[d].model # n => at'[d] = at[d]
    BY <1>2 DEF OtherDownloads
  <2>2. \A m \in Models : ~Writing(c, m)'
    BY <1>3 DEF Writing
  <2>. QED
    BY <1>1, <1>2, <1>3, <1>4, <2>1, <2>2, TmpGoes DEF Others
<1>. QED
  BY <1>4, <1>5 DEF FileInv

\* Every step of a download, and of looking for a model's file.
LEMMA ResolveKeepsFiles ==
  ASSUME Types, FileInv, NEW c \in Callers, Resolve(c)
  PROVE  FileInv'
<1>1. CASE Create(c)
  BY <1>1, CreateKeepsFiles
<1>2. CASE Copied(c) \/ NotCopied(c)
  BY <1>2, CopyKeepsFiles
<1>3. CASE Rename(c)
  BY <1>3, RenameKeepsFiles
<1>4. CASE Drop(c)
  BY <1>4, DropKeepsFiles
<1>5. CASE \/ FindModel(c) \/ NeedModel(c) \/ RequestFails(c) \/ Stat(c)
           \/ NotRenamed(c) \/ Valid(c) \/ Invalid(c)
  <2>1. /\ call[c].pc \in {"resolve", "request", "stat", "rename", "validate"} /\ UNCHANGED files
        /\ \/ \E p \in {"load", "request", "drop"} : Goto(c, p)
           \/ call[c].pc = "stat" /\ Goto(c, "rename")
           \/ End(c, FALSE) \/ Rest(c)
    BY <1>5 DEF FindModel, NeedModel, RequestFails, Stat, NotRenamed, Valid, Invalid, Fail, At
  <2>2. /\ Others(c)
        /\ \/ call'[c].pc \in {"load", "request", "drop", "finish", "idle"}
           \/ call[c].pc = "stat" /\ call'[c].pc = "rename" /\ call'[c].model = call[c].model
    <3>1. {"load", "request", "drop", "rename"} \subseteq PCs
      BY DEF PCs, Switching, Resolving
    <3>2. ASSUME NEW p \in PCs, Goto(c, p)
          PROVE  Others(c) /\ call'[c].pc = p /\ call'[c].model = call[c].model
      BY <3>2, GotoMoves DEF Types, Same, Alike
    <3>3. End(c, FALSE) => Others(c) /\ call'[c].pc = "finish"
      BY EndMoves DEF Types
    <3>4. Rest(c) => Others(c) /\ call'[c].pc = "idle"
      BY RestMoves DEF Types
    <3>. QED
      BY <2>1, <3>1, <3>2, <3>3, <3>4
  <2>. QED
    BY <2>1, <2>2, FilesStay DEF Others, Writing, At
<1>. QED
  BY <1>1, <1>2, <1>3, <1>4, <1>5 DEF Resolve

\* DeleteModel.
LEMMA DeleteKeepsFiles ==
  ASSUME Types, FileInv, NEW c \in Callers, Delete(c)
  PROVE  FileInv'
<1>. DEFINE n == call[c].model
<1>1. n \in Models /\ FilesTypeOK
  BY DEF Types, Values, Sensible, Delete, At
<1>2. /\ dest' = [dest EXCEPT ![n] = Missing] /\ tmp' = tmp
      /\ at' = [d \in Callers |-> IF d \in Callers /\ at[d] = "dest" THEN "gone" ELSE at[d]]
  BY DEF Delete, RemoveModel, Relink
<1>3. Others(c) /\ call'[c].pc = "idle"
  BY RestMoves DEF Types, Delete
<1>4. FilesTypeOK' /\ WholeFiles'
  BY <1>1, <1>2, MissingIsContent DEF FilesTypeOK, FileInv, WholeFiles
<1>5. TmpInv'
  BY <1>2, <1>3 DEF FileInv, TmpInv, Others, At
<1>. QED
  BY <1>4, <1>5 DEF FileInv

\* A crash ends all writers, and takes nothing out of the files.
LEMMA CrashKeepsFiles ==
  ASSUME FileInv, Crash
  PROVE  FileInv'
<1>1. /\ dest' = [m \in Models |-> [dest[m] EXCEPT !.writer = NoOne]]
      /\ tmp' = [m \in Models |-> [tmp[m] EXCEPT !.writer = NoOne]]
      /\ at' = [c \in Callers |-> "gone"]
      /\ \A c \in Callers : call'[c].pc = "idle"
  BY DEF Crash, ForgetWriters, Resting
<1>2. FilesTypeOK
  BY DEF FileInv
<1>3. FilesTypeOK' /\ \A m \in Models : dest'[m].there = dest[m].there /\ dest'[m].sound = dest[m].sound
  BY <1>1, <1>2 DEF FilesTypeOK, Content
<1>4. TmpInv'
  BY <1>1 DEF TmpInv
<1>5. WholeFiles'
  BY <1>3 DEF FileInv, WholeFiles
<1>. QED
  BY <1>3, <1>4, <1>5 DEF FileInv

(***************************************************************************)
(* The tray's clicks                                                       *)
(***************************************************************************)

\* A click enters, and cancels the one before it.
LEMMA ClickEnters ==
  ASSUME Types, OwnerInv, NEW c \in Callers, At(c, "idle"), NEW role \in {"tray", "undo"},
         NEW p \in {"restore", "cross", "unpaint"},
         NEW calls, calls = CancelOwner(Enter(c, role, p))
  PROVE  /\ calls \in [Callers -> Records] /\ c # owner
         /\ calls[c].role = role /\ calls[c].pc = p /\ ~calls[c].rolling /\ ~calls[c].cancelled
         /\ \A d \in Callers \ {c} :
              /\ Alike(call[d], calls[d])
              /\ calls[d].pc = call[d].pc
              /\ calls[d].cancelled <=> d = owner \/ call[d].cancelled
<1>. DEFINE e == Enter(c, role, p)
<1>1. call \in [Callers -> Records] /\ Sensible(call[c]) /\ call[c].pc = "idle"
  BY DEF Types, At
<1>2. c # owner
  BY <1>1, NoOneIsNoCaller DEF OwnerInv, Cancellable, Sensible, Is
<1>3. role \in Roles /\ p \in PCs
  BY DEF Roles, PCs
<1>4. /\ e \in [Callers -> Records] /\ e[c].role = role /\ e[c].pc = p
      /\ e[c].rolling = call[c].rolling /\ e[c].cancelled = call[c].cancelled
      /\ \A d \in Callers \ {c} : e[d] = call[d]
  BY <1>1, <1>3 DEF Enter, Records
<1>. HIDE DEF e
<1>5. calls = [d \in Callers |-> IF d = owner THEN [e[d] EXCEPT !.cancelled = TRUE] ELSE e[d]]
  BY DEF CancelOwner, e
<1>6. calls \in [Callers -> Records]
  <2>1. ASSUME NEW d \in Callers
        PROVE  e[d] \in Records /\ [e[d] EXCEPT !.cancelled = TRUE] \in Records
    <3>1. \A r \in Records : [r EXCEPT !.cancelled = TRUE] \in Records
      BY DEF Records
    <3>. QED
      BY <1>4, <3>1
  <2>. QED
    BY <1>5, <2>1
<1>7. calls[c] = e[c]
  BY <1>2, <1>5
<1>8. ~call[c].rolling /\ ~call[c].cancelled
  BY <1>1 DEF Sensible
<1>9. ASSUME NEW d \in Callers \ {c}
      PROVE  /\ Alike(call[d], calls[d])
             /\ calls[d].pc = call[d].pc
             /\ calls[d].cancelled <=> d = owner \/ call[d].cancelled
  <2>1. calls[d] = IF d = owner THEN [call[d] EXCEPT !.cancelled = TRUE] ELSE call[d]
    BY <1>4, <1>5
  <2>2. call[d] \in Records
    BY <1>1
  <2>. QED
    BY <2>1, <2>2 DEF Alike, Records
<1>. QED
  BY <1>2, <1>4, <1>6, <1>7, <1>8, <1>9

\* A cancellation leaves a switch as sensible as it was.
LEMMA SensibleAlike ==
  ASSUME NEW r, NEW s, Sensible(r), Alike(r, s), s.pc = r.pc,
         s.cancelled => r.cancelled \/ (r.role # "none" /\ r.pc \notin Marking)
  PROVE  Sensible(s)
BY DEF Sensible, Alike

\* A click that cancels.
LEMMA ClickAgainKeeps ==
  ASSUME CallInv, NEW c \in Callers, NEW m \in Models, ClickAgain(c, m)
  PROVE  CallInv'
<1>. DEFINE calls == CancelOwner(Enter(c, "undo", "unpaint"))
            s == call'[c]
<1>1. /\ call[c].pc = "idle" /\ up /\ ItemIsFree(m) /\ downloading = m /\ owner # NoOne
      /\ call' = [calls EXCEPT ![c].want = m]
      /\ downloading' = NoModel /\ owner' = NoOne
      /\ UNCHANGED <<files, up, config, engine, trayConfig, titles, history>>
  BY DEF ClickAgain, At
<1>2. owner \in Callers /\ owner # c /\ Cancellable(owner) /\ call[owner].want = m
  <2>1. owner \in Callers /\ Cancellable(owner) /\ call[owner].want = m
    BY <1>1 DEF CallInv, OwnerInv, Types, Values
  <2>2. owner # c
    BY <1>1, <2>1 DEF CallInv, Types, Sensible, Cancellable, Is
  <2>. QED
    BY <2>1, <2>2
<1>3. /\ calls \in [Callers -> Records] /\ calls[c].role = "undo" /\ calls[c].pc = "unpaint"
      /\ ~calls[c].rolling /\ ~calls[c].cancelled
      /\ \A d \in Callers \ {c} :
           /\ Alike(call[d], calls[d]) /\ calls[d].pc = call[d].pc
           /\ calls[d].cancelled <=> d = owner \/ call[d].cancelled
  BY <1>1, ClickEnters DEF CallInv, At
<1>. HIDE DEF calls
<1>4. /\ call' \in [Callers -> Records]
      /\ s.role = "undo" /\ s.pc = "unpaint" /\ ~s.cancelled
      /\ \A d \in Callers \ {c} :
           /\ Alike(call[d], call'[d]) /\ call'[d].pc = call[d].pc
           /\ call'[d].cancelled <=> d = owner \/ call[d].cancelled
  <2>1. \A r \in Records : [r EXCEPT !.want = m] \in Records
    BY DEF Records
  <2>2. call'[c] = [calls[c] EXCEPT !.want = m] /\ \A d \in Callers \ {c} : call'[d] = calls[d]
    BY <1>1, <1>3
  <2>3. call' \in [Callers -> Records]
    BY <1>1, <1>3, <2>1
  <2>4. s.role = "undo" /\ s.pc = "unpaint" /\ ~s.cancelled
    BY <1>3, <2>2 DEF Records
  <2>. QED
    BY <1>3, <2>2, <2>3, <2>4
<1>5. Types'
  <2>1. Values'
    BY <1>1 DEF CallInv, Types, Values, FilesTypeOK, files, history
  <2>2. Sensible(s)
    BY <1>4 DEF Sensible, Opening, Resolving, Switching, Updating, Preparing, Marking, Reading, SwitchRoles
  <2>3. ASSUME NEW d \in Callers \ {c}
        PROVE  Sensible(call'[d])
    <3>1. Sensible(call[d]) /\ (d = owner => call[d].role # "none" /\ call[d].pc \notin Marking)
      BY <1>2 DEF CallInv, Types, Cancellable, Is
    <3>. QED
      BY <1>4, <3>1, SensibleAlike
  <2>. QED
    BY <1>4, <2>1, <2>2, <2>3 DEF Types
<1>6. MainInv'
  BY <1>1, <1>4 DEF CallInv, MainInv, Is, Alike
<1>7. OwnerInv'
  <2>1. \A d \in Callers : Cancellable(d)' => d # c /\ Cancellable(d)
    BY <1>4 DEF Cancellable, Is, Alike
  <2>2. \A d \in Callers : Cancellable(d)' => call'[d].cancelled
    BY <1>4, <2>1 DEF CallInv, OwnerInv
  <2>. QED
    BY <1>1, <2>2 DEF OwnerInv
<1>8. SettledInv'
  <2>1. InFlight' = InFlight
    <3>1. c \notin InFlight /\ c \notin InFlight'
      BY <1>1, <1>4 DEF CallInv, Types, Sensible, InFlight, Switcher, Is
    <3>2. \A d \in Callers \ {c} : d \in InFlight <=> d \in InFlight'
      BY <1>4 DEF InFlight, Switcher, Is, Alike
    <3>. QED
      BY <3>1, <3>2 DEF InFlight
  <2>2. \A d \in InFlight : d \in Callers \ {c} /\ Alike(call[d], call'[d]) /\ call'[d].pc = call[d].pc
    BY <1>1, <1>4 DEF InFlight, CallInv, Types, Sensible, Switcher, Is
  <2>3. ASSUME NEW d \in InFlight, AloneInv(d)
        PROVE  AloneInv(d)'
    BY <1>1, <2>2, <2>3 DEF AloneInv, Alike, Fit, history
  <2>. QED
    BY <1>1, <2>1, <2>2, <2>3 DEF CallInv, SettledInv, Fit, history
<1>. QED
  BY <1>5, <1>6, <1>7, <1>8 DEF CallInv

\* The menu's own choice: the place is its, if there is nobody else.
LEMMA ClickKeeps ==
  ASSUME CallInv, NEW c \in Callers, NEW m \in Models, Click(c, m)
  PROVE  CallInv'
<1>. DEFINE p == IF downloading \in {NoModel, m} THEN "cross" ELSE "restore"
            calls == CancelOwner(Enter(c, "tray", p))
            s == call'[c]
<1>1. /\ call[c].pc = "idle" /\ up
      /\ call' = [calls EXCEPT ![c].want = m]
      /\ downloading' = m /\ owner' = c /\ Begins(c)
      /\ UNCHANGED <<files, up, config, engine, trayConfig, titles>>
  BY DEF Click, At
<1>2. call[c].role = "none" /\ c \notin InFlight
  BY <1>1 DEF CallInv, Types, Sensible, InFlight, Switcher, Is
<1>3. /\ calls \in [Callers -> Records] /\ calls[c].role = "tray" /\ calls[c].pc \in {"cross", "restore"}
      /\ ~calls[c].rolling /\ ~calls[c].cancelled
      /\ \A d \in Callers \ {c} :
           /\ Alike(call[d], calls[d]) /\ calls[d].pc = call[d].pc
           /\ calls[d].cancelled <=> d = owner \/ call[d].cancelled
  BY <1>1, ClickEnters DEF CallInv, At
<1>. HIDE DEF calls
<1>4. /\ call' \in [Callers -> Records]
      /\ s.role = "tray" /\ s.pc \in {"cross", "restore"} /\ s.want = m
      /\ ~s.rolling /\ ~s.cancelled
      /\ \A d \in Callers \ {c} :
           /\ Alike(call[d], call'[d]) /\ call'[d].pc = call[d].pc
           /\ call'[d].cancelled <=> d = owner \/ call[d].cancelled
  <2>2. \A r \in Records : [r EXCEPT !.want = m] \in Records
    BY DEF Records
  <2>3. /\ call'[c] = [calls[c] EXCEPT !.want = m]
        /\ \A d \in Callers \ {c} : call'[d] = calls[d]
    BY <1>1, <1>3
  <2>4. call' \in [Callers -> Records]
    BY <1>1, <1>3, <2>2
  <2>5. /\ s.role = "tray" /\ s.pc \in {"cross", "restore"} /\ s.want = m
        /\ ~s.rolling /\ ~s.cancelled
    BY <1>3, <2>3 DEF Records
  <2>. QED
    BY <1>3, <2>3, <2>4, <2>5
<1>5. Types'
  <2>1. Values'
    <3>1. alone' \in Callers \cup {NoOne} /\ settled' \in BOOLEAN
      BY <1>1 DEF CallInv, Types, Values, Begins
    <3>. QED
      BY <1>1, <3>1 DEF CallInv, Types, Values, FilesTypeOK, files
  <2>2. Sensible(s)
    BY <1>4 DEF Sensible, Opening, Resolving, Switching, Updating, Preparing, Marking, Reading, SwitchRoles
  <2>3. ASSUME NEW d \in Callers \ {c}
        PROVE  Sensible(call'[d])
    <3>1. Sensible(call[d]) /\ (d = owner => call[d].role # "none" /\ call[d].pc \notin Marking)
      BY NoOneIsNoCaller DEF CallInv, Types, OwnerInv, Cancellable, Is
    <3>. QED
      BY <1>4, <3>1, SensibleAlike
  <2>. QED
    BY <1>4, <2>1, <2>2, <2>3 DEF Types
<1>6. MainInv'
  BY <1>1, <1>4 DEF CallInv, MainInv, Is, Alike
<1>7. OwnerInv'
  <2>1. \A d \in Callers \ {c} : Cancellable(d)' => Cancellable(d)
    BY <1>4 DEF Cancellable, Is, Alike
  <2>2. \A d \in Callers \ {c} : Cancellable(d)' => call'[d].cancelled
    BY <1>4, <2>1 DEF CallInv, OwnerInv
  <2>3. Cancellable(c)'
    BY <1>4 DEF Cancellable, Is, Marking
  <2>. QED
    BY <1>1, <1>4, <2>2, <2>3, NoOneIsNoCaller, NoModelIsNone DEF OwnerInv
<1>8. SettledInv'
  <2>1. CASE InFlight = {}
    <3>1. alone' = c /\ settled' = settled
      BY <1>1, <2>1 DEF Begins
    <3>2. InFlight' = {c}
      BY <1>4, <2>1 DEF InFlight, Switcher, Is, Alike
    <3>3. settled => Fit
      BY <2>1 DEF CallInv, SettledInv
    <3>5. AloneInv(c)'
      BY <1>1, <1>4, <3>1, <3>3 DEF AloneInv, Fit, Opening, Resolving, Preparing, Updating
    <3>. QED
      BY <1>4, <3>1, <3>2, <3>5, NoOneIsNoCaller DEF SettledInv, Marking
  <2>2. CASE InFlight # {}
    BY <1>1, <2>2 DEF Begins, SettledInv
  <2>. QED
    BY <2>1, <2>2
<1>. QED
  BY <1>5, <1>6, <1>7, <1>8 DEF CallInv

\* updateModelRadioUI and setModelDownloadingUI before the click waits for its
\* switch.
LEMMA PrepareKeeps ==
  ASSUME CallInv, NEW c \in Callers, Restore(c) \/ Cross(c) \/ (At(c, "restoring") /\ Repaint(c))
  PROVE  CallInv'
<1>. USE DEF Opening, Resolving, Switching, Updating, Preparing, Marking, Reading, SwitchRoles
<1>. DEFINE r == call[c]
            s == call'[c]
<1>1. /\ r.pc \in {"restore", "restoring", "cross"}
      /\ UNCHANGED <<files, up, config, engine, downloading, owner, trayConfig, history>>
  BY DEF Restore, Cross, Repaint, LookUp, At, tray
<1>2. r \in Records /\ Sensible(r) /\ call \in [Callers -> Records] /\ trayConfig \in Models
  BY DEF CallInv, Types, Values
<1>3. Switcher(c)
  BY <1>1, OnlySwitchersAreThere DEF CallInv
<1>4. /\ Others(c) /\ s.pc \in {"restoring", "cross", "begin"} /\ s.role = r.role /\ s.want = r.want
      /\ s.cancelled = r.cancelled /\ s.rolling = r.rolling
      /\ s.pc = "restoring" => s.was \in Models
  <2>1. CASE Restore(c)
    <3>1. call' = [call EXCEPT ![c].pc = "restoring", ![c].was = trayConfig] /\ "restoring" \in PCs
      BY <2>1 DEF Restore, LookUp, PCs
    <3>2. trayConfig \in Models \cup {NoModel}
      BY <1>2
    <3>. QED
      BY <1>2, <3>1, <3>2, ReadMoves
  <2>2. CASE At(c, "restoring") /\ Repaint(c)
    <3>1. call' = [call EXCEPT ![c].pc = "cross", ![c].was = NoModel] /\ "cross" \in PCs
      BY <2>2 DEF Repaint, PCs
    <3>. QED
      BY <1>2, <3>1, ReadMoves
  <2>3. CASE Cross(c)
    BY <1>2, <2>3, GotoMoves DEF Cross, Same, Alike, PCs
  <2>. QED
    BY <2>1, <2>2, <2>3
<1>5. GoesOn(c)
  BY <1>1, <1>2, <1>3, <1>4 DEF GoesOn, Sensible, Switcher, Is
<1>6. Values'
  BY <1>1, ValuesStay DEF CallInv, Types
<1>7. alone = c => AloneInv(c)'
  BY <1>1, <1>4, NoOneIsNoCaller DEF CallInv, SettledInv, AloneInv, Fit, history
<1>. QED
  BY <1>1, <1>3, <1>5, <1>6, <1>7, GoingOnKeeps

\* A click that has its answer paints the menu, and leaves.
LEMMA MarkingKeeps ==
  ASSUME CallInv, NEW c \in Callers, MarkOld(c) \/ MarkChoice(c) \/ (At(c, "marking") /\ Repaint(c))
  PROVE  CallInv'
<1>. USE DEF Opening, Resolving, Switching, Updating, Preparing, Marking, Reading, SwitchRoles
<1>. DEFINE r == call[c]
            s == call'[c]
<1>1. /\ r.pc \in Marking
      /\ UNCHANGED <<files, up, config, engine, downloading, owner, trayConfig, history>>
  BY DEF MarkOld, MarkChoice, Repaint, LookUp, At, tray
<1>2. /\ r \in Records /\ Sensible(r) /\ call \in [Callers -> Records] /\ trayConfig \in Models
      /\ Switcher(c)
  BY <1>1, OnlySwitchersAreThere DEF CallInv, Types, Values
<1>3. /\ Others(c) /\ Sensible(s)
      /\ s.role = "none" \/ (s.role = r.role /\ s.pc = "marking")
      /\ ~s.cancelled
  <2>1. CASE MarkOld(c)
    <3>1. /\ Others(c) /\ s.pc = "marking" /\ s.was \in Models /\ s.role = r.role /\ s.want = r.want
          /\ s.cancelled = r.cancelled /\ s.rolling = r.rolling /\ s.model = r.model
      BY <1>2, <2>1 DEF MarkOld, LookUp, Others, Records, PCs
    <3>. QED
      BY <1>1, <1>2, <3>1 DEF Sensible, Switcher, Is
  <2>2. CASE Rest(c)
    <3>1. /\ Others(c) /\ s.role = "none" /\ s.pc = "idle" /\ ~s.rolling /\ ~s.cancelled
      BY <1>2, <2>2, RestMoves
    <3>. QED
      BY <3>1 DEF Sensible
  <2>. QED
    BY <2>1, <2>2 DEF MarkChoice, Repaint, At
<1>4. Types'
  BY <1>1, <1>3, ValuesStay, TypesStay DEF CallInv, Types
<1>5. MainInv'
  BY <1>1, <1>2, <1>3, SwitchersAreUp, MainStays DEF CallInv, Switcher, Is
<1>6. OwnerInv'
  BY <1>1, <1>3, OwnerStays, NoOneIsNoCaller DEF CallInv, OwnerInv, Cancellable, Is
<1>7. SettledInv'
  <2>1. alone = NoOne
    BY <1>1, <1>2 DEF CallInv, SettledInv, InFlight
  <2>2. settled => Fit' /\ \A d \in InFlight : call[d].pc \in Marking
    BY <1>1, <2>1, NoOneIsNoCaller DEF CallInv, SettledInv, InFlight, Fit
  <2>3. \A d \in InFlight' : d = c \/ (d \in InFlight /\ call'[d] = call[d])
    BY <1>3 DEF InFlight, Others, Switcher, Is
  <2>4. c \in InFlight' => s.pc \in Marking
    BY <1>3 DEF InFlight, Switcher, Is
  <2>. QED
    BY <1>1, <2>1, <2>2, <2>3, <2>4 DEF SettledInv, history
<1>. QED
  BY <1>4, <1>5, <1>6, <1>7 DEF CallInv

(***************************************************************************)
(* Where switches begin and return                                         *)
(***************************************************************************)

\* A switch that returns to its caller and is gone.
LEMMA ReturnedAndGone ==
  ASSUME SettledInv, NEW c \in Callers, call[c].pc = "finish", Switcher(c),
         Others(c), c \notin InFlight', Returned(c), UNCHANGED <<config, engine>>
  PROVE  SettledInv'
<1>1. c \in InFlight
  BY DEF InFlight
<1>2. CASE alone = c
  <2>1. InFlight = {c} /\ AloneInv(c)
    BY <1>2, NoOneIsNoCaller DEF SettledInv
  <2>2. InFlight' = {} /\ alone' = NoOne
    BY <1>2, <2>1 DEF Returned, InFlight, Others, Switcher, Is
  <2>3. settled' => Fit
    BY <1>2, <2>1 DEF Returned, AloneInv, Fit
  <2>. QED
    BY <2>2, <2>3 DEF SettledInv, Fit
<1>3. CASE alone # c
  <2>1. alone = NoOne /\ ~settled
    BY <1>1, <1>3 DEF SettledInv, Marking
  <2>. QED
    BY <1>3, <2>1 DEF Returned, SettledInv
<1>. QED
  BY <1>2, <1>3

\* A click that has its answer and still has to mark the menu.
LEMMA ReturnedToMark ==
  ASSUME SettledInv, NEW c \in Callers, call[c].pc = "finish", Is(c, "tray"),
         Others(c), call'[c].pc = "mark", Same(call[c], call'[c]), Returned(c),
         UNCHANGED <<config, engine>>
  PROVE  SettledInv'
<1>1. c \in InFlight /\ InFlight' = InFlight
  <2>1. c \in InFlight /\ c \in InFlight'
    BY DEF InFlight, Switcher, Is, Same, Alike
  <2>2. \A d \in Callers \ {c} : d \in InFlight' <=> d \in InFlight
    BY DEF InFlight, Others, Switcher, Is
  <2>. QED
    BY <2>1, <2>2 DEF InFlight
<1>2. CASE alone = c
  <2>1. InFlight = {c} /\ AloneInv(c)
    BY <1>2, NoOneIsNoCaller DEF SettledInv
  <2>2. alone' = NoOne
    BY <1>2 DEF Returned
  <2>3. settled' => Fit
    BY <1>2, <2>1 DEF Returned, AloneInv, Fit
  <2>. QED
    BY <1>1, <2>1, <2>2, <2>3 DEF SettledInv, Fit, Marking
<1>3. CASE alone # c
  <2>1. alone = NoOne /\ ~settled
    BY <1>1, <1>3 DEF SettledInv, Marking
  <2>. QED
    BY <1>3, <2>1 DEF Returned, SettledInv
<1>. QED
  BY <1>2, <1>3

\* A return leaves every value with its type.
LEMMA ReturnedValues ==
  ASSUME Types, NEW c \in Callers, Returned(c), UNCHANGED <<files, up, config, engine, trayConfig>>,
         downloading' \in {downloading, NoModel}, owner' \in {owner, NoOne}
  PROVE  Values'
<1>1. alone' \in Callers \cup {NoOne} /\ settled' \in BOOLEAN
  BY DEF Returned, Types, Values
<1>. QED
  BY <1>1 DEF Types, Values, FilesTypeOK, files

\* onSelectModel has returned to the click's goroutine.
LEMMA FinishClickKeeps ==
  ASSUME CallInv, NEW c \in Callers, FinishClick(c)
  PROVE  CallInv'
<1>1. /\ Is(c, "tray") /\ call[c].pc = "finish" /\ Returned(c)
      /\ UNCHANGED <<files, up, config, engine, trayConfig>>
      /\ downloading' \in {downloading, NoModel} /\ owner' \in {owner, NoOne}
  BY DEF FinishClick, At
<1>2. Switcher(c) /\ up /\ Cancellable(c) /\ Values'
  BY <1>1, SwitchersAreUp, ReturnedValues DEF CallInv, Switcher, Is, Cancellable, Marking
<1>3. CASE call[c].cancelled
  <2>1. Rest(c) /\ UNCHANGED <<downloading, owner>>
    BY <1>3 DEF FinishClick
  <2>2. /\ Others(c) /\ call'[c].role = "none" /\ call'[c].pc = "idle"
        /\ ~call'[c].rolling /\ ~call'[c].cancelled
    BY <2>1, RestMoves DEF CallInv, Types
  <2>3. Sensible(call'[c])
    BY <2>2 DEF Sensible, Opening, Resolving, Switching, Updating, Preparing, Marking, Reading, SwitchRoles
  <2>4. Types' /\ MainInv'
    BY <1>1, <1>2, <2>2, <2>3, TypesStay, MainStays DEF CallInv
  <2>5. OwnerInv'
    BY <1>3, <2>1, <2>2, OwnerStays, NoOneIsNoCaller DEF CallInv, OwnerInv, Cancellable, Is
  <2>6. SettledInv'
    BY <1>1, <1>2, <2>2, ReturnedAndGone DEF CallInv, InFlight, Switcher, Is
  <2>. QED
    BY <2>4, <2>5, <2>6 DEF CallInv
<1>4. CASE ~call[c].cancelled
  <2>1. /\ Goto(c, "mark")
        /\ IF downloading = call[c].want THEN downloading' = NoModel /\ owner' = NoOne
           ELSE UNCHANGED <<downloading, owner>>
    BY <1>4 DEF FinishClick
  <2>2. Others(c) /\ call'[c].pc = "mark" /\ Same(call[c], call'[c])
    BY <2>1, GotoMoves DEF CallInv, Types, PCs
  <2>3. Sensible(call'[c])
    BY <1>1, <1>4, <2>2
       DEF CallInv, Types, Sensible, Same, Alike, Is, Opening, Resolving, Switching, Updating, Preparing, Marking, Reading, SwitchRoles
  <2>4. Types' /\ MainInv'
    BY <1>1, <1>2, <2>2, <2>3, TypesStay, MainStays DEF CallInv, Same, Alike, Is
  <2>5. owner = c /\ downloading = call[c].want
    BY <1>2, <1>4, NoOneIsNoCaller DEF CallInv, OwnerInv
  <2>6. OwnerInv'
    <3>1. ~Cancellable(c)'
      BY <2>2 DEF Cancellable, Marking
    <3>2. \A d \in Callers \ {c} : Cancellable(d)' => Cancellable(d) /\ call'[d].cancelled = call[d].cancelled
      BY <2>2 DEF Cancellable, Others, Is
    <3>. QED
      BY <2>1, <2>5, <3>1, <3>2 DEF CallInv, OwnerInv
  <2>7. SettledInv'
    BY <1>1, <2>2, ReturnedToMark DEF CallInv
  <2>. QED
    BY <2>4, <2>6, <2>7 DEF CallInv
<1>. QED
  BY <1>3, <1>4

\* Window and command line have their answer.
LEMMA FinishCallKeeps ==
  ASSUME CallInv, NEW c \in Callers, FinishCall(c)
  PROVE  CallInv'
<1>1. /\ Is(c, "direct") /\ call[c].pc = "finish" /\ Returned(c)
      /\ UNCHANGED <<files, up, config, engine, trayConfig, titles, downloading, owner>>
  BY DEF FinishCall, At, tray
<1>2. Switcher(c) /\ up /\ Values' /\ ~Is(c, "tray")
  BY <1>1, SwitchersAreUp, ReturnedValues DEF CallInv, Switcher, Is
<1>3. /\ Others(c) /\ call'[c].role = "none" /\ call'[c].pc = "idle"
      /\ ~call'[c].rolling /\ ~call'[c].cancelled
  BY RestMoves DEF CallInv, Types, FinishCall
<1>4. Sensible(call'[c])
  BY <1>3 DEF Sensible, Opening, Resolving, Switching, Updating, Preparing, Marking, Reading, SwitchRoles
<1>5. Types' /\ MainInv'
  BY <1>1, <1>2, <1>3, <1>4, TypesStay, MainStays DEF CallInv
<1>6. OwnerInv'
  BY <1>1, <1>2, <1>3, OwnerStays, NoOneIsNoCaller DEF CallInv, OwnerInv, Cancellable, Is
<1>7. SettledInv'
  BY <1>1, <1>2, <1>3, ReturnedAndGone DEF CallInv, InFlight, Switcher, Is
<1>. QED
  BY <1>5, <1>6, <1>7 DEF CallInv

\* A switch from the window or the command line.
LEMMA DirectEnters ==
  ASSUME Types, NEW c \in Callers, NEW m \in Models, BeginDirect(c, m)
  PROVE  /\ Others(c) /\ call'[c].role = "direct" /\ call'[c].pc = "check"
         /\ call'[c].model = m /\ call'[c].want = m /\ call'[c].was = config
         /\ ~call'[c].rolling /\ ~call'[c].cancelled
<1>. DEFINE s == call'[c]
            e == Enter(c, "direct", "check")
<1>1. /\ call' = [e EXCEPT ![c].model = m, ![c].want = m, ![c].was = config]
      /\ call \in [Callers -> Records] /\ ~call[c].rolling /\ ~call[c].cancelled /\ config \in Models
  BY DEF BeginDirect, At, Types, Values, Sensible
<1>2. "direct" \in Roles /\ "check" \in PCs
  BY DEF Roles, PCs, Switching
<1>3. /\ e \in [Callers -> Records] /\ e[c].role = "direct" /\ e[c].pc = "check"
      /\ ~e[c].rolling /\ ~e[c].cancelled /\ \A d \in Callers \ {c} : e[d] = call[d]
  BY <1>1, <1>2 DEF Enter, Records
<1>. HIDE DEF e
<1>4. \A r \in Records : [r EXCEPT !.model = m, !.want = m, !.was = config] \in Records
  BY <1>1 DEF Records
<1>5. /\ call' \in [Callers -> Records] /\ \A d \in Callers \ {c} : call'[d] = call[d]
      /\ s = [e[c] EXCEPT !.model = m, !.want = m, !.was = config]
  BY <1>1, <1>3, <1>4
<1>6. /\ s.role = "direct" /\ s.pc = "check" /\ s.model = m /\ s.want = m /\ s.was = config
      /\ ~s.rolling /\ ~s.cancelled
  <2>1. e[c] \in Records
    BY <1>3
  <2>. QED
    BY <1>3, <1>5, <2>1 DEF Records
<1>. QED
  BY <1>5, <1>6 DEF Others

\* It has the place for itself, if there is nobody else.
LEMMA BeginDirectKeeps ==
  ASSUME CallInv, NEW c \in Callers, NEW m \in Models, BeginDirect(c, m)
  PROVE  CallInv'
<1>. DEFINE s == call'[c]
<1>1. /\ call[c].pc = "idle" /\ up /\ Begins(c)
      /\ UNCHANGED <<files, up, config, engine, trayConfig, titles, downloading, owner>>
  BY DEF BeginDirect, At, tray
<1>2. /\ call \in [Callers -> Records] /\ Sensible(call[c]) /\ call[c].role = "none" /\ ~call[c].rolling
      /\ config \in Models /\ c \notin InFlight
  BY <1>1 DEF CallInv, Types, Values, Sensible, InFlight, Switcher, Is
<1>3. /\ Others(c) /\ s.role = "direct" /\ s.pc = "check" /\ s.model = m /\ s.want = m
      /\ s.was = config /\ ~s.rolling
  BY DirectEnters DEF CallInv
<1>4. Values'
  <2>1. alone' \in Callers \cup {NoOne} /\ settled' \in BOOLEAN
    BY <1>1 DEF CallInv, Types, Values, Begins
  <2>. QED
    BY <1>1, <2>1 DEF CallInv, Types, Values, FilesTypeOK, files
<1>5. Types' /\ MainInv'
  <2>1. Sensible(s)
    BY <1>2, <1>3 DEF Sensible, Opening, Resolving, Switching, Updating, Preparing, Marking, Reading, SwitchRoles
  <2>. QED
    BY <1>1, <1>3, <1>4, <2>1, TypesStay, MainStays DEF CallInv
<1>6. OwnerInv'
  BY <1>1, <1>2, <1>3, OwnerStays, NoOneIsNoCaller DEF CallInv, OwnerInv, Cancellable, Is
<1>7. SettledInv'
  <2>1. CASE InFlight = {}
    <3>1. alone' = c /\ settled' = settled
      BY <1>1, <2>1 DEF Begins
    <3>2. InFlight' = {c}
      BY <1>3, <2>1 DEF InFlight, Others, Switcher, Is
    <3>3. settled => Fit
      BY <2>1 DEF CallInv, SettledInv
    <3>4. AloneInv(c)'
      BY <1>1, <1>3, <3>1, <3>3 DEF AloneInv, Fit, Opening, Resolving, Preparing, Updating
    <3>. QED
      BY <1>3, <3>1, <3>2, <3>4, NoOneIsNoCaller DEF SettledInv, Marking
  <2>2. CASE InFlight # {}
    BY <1>1, <2>2 DEF Begins, SettledInv
  <2>. QED
    BY <2>1, <2>2
<1>. QED
  BY <1>5, <1>6, <1>7 DEF CallInv

(***************************************************************************)
(* Around it                                                               *)
(***************************************************************************)

\* Recordings, deletions, cancellations, refreshes, and the main goroutine's own
\* steps.
LEMMA BesideKeeps ==
  ASSUME CallInv, NEW c \in Callers, Others(c), Sensible(call'[c]), Values', MainInv',
         call[c].role \in Roles \ SwitchRoles, call'[c].role \in Roles \ SwitchRoles,
         UNCHANGED <<config, engine, downloading, owner, history>>
  PROVE  CallInv'
<1>1. Types'
  BY TypesStay DEF CallInv
<1>2. OwnerInv'
  BY OwnerStays, NoOneIsNoCaller DEF CallInv, OwnerInv, Cancellable, Is, SwitchRoles
<1>3. SettledInv'
  <2>1. c \notin InFlight /\ c \notin InFlight'
    BY DEF InFlight, Switcher, Is, SwitchRoles
  <2>. QED
    BY <2>1, SettledBeside DEF CallInv
<1>. QED
  BY <1>1, <1>2, <1>3 DEF CallInv

\* Whoever enters for one of these has its role, its place and a model.
LEMMA EntersFor ==
  ASSUME Types, NEW c \in Callers, At(c, "idle"), NEW role \in Roles, NEW p \in PCs, NEW m \in Models,
         call' = [Enter(c, role, p) EXCEPT ![c].model = m]
  PROVE  /\ Others(c) /\ call[c].role = "none" /\ call'[c].role = role /\ call'[c].pc = p
         /\ call'[c].model = m
<1>. DEFINE e == Enter(c, role, p)
<1>1. call \in [Callers -> Records] /\ call[c].role = "none"
  BY DEF Types, Sensible, At
<1>2. /\ e \in [Callers -> Records] /\ e[c].role = role /\ e[c].pc = p
      /\ \A d \in Callers \ {c} : e[d] = call[d]
  BY <1>1 DEF Enter, Records
<1>. HIDE DEF e
<1>3. \A r \in Records : [r EXCEPT !.model = m] \in Records
  BY DEF Records
<1>4. call' = [e EXCEPT ![c].model = m]
  BY DEF e
<1>5. /\ call' \in [Callers -> Records] /\ \A d \in Callers \ {c} : call'[d] = call[d]
      /\ call'[c] = [e[c] EXCEPT !.model = m]
  <2>1. e[c] \in Records /\ [e[c] EXCEPT !.model = m] \in Records
    BY <1>2, <1>3
  <2>. QED
    BY <1>2, <1>4, <2>1
<1>6. call'[c].role = role /\ call'[c].pc = p /\ call'[c].model = m
  <2>1. e[c] \in Records
    BY <1>2
  <2>. QED
    BY <1>2, <1>5, <2>1 DEF Records
<1>. QED
  BY <1>1, <1>5, <1>6 DEF Others

\* A recording or a deletion begins.
LEMMA AskKeeps ==
  ASSUME CallInv, NEW c \in Callers, AskToRecord(c) \/ \E m \in Models : AskToDelete(c, m)
  PROVE  CallInv'
<1>1. PICK m \in Models, rp \in {<<"record", "resolve">>, <<"delete", "remove">>} :
        /\ At(c, "idle") /\ up
        /\ call' = [Enter(c, rp[1], rp[2]) EXCEPT ![c].model = m]
        /\ UNCHANGED <<files, up, config, engine, tray, history>>
  <2>1. config \in Models
    BY DEF CallInv, Types, Values
  <2>2. CASE AskToRecord(c)
    BY <2>1, <2>2 DEF AskToRecord, Keep
  <2>3. CASE \E m \in Models : AskToDelete(c, m)
    BY <2>3 DEF AskToDelete, Keep
  <2>. QED
    BY <2>2, <2>3
<1>2. rp[1] \in Roles /\ rp[2] \in PCs
  BY DEF Roles, PCs, Switching, Resolving
<1>3. /\ Others(c) /\ call[c].role = "none" /\ call'[c].role = rp[1] /\ call'[c].pc = rp[2]
      /\ call'[c].model = m
  BY <1>1, <1>2, EntersFor DEF CallInv
<1>4. Sensible(call'[c]) /\ call'[c].role \in {"record", "delete"}
  BY <1>3 DEF Sensible, Opening, Resolving, Switching, Updating, Preparing, Marking, Reading, SwitchRoles
<1>5. MainInv'
  BY <1>1, <1>3, <1>4, MainStays DEF CallInv
<1>6. Values'
  BY <1>1, ValuesStay DEF CallInv, Types, tray
<1>. QED
  BY <1>1, <1>3, <1>4, <1>5, <1>6, BesideKeeps DEF Roles, SwitchRoles, tray

\* The main goroutine begins.
LEMMA BootKeeps ==
  ASSUME CallInv, NEW c \in Callers, Boot(c)
  PROVE  CallInv'
<1>1. /\ ~up /\ \A d \in Callers : At(d, "idle")
      /\ call' = [Enter(c, "main", "resolve") EXCEPT ![c].model = config]
      /\ UNCHANGED <<files, up, config, engine, tray, history>> /\ config \in Models
  BY DEF Boot, Keep, CallInv, Types, Values
<1>2. "main" \in Roles /\ "resolve" \in PCs
  BY DEF Roles, PCs, Switching, Resolving
<1>3. /\ Others(c) /\ call[c].role = "none" /\ call'[c].role = "main" /\ call'[c].pc = "resolve"
      /\ call'[c].model = config
  BY <1>1, <1>2, EntersFor DEF CallInv
<1>4. Sensible(call'[c])
  BY <1>1, <1>3 DEF Sensible, Opening, Resolving, Switching, Updating, Preparing, Marking, Reading, SwitchRoles
<1>5. MainInv'
  <2>1. \A d \in Callers \ {c} : call'[d].role = "none"
    BY <1>1, <1>3 DEF Others, CallInv, Types, Sensible, At
  <2>. QED
    BY <1>1, <1>3, <2>1 DEF MainInv, Is
<1>6. Values'
  BY <1>1, ValuesStay DEF CallInv, Types, tray
<1>. QED
  BY <1>1, <1>3, <1>4, <1>5, <1>6, BesideKeeps DEF Roles, SwitchRoles, tray

\* A recording begins, a deletion is done, a start has failed.
LEMMA BesideRests ==
  ASSUME CallInv, NEW c \in Callers, Record(c) \/ StartFails(c) \/ Delete(c), FilesTypeOK'
  PROVE  CallInv'
<1>1. /\ Rest(c) /\ UNCHANGED <<up, config, engine, tray, history>>
      /\ call[c].role \in {"record", "main"} \/ call[c].pc = "remove"
  BY DEF Record, StartFails, Delete, Keep, Is, At
<1>2. call[c].role \in {"record", "main", "delete"}
  BY <1>1
     DEF CallInv, Types, Sensible, Records, Roles, Switching, Resolving, Updating, Preparing, Marking
<1>3. /\ Others(c) /\ call'[c].role = "none" /\ call'[c].pc = "idle"
      /\ ~call'[c].rolling /\ ~call'[c].cancelled
  BY <1>1, RestMoves DEF CallInv, Types
<1>4. Sensible(call'[c])
  BY <1>3 DEF Sensible, Opening, Resolving, Switching, Updating, Preparing, Marking, Reading, SwitchRoles
<1>5. MainInv'
  BY <1>1, <1>3 DEF CallInv, MainInv, Others, Is
<1>6. Values'
  BY <1>1 DEF CallInv, Types, Values, tray, history
<1>. QED
  BY <1>1, <1>2, <1>3, <1>4, <1>5, <1>6, BesideKeeps DEF Roles, SwitchRoles, tray

\* The container is built: its engine is the configured one.
LEMMA StartKeeps ==
  ASSUME CallInv, WholeFiles, NEW c \in Callers, Start(c)
  PROVE  CallInv'
<1>1. /\ call[c].role = "main" /\ call[c].pc = "load" /\ FileOf(call[c].model).there
      /\ engine' = [model |-> call[c].model, sound |-> FileOf(call[c].model).sound]
      /\ up' = TRUE /\ Rest(c)
      /\ trayConfig' = config /\ titles' = Radio(config) /\ settled' = TRUE
      /\ UNCHANGED <<files, config, downloading, owner, alone>>
  BY DEF Start, Is, At
<1>2. /\ call[c].model = config /\ ~up /\ config \in Models
      /\ \A d \in Callers \ {c} : call[d].role = "none"
  BY <1>1 DEF CallInv, MainInv, Types, Values, Is
<1>3. engine' = [model |-> config, sound |-> TRUE]
  BY <1>1, <1>2, WholeIsLoaded DEF CallInv
<1>4. /\ Others(c) /\ call'[c].role = "none" /\ call'[c].pc = "idle"
      /\ ~call'[c].rolling /\ ~call'[c].cancelled
  BY <1>1, RestMoves DEF CallInv, Types
<1>5. \A d \in Callers : call'[d].role = "none"
  BY <1>2, <1>4 DEF Others
<1>6. Types'
  <2>1. Sensible(call'[c])
    BY <1>4 DEF Sensible, Opening, Resolving, Switching, Updating, Preparing, Marking, Reading, SwitchRoles
  <2>2. Values'
    <3>1. engine' \in [model : Models, sound : {TRUE}]
      BY <1>2, <1>3
    <3>. QED
      BY <1>1, <1>2, <3>1 DEF CallInv, Types, Values, FilesTypeOK, files
  <2>. QED
    BY <1>4, <2>1, <2>2, TypesStay DEF CallInv
<1>7. MainInv'
  BY <1>1, <1>5 DEF MainInv, Is
<1>8. OwnerInv'
  BY <1>1, <1>4, OwnerStays, NoOneIsNoCaller DEF CallInv, OwnerInv, Cancellable, Is
<1>9. SettledInv'
  <2>1. InFlight = {} /\ InFlight' = {}
    BY <1>1, <1>2, <1>5 DEF InFlight, Switcher, Is
  <2>2. alone' = NoOne
    BY <1>1, <2>1 DEF CallInv, SettledInv
  <2>3. engine.model' = config
    BY <1>3
  <2>. QED
    BY <1>1, <2>1, <2>2, <2>3 DEF SettledInv, Fit
<1>. QED
  BY <1>6, <1>7, <1>8, <1>9 DEF CallInv

\* Whoever enters to refresh the tray has its role and its place.
LEMMA RefresherEnters ==
  ASSUME Types, NEW c \in Callers, At(c, "idle"), NEW role \in {"reset", "other"},
         call' = Enter(c, role, "refresh")
  PROVE  /\ Others(c) /\ call[c].role = "none" /\ call'[c].role = role /\ call'[c].pc = "refresh"
         /\ Sensible(call'[c])
<1>1. call \in [Callers -> Records] /\ Sensible(call[c]) /\ call[c].role = "none"
  BY DEF Types, Sensible, At
<1>2. role \in Roles /\ "refresh" \in PCs
  BY DEF Roles, PCs, Switching, Updating
<1>3. /\ Others(c) /\ call'[c].role = role /\ call'[c].pc = "refresh"
      /\ call'[c].rolling = call[c].rolling /\ call'[c].cancelled = call[c].cancelled
  BY <1>1, <1>2, EnterMoves
<1>. QED
  BY <1>1, <1>3 DEF Sensible, Opening, Resolving, Switching, Updating, Preparing, Marking, Reading, SwitchRoles

\* A reset of the configuration says of the place only what is so.
LEMMA ResetKeeps ==
  ASSUME CallInv, NEW c \in Callers, Reset(c)
  PROVE  CallInv'
<1>1. /\ At(c, "idle") /\ up /\ config' = DefaultModel /\ call' = Enter(c, "reset", "refresh")
      /\ alone' = NoOne /\ settled' = (settled /\ InFlight = {} /\ engine.model = DefaultModel)
      /\ UNCHANGED <<files, up, engine, downloading, owner, trayConfig>>
  BY DEF Reset, tray
<1>2. /\ Others(c) /\ call[c].role = "none" /\ call'[c].role = "reset" /\ Sensible(call'[c])
  BY <1>1, RefresherEnters DEF CallInv
<1>3. Types'
  <2>1. Values'
    BY <1>1, DefaultIsModel DEF CallInv, Types, Values, FilesTypeOK, files
  <2>. QED
    BY <1>2, <2>1, TypesStay DEF CallInv
<1>4. MainInv' /\ OwnerInv'
  BY <1>1, <1>2, MainStays, OwnerStays, NoOneIsNoCaller DEF CallInv, OwnerInv, Cancellable, Is
<1>5. SettledInv'
  <2>1. InFlight' = InFlight
    BY <1>2 DEF InFlight, Others, Switcher, Is
  <2>. QED
    BY <1>1, <2>1 DEF SettledInv, Fit
<1>. QED
  BY <1>3, <1>4, <1>5 DEF CallInv

\* Another refresh of the tray, and what it does beside a switch.
LEMMA RefresherKeeps ==
  ASSUME CallInv, NEW c \in Callers,
         BeginRefresh(c) \/ (~Switcher(c) /\ (Refresh(c) \/ Show(c) \/ Fill(c)))
  PROVE  CallInv'
<1>. USE DEF Opening, Resolving, Switching, Updating, Preparing, Marking, Reading, SwitchRoles
<1>. DEFINE r == call[c]
            s == call'[c]
<1>1. /\ call \in [Callers -> Records] /\ r \in Records /\ Sensible(r) /\ config \in Models
      /\ trayConfig \in Models
  BY DEF CallInv, Types, Values
<1>2. /\ UNCHANGED <<files, up, config, engine, downloading, owner, history>>
      /\ trayConfig' = trayConfig \/ (Show(c) /\ trayConfig' = r.was)
  BY DEF BeginRefresh, Refresh, Show, Fill, tray
<1>3. r.role \in {"none", "reset", "other"}
  BY <1>1 DEF BeginRefresh, Refresh, Show, Fill, At, Sensible, Records, Roles, Switcher, Is
<1>4. Others(c) /\ Sensible(s) /\ s.role \in {"none", "reset", "other"}
  <2>1. CASE BeginRefresh(c)
    BY <2>1, RefresherEnters DEF BeginRefresh, CallInv
  <2>2. CASE Refresh(c) /\ ~Switcher(c)
    <3>1. /\ Others(c) /\ s.pc = "show" /\ s.was = config /\ s.role = r.role /\ r.role # "none"
          /\ s.cancelled = r.cancelled /\ s.rolling = r.rolling
      BY <1>1, <2>2 DEF Refresh, At, Others, Records, PCs, Sensible
    <3>. QED
      BY <1>1, <1>3, <3>1 DEF Sensible
  <2>3. CASE Show(c) /\ ~Switcher(c)
    <3>1. Others(c) /\ s.pc = "fill" /\ Same(r, s) /\ r.pc = "show"
      BY <1>1, <2>3, GotoMoves DEF Show, At, PCs
    <3>. QED
      BY <1>1, <1>3, <3>1 DEF Sensible, Same, Alike
  <2>4. CASE Fill(c) /\ Rest(c)
    <3>1. Others(c) /\ s.role = "none" /\ s.pc = "idle" /\ ~s.rolling /\ ~s.cancelled
      BY <1>1, <2>4, RestMoves
    <3>. QED
      BY <3>1 DEF Sensible
  <2>5. CASE Fill(c) /\ call' = [call EXCEPT ![c] = [Resting EXCEPT !.role = "other", !.pc = "refresh"]]
    <3>1. /\ Others(c) /\ s.role = "other" /\ s.pc = "refresh" /\ ~s.rolling /\ ~s.cancelled
      BY <1>1, <2>5 DEF Resting, Others, Records, Roles, PCs
    <3>. QED
      BY <3>1 DEF Sensible
  <2>. QED
    BY <1>3, <2>1, <2>2, <2>3, <2>4, <2>5 DEF Fill, Switcher, Is
<1>5. Values'
  <2>1. trayConfig' \in Models
    BY <1>1, <1>2 DEF Show, At, Sensible
  <2>. QED
    BY <1>2, <2>1 DEF CallInv, Types, Values, FilesTypeOK, files, history
<1>6. MainInv'
  <2>1. BeginRefresh(c) => up
    BY DEF BeginRefresh
  <2>2. r.role \in {"reset", "other"} => up
    BY DEF CallInv, MainInv
  <2>3. r.role = "none" => BeginRefresh(c)
    BY <1>1 DEF Refresh, Show, Fill, At, Sensible
  <2>. QED
    BY <1>2, <1>3, <1>4, <2>1, <2>2, <2>3, MainStays DEF CallInv
<1>. QED
  BY <1>2, <1>3, <1>4, <1>5, <1>6, BesideKeeps DEF Roles

\* A click that has cancelled a switch paints the menu, and leaves.
LEMMA UnpaintKeeps ==
  ASSUME CallInv, NEW c \in Callers, Unpaint(c) \/ (At(c, "unpainting") /\ Repaint(c))
  PROVE  CallInv'
<1>. USE DEF Opening, Resolving, Switching, Updating, Preparing, Marking, Reading, SwitchRoles
<1>. DEFINE r == call[c]
            s == call'[c]
<1>1. /\ call \in [Callers -> Records] /\ r \in Records /\ Sensible(r) /\ trayConfig \in Models
      /\ r.pc \in {"unpaint", "unpainting"}
      /\ UNCHANGED <<files, up, config, engine, downloading, owner, trayConfig, history>>
  BY DEF CallInv, Types, Values, Unpaint, Repaint, LookUp, At, tray
<1>2. r.role = "undo"
  BY <1>1 DEF Sensible, Records, Roles
<1>3. Others(c) /\ Sensible(s) /\ s.role \in {"none", "undo"}
  <2>1. CASE Unpaint(c)
    <3>1. /\ Others(c) /\ s.pc = "unpainting" /\ s.was \in Models /\ s.role = r.role
          /\ s.cancelled = r.cancelled /\ s.rolling = r.rolling
      BY <1>1, <2>1 DEF Unpaint, LookUp, Others, Records, PCs
    <3>. QED
      BY <1>1, <1>2, <3>1 DEF Sensible
  <2>2. CASE Repaint(c) /\ At(c, "unpainting")
    <3>1. Others(c) /\ s.role = "none" /\ s.pc = "idle" /\ ~s.rolling /\ ~s.cancelled
      BY <1>1, <2>2, RestMoves DEF Repaint, At
    <3>. QED
      BY <3>1 DEF Sensible
  <2>. QED
    BY <2>1, <2>2
<1>4. MainInv'
  BY <1>1, <1>2, <1>3, MainStays DEF CallInv, MainInv
<1>5. Values'
  BY <1>1, ValuesStay DEF CallInv, Types
<1>. QED
  BY <1>1, <1>2, <1>3, <1>4, <1>5, BesideKeeps DEF Roles

\* A crash leaves nobody in flight, and an engine to be made anew.
LEMMA CrashKeeps ==
  ASSUME CallInv, Crash, FilesTypeOK'
  PROVE  CallInv'
<1>1. /\ up' = FALSE /\ call' = [c \in Callers |-> Resting]
      /\ downloading' = NoModel /\ owner' = NoOne /\ alone' = NoOne /\ settled' = TRUE
      /\ engine' = [model |-> config, sound |-> TRUE]
      /\ trayConfig' = config /\ titles' = Radio(config) /\ config' = config /\ config \in Models
  BY DEF Crash, CallInv, Types, Values
<1>2. /\ Resting \in Records /\ Resting.role = "none" /\ Resting.pc = "idle"
      /\ ~Resting.rolling /\ ~Resting.cancelled
  BY DEF Resting, Records, Roles, PCs
<1>3. Types'
  <2>1. Sensible(Resting)
    BY <1>2 DEF Sensible, Opening, Resolving, Switching, Updating, Preparing, Marking, Reading, SwitchRoles
  <2>2. Values'
    BY <1>1 DEF Values
  <2>. QED
    BY <1>1, <1>2, <2>1, <2>2 DEF Types
<1>4. \A c \in Callers : call'[c].role = "none"
  BY <1>1, <1>2
<1>5. MainInv' /\ OwnerInv'
  BY <1>1, <1>4 DEF MainInv, OwnerInv, Cancellable, Is
<1>6. SettledInv'
  <2>1. InFlight' = {} /\ engine.model' = config
    BY <1>1, <1>4 DEF InFlight, Switcher, Is
  <2>. QED
    BY <1>1, <2>1 DEF SettledInv, Fit
<1>. QED
  BY <1>3, <1>5, <1>6 DEF CallInv

(***************************************************************************)
(* Every step                                                              *)
(***************************************************************************)

SwitchInv == CallInv /\ FileInv

\* c is not about to write or rename a temporary file, and the others go on.
Aside(c) ==
  /\ UNCHANGED files
  /\ \A d \in Callers \ {c} : call'[d].model = call[d].model /\ call'[d].pc = call[d].pc
  /\ call'[c].pc \notin {"copy", "stat", "rename"}

\* Such a step keeps what is known of the files.
LEMMA AsideKeepsFiles ==
  ASSUME FileInv, NEW c \in Callers, Aside(c)
  PROVE  FileInv'
BY FilesStay DEF Aside, Writing

\* The steps that do not touch the files.
LEMMA StepsAside ==
  ASSUME CallInv, NEW c \in Callers,
         \/ TrayStep(c) \/ SwitchStep(c) \/ FinishCall(c) \/ Record(c) \/ Start(c) \/ StartFails(c)
         \/ \E m \in Models : BeginDirect(c, m) \/ AskToDelete(c, m)
         \/ AskToRecord(c) \/ Boot(c) \/ Reset(c) \/ BeginRefresh(c)
  PROVE  Aside(c)
<1>1. call \in [Callers -> Records]
  BY DEF CallInv, Types
<1>2. UNCHANGED files
  BY DEF TrayStep, SwitchStep, ClickAgain, Click, Restore, Unpaint, MarkOld, LookUp, Repaint, Cross,
         FinishClick, MarkChoice, BeginSwitch, Check, Load, LoadFails, Swap, Save, SaveFails,
         Refresh, Show, Fill, FinishCall, Record, Start, StartFails, BeginDirect, AskToDelete,
         AskToRecord, Boot, Reset, BeginRefresh
<1>3. ASSUME NEW m \in Models, ClickAgain(c, m) \/ Click(c, m)
      PROVE  Aside(c)
  <2>1. PICK role \in {"tray", "undo"}, p \in {"restore", "cross", "unpaint"} :
          At(c, "idle") /\ call' = [CancelOwner(Enter(c, role, p)) EXCEPT ![c].want = m]
    BY <1>3 DEF ClickAgain, Click
  <2>. DEFINE calls == CancelOwner(Enter(c, role, p))
  <2>2. /\ calls \in [Callers -> Records] /\ calls[c].pc = p
        /\ \A d \in Callers \ {c} : Alike(call[d], calls[d]) /\ calls[d].pc = call[d].pc
    BY <2>1, ClickEnters DEF CallInv
  <2>. HIDE DEF calls
  <2>3. \A r \in Records : [r EXCEPT !.want = m].pc = r.pc
    BY DEF Records
  <2>4. call'[c].pc = p /\ \A d \in Callers \ {c} : call'[d] = calls[d]
    <3>1. calls[c] \in Records
      BY <2>2
    <3>2. call'[c] = [calls[c] EXCEPT !.want = m] /\ \A d \in Callers \ {c} : call'[d] = calls[d]
      BY <2>1, <2>2 DEF calls
    <3>. QED
      BY <2>2, <2>3, <3>1, <3>2
  <2>. QED
    BY <1>2, <2>2, <2>4 DEF Aside, Alike
<1>4. ASSUME Rest(c) \/ End(c, TRUE) \/ End(c, FALSE)
      PROVE  Aside(c)
  BY <1>1, <1>2, <1>4, RestMoves, EndMoves DEF Aside, Others
<1>5. ASSUME NEW p \in PCs \ {"copy", "stat", "rename"}, Goto(c, p)
      PROVE  Aside(c)
  BY <1>1, <1>2, <1>5, GotoMoves DEF Aside, Others
<1>6. CASE MarkChoice(c) \/ FinishCall(c) \/ Record(c) \/ Start(c) \/ StartFails(c)
  BY <1>4, <1>6 DEF MarkChoice, FinishCall, Record, Start, StartFails
<1>7. CASE FinishClick(c) \/ Check(c) \/ LoadFails(c) \/ Swap(c) \/ Save(c) \/ Show(c) \/ Cross(c)
  <2>1. {"mark", "resolve", "save", "refresh", "fill", "begin"} \subseteq PCs \ {"copy", "stat", "rename"}
    BY DEF PCs, Switching, Resolving, Updating
  <2>. QED
    BY <1>4, <1>5, <1>7, <2>1 DEF FinishClick, Check, LoadFails, Swap, Save, Show, Cross
<1>8. CASE BeginSwitch(c) \/ Load(c) \/ SaveFails(c) \/ Refresh(c)
  <2>1. call[c] \in Records
    BY <1>1
  <2>3. CASE BeginSwitch(c)
    <3>1. call'[c] = [call[c] EXCEPT !.pc = "check", !.model = call[c].want, !.was = config]
          /\ \A d \in Callers \ {c} : call'[d] = call[d]
      BY <1>1, <2>3 DEF BeginSwitch
    <3>. QED
      BY <1>2, <2>1, <3>1 DEF Aside, Records
  <2>4. CASE Load(c)
    <3>1. call'[c] = [call[c] EXCEPT !.pc = "swap", !.sound = FileOf(call[c].model).sound]
          /\ \A d \in Callers \ {c} : call'[d] = call[d]
      BY <1>1, <2>4 DEF Load
    <3>. QED
      BY <1>2, <2>1, <3>1 DEF Aside, Records
  <2>5. CASE SaveFails(c)
    <3>1. call'[c] = [call[c] EXCEPT !.pc = "check", !.rolling = TRUE, !.model = call[c].was, !.was = NoModel]
          /\ \A d \in Callers \ {c} : call'[d] = call[d]
      BY <1>1, <2>5 DEF SaveFails
    <3>. QED
      BY <1>2, <2>1, <3>1 DEF Aside, Records
  <2>6. CASE Refresh(c)
    <3>1. call'[c] = [call[c] EXCEPT !.pc = "show", !.was = config]
          /\ \A d \in Callers \ {c} : call'[d] = call[d]
      BY <1>1, <2>6 DEF Refresh
    <3>. QED
      BY <1>2, <2>1, <3>1 DEF Aside, Records
  <2>. QED
    BY <1>8, <2>3, <2>4, <2>5, <2>6
<1>9. CASE AskToRecord(c) \/ Boot(c) \/ \E m \in Models : AskToDelete(c, m)
  <2>1. PICK m \in Models, rp \in {<<"record", "resolve">>, <<"delete", "remove">>, <<"main", "resolve">>} :
          At(c, "idle") /\ call' = [Enter(c, rp[1], rp[2]) EXCEPT ![c].model = m]
    <3>1. config \in Models
      BY DEF CallInv, Types, Values
    <3>2. CASE AskToRecord(c)
      BY <3>1, <3>2 DEF AskToRecord
    <3>3. CASE Boot(c)
      BY <3>1, <3>3 DEF Boot
    <3>4. CASE \E m \in Models : AskToDelete(c, m)
      BY <3>4 DEF AskToDelete
    <3>. QED
      BY <1>9, <3>2, <3>3, <3>4
  <2>2. rp[1] \in Roles /\ rp[2] \in PCs \ {"copy", "stat", "rename"}
    BY DEF Roles, PCs, Switching, Resolving
  <2>3. Others(c) /\ call'[c].pc = rp[2]
    BY <2>1, <2>2, EntersFor DEF CallInv
  <2>. QED
    BY <1>2, <2>2, <2>3 DEF Aside, Others
<1>10. ASSUME NEW m \in Models, BeginDirect(c, m)
       PROVE  Aside(c)
  <2>1. Others(c) /\ call'[c].pc = "check"
    BY <1>10, DirectEnters DEF CallInv
  <2>. QED
    BY <1>2, <2>1 DEF Aside, Others
<1>11. CASE Restore(c) \/ Unpaint(c) \/ MarkOld(c)
  <2>1. PICK p \in {"restoring", "unpainting", "marking"} :
          call' = [call EXCEPT ![c].pc = p, ![c].was = trayConfig]
    BY <1>11 DEF Restore, Unpaint, MarkOld, LookUp
  <2>2. call'[c].pc = p /\ \A d \in Callers \ {c} : call'[d] = call[d]
    BY <1>1, <2>1 DEF Records
  <2>. QED
    BY <1>2, <2>2 DEF Aside
<1>12. CASE Repaint(c)
  <2>1. CASE call' = [call EXCEPT ![c].pc = "cross", ![c].was = NoModel]
    <3>1. call'[c].pc = "cross" /\ \A d \in Callers \ {c} : call'[d] = call[d]
      BY <1>1, <2>1 DEF Records
    <3>. QED
      BY <1>2, <3>1 DEF Aside
  <2>. QED
    BY <1>4, <1>12, <2>1 DEF Repaint
<1>13. CASE Fill(c)
  <2>1. CASE call' = [call EXCEPT ![c] = [Resting EXCEPT !.role = "other", !.pc = "refresh"]]
    <3>1. call'[c].pc = "refresh" /\ \A d \in Callers \ {c} : call'[d] = call[d]
      BY <1>1, <2>1 DEF Resting
    <3>. QED
      BY <1>2, <3>1 DEF Aside
  <2>. QED
    BY <1>4, <1>13, <2>1 DEF Fill
<1>14. CASE Reset(c) \/ BeginRefresh(c)
  <2>1. Others(c) /\ call'[c].pc = "refresh"
    BY <1>14, RefresherEnters DEF CallInv, Reset, BeginRefresh
  <2>. QED
    BY <1>2, <2>1 DEF Aside, Others
<1>. QED
  BY <1>3, <1>6, <1>7, <1>8, <1>9, <1>10, <1>11, <1>12, <1>13, <1>14, ChosenAreModels
     DEF TrayStep, SwitchStep

\* Every step of a call keeps the invariant.
LEMMA StepKeeps ==
  ASSUME SwitchInv, NEW c \in Callers, Step(c)
  PROVE  SwitchInv'
<1>. USE DEF SwitchInv
<1>1. CallInv /\ FileInv /\ Types /\ WholeFiles
  BY DEF CallInv, FileInv
<1>2. CASE Resolve(c)
  <2>1. FileInv'
    BY <1>1, <1>2, ResolveKeepsFiles
  <2>. QED
    BY <1>1, <1>2, <2>1, ResolveKeeps DEF FileInv
<1>3. CASE Delete(c)
  <2>1. FileInv'
    BY <1>1, <1>3, DeleteKeepsFiles
  <2>. QED
    BY <1>1, <1>3, <2>1, BesideRests DEF FileInv
<1>4. CASE \/ TrayStep(c) \/ SwitchStep(c) \/ FinishCall(c) \/ Record(c) \/ Start(c) \/ StartFails(c)
           \/ \E m \in Models : BeginDirect(c, m) \/ AskToDelete(c, m)
           \/ AskToRecord(c) \/ Boot(c) \/ Reset(c) \/ BeginRefresh(c)
  <2>1. FileInv'
    BY <1>1, <1>4, StepsAside, AsideKeepsFiles
  <2>2. CASE TrayStep(c)
    <3>1. CASE \E m \in Clicked : ClickAgain(c, m) \/ Click(c, m)
      BY <1>1, <2>1, <3>1, ChosenAreModels, ClickAgainKeeps, ClickKeeps
    <3>2. CASE Repaint(c)
      BY <1>1, <2>1, <3>2, PrepareKeeps, UnpaintKeeps, MarkingKeeps DEF Repaint, At
    <3>3. CASE Restore(c) \/ Cross(c) \/ Unpaint(c) \/ MarkOld(c) \/ MarkChoice(c)
      BY <1>1, <2>1, <3>3, PrepareKeeps, UnpaintKeeps, MarkingKeeps
    <3>4. CASE FinishClick(c)
      BY <1>1, <2>1, <3>4, FinishClickKeeps
    <3>. QED
      BY <2>2, <3>1, <3>2, <3>3, <3>4 DEF TrayStep
  <2>3. CASE SwitchStep(c)
    <3>1. Switcher(c) \/ Refresh(c) \/ Show(c) \/ Fill(c)
      BY <1>1, <2>3, OnlySwitchersAreThere DEF SwitchStep, BeginSwitch, Check, Load, LoadFails, Swap, Save,
         SaveFails, At, Preparing
    <3>. QED
      BY <1>1, <2>1, <2>3, <3>1, SwitchStepKeeps, RefresherKeeps
  <2>4. CASE FinishCall(c) \/ Start(c)
    BY <1>1, <2>1, <2>4, FinishCallKeeps, StartKeeps
  <2>5. CASE Record(c) \/ StartFails(c)
    BY <1>1, <2>1, <2>5, BesideRests DEF FileInv
  <2>6. CASE \E m \in Models : BeginDirect(c, m)
    BY <1>1, <2>1, <2>6, BeginDirectKeeps
  <2>7. CASE AskToRecord(c) \/ \E m \in Models : AskToDelete(c, m)
    BY <1>1, <2>1, <2>7, AskKeeps
  <2>8. CASE Boot(c)
    BY <1>1, <2>1, <2>8, BootKeeps
  <2>9. CASE Reset(c) \/ BeginRefresh(c)
    BY <1>1, <2>1, <2>9, ResetKeeps, RefresherKeeps
  <2>. QED
    BY <1>4, <2>2, <2>3, <2>4, <2>5, <2>6, <2>7, <2>8, <2>9
<1>. QED
  BY <1>2, <1>3, <1>4 DEF Step

\* Steps that change nothing that the invariant speaks of.
LEMMA StillKeeps ==
  ASSUME SwitchInv, UNCHANGED <<files, up, config, engine, call, tray, history>>
  PROVE  SwitchInv'
<1>1. FileInv'
  BY DEF SwitchInv, FileInv, FilesTypeOK, TmpInv, WholeFiles, files, At
<1>2. Types' /\ MainInv' /\ OwnerInv'
  BY DEF SwitchInv, CallInv, Types, Values, MainInv, OwnerInv, Cancellable, Is, FilesTypeOK, files,
         tray, history
<1>3. SettledInv'
  <2>1. InFlight' = InFlight
    BY DEF InFlight, Switcher, Is
  <2>2. \A c \in Callers : AloneInv(c) => AloneInv(c)'
    BY DEF AloneInv, Fit, history
  <2>3. alone # NoOne => alone \in Callers
    BY DEF SwitchInv, CallInv, Types, Values
  <2>. QED
    BY <2>1, <2>2, <2>3 DEF SwitchInv, CallInv, SettledInv, Fit, history
<1>. QED
  BY <1>1, <1>2, <1>3 DEF SwitchInv, CallInv

\* The invariant holds.
LEMMA SwitchInvHolds == Spec => []SwitchInv
<1>1. Init => SwitchInv
  <2>. SUFFICES ASSUME Init PROVE SwitchInv
    OBVIOUS
  <2>1. /\ Resting \in Records /\ Resting.role = "none" /\ Resting.pc = "idle"
        /\ ~Resting.rolling /\ ~Resting.cancelled
    BY DEF Resting, Records, Roles, PCs
  <2>2. Sensible(Resting)
    BY <2>1 DEF Sensible, Opening, Resolving, Switching, Updating, Preparing, Marking, Reading, SwitchRoles
  <2>3. FileInv
    <3>1. /\ WholeFile \in Content /\ WholeFile.sound /\ Missing \in Content
          /\ Missing.there = FALSE
      BY DEF WholeFile, Missing, Content
    <3>2. PICK there \in SUBSET (Models \ Bundled) :
            dest = [m \in Models |-> IF m \in there THEN WholeFile ELSE Missing]
      BY DEF Init, FilesInit
    <3>3. tmp = [m \in Models |-> Missing] /\ at = [c \in Callers |-> "gone"]
      BY DEF Init, FilesInit
    <3>. QED
      BY <3>1, <3>2, <3>3 DEF FileInv, FilesTypeOK, TmpInv, WholeFiles
  <2>4. engine.model = DefaultModel /\ engine \in [model : Models, sound : {TRUE}]
    BY DefaultIsModel DEF Init
  <2>5. Types
    BY <2>1, <2>2, <2>3, <2>4, DefaultIsModel DEF Init, Types, Values, FileInv
  <2>6. \A c \in Callers : call[c].role = "none"
    BY <2>1 DEF Init
  <2>7. MainInv /\ OwnerInv /\ SettledInv
    <3>1. InFlight = {}
      BY <2>6 DEF InFlight, Switcher, Is
    <3>. QED
      BY <2>4, <2>6, <3>1 DEF Init, MainInv, OwnerInv, SettledInv, Cancellable, Is, Fit
  <2>. QED
    BY <2>3, <2>5, <2>7 DEF SwitchInv, CallInv
<1>2. SwitchInv /\ [Next]_vars => SwitchInv'
  <2>. SUFFICES ASSUME SwitchInv, [Next]_vars PROVE SwitchInv'
    OBVIOUS
  <2>1. ASSUME NEW c \in Callers, Step(c) PROVE SwitchInv'
    BY <2>1, StepKeeps
  <2>2. CASE StopRecording
    <3>1. UNCHANGED <<files, up, config, engine, call, tray, history>>
      BY <2>2 DEF StopRecording
    <3>. QED
      BY <3>1, StillKeeps
  <2>4. CASE Crash
    <3>1. FileInv'
      BY <2>4, CrashKeepsFiles DEF SwitchInv
    <3>. QED
      BY <2>4, <3>1, CrashKeeps DEF SwitchInv, FileInv
  <2>5. CASE UNCHANGED vars
    BY <2>5, StillKeeps DEF vars
  <2>. QED
    BY <2>1, <2>2, <2>4, <2>5 DEF Next
<1>. QED
  BY <1>1, <1>2, PTL DEF Spec

(***************************************************************************)
(* The menu                                                                *)
(***************************************************************************)

\* What a holder has in hand, while no two have overlapped: of the configuration
\* and of the tray's copy of it, what it read or saved still is so.
InHand(c) ==
  LET r == call[c]
  IN /\ r.pc \in {"restoring", "unpainting", "marking"} => r.was = trayConfig
     /\ r.pc \in Updating /\ Switcher(c) => config = r.want
     /\ r.pc \in {"show", "fill"} => r.was = config
     /\ r.pc = "fill" => trayConfig = config
     /\ r.pc \in {"finish", "mark"} => config = r.want /\ trayConfig = config

\* The tray knows the configured model, or is about to be told.
Told == trayConfig = config \/ \E c \in Holders : call[c].pc \in {"refresh", "show"}

\* The menu marks what the tray knows, or a click or a refresh is about to paint it.
Painting == {"unpaint", "unpainting", "mark", "marking", "fill"}
Marked ==
  \/ titles = Radio(trayConfig)
  \/ owner # NoOne
  \/ \E c \in Callers : call[c].pc \in Painting

MenuInv ==
  /\ disturbed \in BOOLEAN /\ crossed \in BOOLEAN
  /\ \A c, d \in Holders : c = d \/ disturbed
  /\ Holders # {} /\ disturbed => crossed
  /\ ~disturbed => \A c \in Holders : InHand(c)
  /\ up /\ ~crossed => Told /\ Marked

\* Only c can begin or cease to be a holder.
LEMMA OthersHold ==
  ASSUME NEW c \in Callers, Others(c)
  PROVE  \A d \in Callers \ {c} : call'[d] = call[d] /\ (Holding(d)' <=> Holding(d))
BY DEF Others, Holding, At, Is

\* The marks stay as they are, or as they are about to be.
LEMMA MarkedStays ==
  ASSUME Marked, NEW c \in Callers, Others(c), UNCHANGED <<trayConfig, titles, owner>>,
         call[c].pc \in Painting => call'[c].pc \in Painting
  PROVE  Marked'
BY DEF Marked, Others, Radio

\* A step that has nothing to do with what the menu is to show.
LEMMA MenuBeside ==
  ASSUME MenuInv, NEW c \in Callers, Others(c), ~Holding(c), ~Holding(c)',
         UNCHANGED <<config, trayConfig, disturbed>>, up' => up,
         crossed' \in BOOLEAN, crossed => crossed', Marked => Marked' \/ crossed'
  PROVE  MenuInv'
<1>1. Holders' = Holders /\ \A d \in Holders : d \in Callers \ {c} /\ call'[d] = call[d]
  BY OthersHold DEF Holders
<1>2. \A d \in Holders : InHand(d) => InHand(d)'
  BY <1>1 DEF InHand, Switcher, Is
<1>3. Told => Told'
  BY <1>1 DEF Told
<1>. QED
  BY <1>1, <1>2, <1>3 DEF MenuInv

\* Someone becomes a holder: if there is another, they overlap from now on.
LEMMA MenuClaims ==
  ASSUME MenuInv, NEW c \in Callers, Others(c), ~Holding(c), Holding(c)', Claims, InHand(c)',
         UNCHANGED <<up, trayConfig, titles, owner>>,
         config' = config \/ call'[c].pc = "refresh",
         call[c].pc \in Painting => call'[c].pc \in Painting
  PROVE  MenuInv'
<1>1. disturbed' \in BOOLEAN /\ crossed' \in BOOLEAN
  BY DEF Claims, MenuInv
<1>2. CASE Holders = {}
  <2>1. Holders' = {c} /\ ~disturbed' /\ (crossed' <=> crossed)
    BY <1>2, OthersHold DEF Holders, Claims, MenuInv
  <2>2. Told => Told'
    BY <1>2, <2>1 DEF Told
  <2>3. Marked => Marked'
    BY MarkedStays
  <2>. QED
    BY <1>1, <2>1, <2>2, <2>3 DEF MenuInv
<1>3. CASE Holders # {}
  <2>1. disturbed' /\ crossed'
    BY <1>3 DEF Claims
  <2>. QED
    BY <1>1, <2>1 DEF MenuInv
<1>. QED
  BY <1>2, <1>3

\* A holder goes on, or is done: something is to be shown only if it has not
\* overlapped with another.
LEMMA MenuGoesOn ==
  ASSUME MenuInv, NEW c \in Callers, Others(c), Holding(c), UNCHANGED <<up, disturbed>>,
         crossed' \in BOOLEAN, disturbed /\ crossed => crossed',
         ~disturbed /\ Holding(c)' => InHand(c)',
         ~disturbed /\ up /\ ~crossed' => Told' /\ Marked'
  PROVE  MenuInv'
<1>1. CASE disturbed
  <2>1. c \in Holders /\ crossed'
    BY <1>1 DEF Holders, MenuInv
  <2>. QED
    BY <1>1, <2>1 DEF MenuInv
<1>2. CASE ~disturbed
  <2>1. Holders = {c}
    BY <1>2 DEF Holders, MenuInv
  <2>2. Holders' \subseteq {c}
    BY <2>1, OthersHold DEF Holders
  <2>. QED
    BY <1>2, <2>2 DEF MenuInv, Holders
<1>. QED
  BY <1>1, <1>2 DEF MenuInv

\* What a holder knows that has not overlapped with another.
LEMMA LoneHolder ==
  ASSUME MenuInv, NEW c \in Callers, Holding(c), ~disturbed
  PROVE  InHand(c) /\ (up /\ ~crossed /\ call[c].pc \notin {"refresh", "show"} => trayConfig = config)
<1>1. Holders = {c}
  BY DEF Holders, MenuInv
<1>. QED
  BY <1>1 DEF MenuInv, Told

\* A click enters, and cancels the one before it, which then shows nothing.
LEMMA ClicksKeepMenu ==
  ASSUME CallInv, MenuInv, NEW c \in Callers, NEW m \in Models, ClickAgain(c, m) \/ Click(c, m)
  PROVE  MenuInv'
<1>1. PICK role \in {"tray", "undo"}, p \in {"restore", "cross", "unpaint"} :
        /\ At(c, "idle") /\ call' = [CancelOwner(Enter(c, role, p)) EXCEPT ![c].want = m]
        /\ p = "unpaint" \/ owner' = c
  BY DEF ClickAgain, Click
<1>. DEFINE calls == CancelOwner(Enter(c, role, p))
<1>2. UNCHANGED <<up, config, trayConfig, titles, overlap>>
  BY DEF ClickAgain, Click
<1>3. /\ calls \in [Callers -> Records] /\ calls[c].pc = p
      /\ \A d \in Callers \ {c} :
           /\ Alike(call[d], calls[d]) /\ calls[d].pc = call[d].pc
           /\ calls[d].cancelled <=> d = owner \/ call[d].cancelled
  BY <1>1, ClickEnters DEF CallInv
<1>. HIDE DEF calls
<1>4. /\ call'[c].pc = p
      /\ \A d \in Callers \ {c} :
           /\ Alike(call[d], call'[d]) /\ call'[d].pc = call[d].pc
           /\ call[d].cancelled => call'[d].cancelled
  <2>1. \A r \in Records : [r EXCEPT !.want = m].pc = r.pc
    BY DEF Records
  <2>2. call'[c] = [calls[c] EXCEPT !.want = m] /\ \A d \in Callers \ {c} : call'[d] = calls[d]
    BY <1>1, <1>3 DEF calls
  <2>3. calls[c] \in Records
    BY <1>3
  <2>. QED
    BY <1>3, <2>1, <2>2, <2>3
<1>5. \A d \in Callers : Holding(d)' => d # c /\ Holding(d)
  BY <1>4 DEF Holding, Alike, At, Is
<1>6. \A d \in Callers \ {c} : InHand(d) => InHand(d)'
  BY <1>2, <1>4 DEF InHand, Alike, Switcher, Is
<1>7. Told => Told'
  <2>1. \A d \in Holders : call[d].pc \in {"refresh", "show"} => d \in Holders' /\ call'[d].pc = call[d].pc
    BY <1>1, <1>4 DEF Holders, Holding, Alike, At, Is
  <2>. QED
    BY <1>2, <2>1 DEF Told
<1>8. Marked'
  BY <1>1, <1>4, NoOneIsNoCaller DEF Marked, Painting
<1>. QED
  BY <1>2, <1>5, <1>6, <1>7, <1>8 DEF MenuInv, Holders, overlap

\* A goroutine looks up the model that it will paint.
LEMMA LookUpKeepsMenu ==
  ASSUME CallInv, MenuInv, NEW c \in Callers, Restore(c) \/ Unpaint(c) \/ MarkOld(c)
  PROVE  MenuInv'
<1>1. PICK p \in {"restoring", "unpainting", "marking"} :
        /\ call' = [call EXCEPT ![c].pc = p, ![c].was = trayConfig] /\ Claims
        /\ call[c].pc \in {"restore", "unpaint"} \/ (call[c].pc = "mark" /\ ~call[c].ok)
        /\ call[c].pc \in Painting => p \in Painting
        /\ UNCHANGED <<up, config, trayConfig, titles, owner>>
  BY DEF Restore, Unpaint, MarkOld, LookUp, At, Painting, tray
<1>2. call \in [Callers -> Records] /\ trayConfig \in Models \cup {NoModel} /\ p \in PCs
  BY DEF CallInv, Types, Values, PCs
<1>3. Others(c) /\ call'[c].pc = p /\ call'[c].was = trayConfig
  <2>1. call' = [call EXCEPT ![c].pc = p, ![c].was = trayConfig]
    BY <1>1
  <2>. QED
    BY <1>2, <2>1, ReadMoves
<1>4. ~Holding(c) /\ Holding(c)' /\ InHand(c)'
  BY <1>1, <1>3 DEF Holding, InHand, Updating, At
<1>. QED
  BY <1>1, <1>3, <1>4, MenuClaims

\* It paints it.
LEMMA RepaintKeepsMenu ==
  ASSUME CallInv, MenuInv, NEW c \in Callers, Repaint(c)
  PROVE  MenuInv'
<1>1. /\ call[c].pc \in {"restoring", "unpainting", "marking"} /\ Holding(c)
      /\ titles' = Radio(call[c].was) /\ UNCHANGED <<up, config, trayConfig, overlap>>
  BY DEF Repaint, Holding
<1>2. Others(c) /\ call'[c].pc \in {"cross", "idle"}
  <2>1. call \in [Callers -> Records] /\ "cross" \in PCs
    BY DEF CallInv, Types, PCs
  <2>2. CASE call' = [call EXCEPT ![c].pc = "cross", ![c].was = NoModel]
    BY <2>1, <2>2, ReadMoves
  <2>3. CASE Rest(c)
    BY <2>1, <2>3, RestMoves
  <2>4. Rest(c) \/ call' = [call EXCEPT ![c].pc = "cross", ![c].was = NoModel]
    BY Zenon DEF Repaint
  <2>. QED
    BY <2>2, <2>3, <2>4
<1>3. ~Holding(c)'
  BY <1>2 DEF Holding, At
<1>4. ~disturbed /\ up /\ ~crossed => Told' /\ Marked'
  BY <1>1, LoneHolder DEF Told, Marked, InHand, Radio
<1>. QED
  BY <1>1, <1>2, <1>3, <1>4, MenuGoesOn DEF MenuInv, overlap

\* A click crosses its model off: the next click finds it, unless it has been
\* cancelled before.
LEMMA CrossKeepsMenu ==
  ASSUME CallInv, MenuInv, NEW c \in Callers, Cross(c)
  PROVE  MenuInv'
<1>1. /\ call[c].pc = "cross" /\ crossed' = (crossed \/ call[c].cancelled)
      /\ UNCHANGED <<up, config, trayConfig, owner, disturbed>>
  BY DEF Cross, At
<1>2. Others(c) /\ call'[c].pc = "begin"
  BY GotoMoves DEF Cross, CallInv, Types, PCs
<1>3. ~call[c].cancelled => owner # NoOne
  <2>1. Cancellable(c)
    BY <1>1
       DEF CallInv, Types, Sensible, Records, Roles, Cancellable, Is, Switching, Resolving, Updating, Marking
  <2>. QED
    BY <2>1, NoOneIsNoCaller DEF CallInv, OwnerInv
<1>4. ~Holding(c) /\ ~Holding(c)'
  BY <1>1, <1>2 DEF Holding, At
<1>5. crossed' \in BOOLEAN /\ (crossed => crossed') /\ (Marked' \/ crossed')
  <2>1. call[c].cancelled \in BOOLEAN
    BY DEF CallInv, Types, Records
  <2>. QED
    BY <1>1, <1>3, <2>1 DEF MenuInv, Marked
<1>. QED
  BY <1>1, <1>2, <1>4, <1>5, MenuBeside

\* A click has its answer.
LEMMA AnswerKeepsMenu ==
  ASSUME CallInv, MenuInv, NEW c \in Callers, FinishClick(c) \/ MarkChoice(c)
  PROVE  MenuInv'
<1>1. call \in [Callers -> Records] /\ call[c] \in Records /\ Sensible(call[c])
  BY DEF CallInv, Types
<1>2. CASE FinishClick(c) /\ call[c].cancelled
  <2>1. Rest(c) /\ call[c].pc = "finish" /\ UNCHANGED <<up, config, tray, overlap>>
    BY <1>2 DEF FinishClick, At, tray
  <2>2. Others(c) /\ call'[c].pc = "idle"
    BY <1>1, <2>1, RestMoves
  <2>3. ~Holding(c) /\ ~Holding(c)'
    BY <1>2, <2>1, <2>2 DEF Holding, At
  <2>4. Marked => Marked'
    BY <2>1, <2>2, MarkedStays DEF Painting, tray
  <2>. QED
    BY <2>1, <2>2, <2>3, <2>4, MenuBeside DEF MenuInv, tray, overlap
<1>3. CASE FinishClick(c) /\ ~call[c].cancelled
  <2>1. /\ Is(c, "tray") /\ Goto(c, "mark") /\ call[c].pc = "finish"
        /\ UNCHANGED <<up, config, trayConfig, titles, overlap>>
    BY <1>3 DEF FinishClick, At
  <2>2. Others(c) /\ call'[c].pc = "mark" /\ Same(call[c], call'[c])
    BY <1>1, <2>1, GotoMoves DEF PCs
  <2>3. Holding(c)' <=> Holding(c)
    BY <2>1, <2>2 DEF Holding, Same, Alike, At, Is
  <2>4. Marked'
    BY <2>2 DEF Marked, Painting
  <2>5. CASE Holding(c)
    <3>1. ~disturbed => InHand(c)' /\ (up /\ ~crossed => Told')
      BY <2>1, <2>2, <2>5, LoneHolder DEF InHand, Same, Alike, Updating, Told
    <3>. QED
      BY <2>1, <2>2, <2>4, <2>5, <3>1, MenuGoesOn DEF MenuInv, overlap
  <2>6. CASE ~Holding(c)
    BY <2>1, <2>2, <2>3, <2>4, <2>6, MenuBeside DEF MenuInv, overlap
  <2>. QED
    BY <2>5, <2>6
<1>4. CASE MarkChoice(c)
  <2>1. /\ Rest(c) /\ call[c].pc = "mark" /\ call[c].ok /\ titles' = Radio(call[c].want)
        /\ UNCHANGED <<up, config, trayConfig, overlap>>
    BY <1>4 DEF MarkChoice, At
  <2>2. Others(c) /\ call'[c].pc = "idle"
    BY <1>1, <2>1, RestMoves
  <2>3. Holding(c) /\ ~Holding(c)'
    <3>1. Is(c, "tray") /\ ~call[c].cancelled
      BY <1>1, <2>1 DEF Sensible, Records, Roles, Is, Switching, Resolving, Updating, Marking
    <3>. QED
      BY <2>1, <2>2, <3>1 DEF Holding, At
  <2>4. ~disturbed => Told' /\ Marked'
    BY <2>1, <2>3, LoneHolder DEF InHand, Told, Marked, Radio
  <2>. QED
    BY <2>1, <2>2, <2>3, <2>4, MenuGoesOn DEF MenuInv, overlap
<1>. QED
  BY <1>2, <1>3, <1>4

\* The tray is told of an update, and paints it.
LEMMA RefreshKeepsMenu ==
  ASSUME CallInv, MenuInv, NEW c \in Callers, Save(c) \/ Refresh(c) \/ Show(c) \/ Fill(c)
  PROVE  MenuInv'
<1>. DEFINE r == call[c]
            s == call'[c]
<1>1. call \in [Callers -> Records] /\ r \in Records /\ Sensible(r) /\ config \in Models
  BY DEF CallInv, Types, Values
<1>2. CASE Save(c)
  <2>1. /\ r.pc = "save" /\ config' = r.want /\ Goto(c, "refresh") /\ Claims
        /\ UNCHANGED <<up, trayConfig, titles, owner>>
    BY <1>2 DEF Save, At, tray
  <2>2. Others(c) /\ s.pc = "refresh" /\ Same(r, s)
    BY <1>1, <2>1, GotoMoves DEF PCs, Switching, Updating
  <2>3. Switcher(c)
    BY <2>1, OnlySwitchersAreThere DEF CallInv
  <2>4. ~Holding(c) /\ Holding(c)' /\ InHand(c)'
    BY <2>1, <2>2, <2>3 DEF Holding, InHand, Updating, Same, Alike, Switcher, At, Is
  <2>. QED
    BY <2>1, <2>2, <2>4, MenuClaims DEF Painting
<1>3. CASE Refresh(c)
  <2>1. r.pc = "refresh" /\ UNCHANGED <<up, config, tray>>
    BY <1>3 DEF Refresh, At
  <2>2. /\ Others(c) /\ s.pc = "show" /\ s.was = config /\ s.role = r.role /\ s.want = r.want
    BY <1>1, <1>3 DEF Refresh, Others, Records, PCs, Switching, Updating
  <2>3. Holding(c)'
    BY <2>2 DEF Holding
  <2>4. CASE Is(c, "other")
    <3>1. ~Holding(c) /\ Claims /\ InHand(c)'
      BY <1>3, <2>1, <2>2, <2>4 DEF Refresh, Holding, InHand, Switcher, At, Is
    <3>. QED
      BY <2>1, <2>2, <2>3, <3>1, MenuClaims DEF Painting, tray
  <2>5. CASE ~Is(c, "other")
    <3>1. Holding(c) /\ UNCHANGED overlap
      BY <1>3, <2>1, <2>5 DEF Refresh, Holding, At
    <3>2. ~disturbed => InHand(c)'
      BY <2>1, <2>2, <3>1, LoneHolder DEF InHand, Updating, Switcher, Is
    <3>3. Told' /\ (Marked => Marked')
      BY <2>1, <2>2, <2>3, MarkedStays DEF Told, Holders, Painting, tray
    <3>. QED
      BY <2>1, <2>2, <3>1, <3>2, <3>3, MenuGoesOn DEF MenuInv, overlap
  <2>. QED
    BY <2>4, <2>5
<1>4. CASE Show(c)
  <2>1. /\ r.pc = "show" /\ trayConfig' = r.was /\ Goto(c, "fill") /\ Holding(c)
        /\ UNCHANGED <<up, config, overlap>>
    BY <1>4 DEF Show, At, Holding
  <2>2. Others(c) /\ s.pc = "fill" /\ Same(r, s)
    BY <1>1, <2>1, GotoMoves DEF PCs, Switching, Updating
  <2>3. ~disturbed => InHand(c)' /\ Told'
    BY <2>1, <2>2, LoneHolder DEF InHand, Updating, Same, Alike, Told, Switcher, Is
  <2>4. Marked'
    BY <2>2 DEF Marked, Painting
  <2>. QED
    BY <2>1, <2>2, <2>3, <2>4, MenuGoesOn DEF MenuInv, overlap
<1>5. CASE Fill(c)
  <2>1. /\ r.pc = "fill" /\ titles' = Radio(r.was) /\ Holding(c) /\ crossed' = (crossed /\ disturbed)
        /\ UNCHANGED <<up, config, trayConfig, disturbed>>
    BY <1>5 DEF Fill, At, Holding
  <2>2. /\ Others(c)
        /\ \/ Switcher(c) /\ s.pc = "finish" /\ s.want = r.want
           \/ s.pc = "refresh" /\ s.role = "other"
           \/ s.pc = "idle"
    <3>1. CASE Switcher(c) /\ End(c, TRUE)
      BY <1>1, <3>1, EndMoves
    <3>2. CASE call' = [call EXCEPT ![c] = [Resting EXCEPT !.role = "other", !.pc = "refresh"]]
      BY <1>1, <3>2 DEF Resting, Others, Records, Roles, PCs, Switching, Updating
    <3>3. CASE Rest(c)
      BY <1>1, <3>3, RestMoves
    <3>. QED
      BY <1>5, <3>1, <3>2, <3>3 DEF Fill
  <2>3. ~disturbed => InHand(c)
    BY <2>1, LoneHolder
  <2>4. ~disturbed => Told' /\ Marked'
    BY <2>1, <2>3 DEF InHand, Told, Marked, Radio
  <2>5. ~disturbed /\ Holding(c)' => InHand(c)'
    BY <2>1, <2>2, <2>3 DEF InHand, Holding, Updating, At, Is
  <2>6. crossed' \in BOOLEAN /\ (disturbed /\ crossed => crossed')
    BY <2>1 DEF MenuInv
  <2>. QED
    BY <2>1, <2>2, <2>4, <2>5, <2>6, MenuGoesOn
<1>. QED
  BY <1>2, <1>3, <1>4, <1>5

\* A reset changes the configuration, and will tell the tray.
LEMMA ResetKeepsMenu ==
  ASSUME CallInv, MenuInv, NEW c \in Callers, Reset(c)
  PROVE  MenuInv'
<1>1. At(c, "idle") /\ call' = Enter(c, "reset", "refresh") /\ Claims /\ UNCHANGED <<up, tray>>
  BY DEF Reset
<1>2. Others(c) /\ call'[c].role = "reset" /\ call'[c].pc = "refresh"
  BY <1>1, RefresherEnters DEF CallInv
<1>3. ~Holding(c) /\ Holding(c)' /\ InHand(c)'
  BY <1>1, <1>2 DEF Holding, InHand, Switcher, At, Is
<1>. QED
  BY <1>1, <1>2, <1>3, MenuClaims DEF Painting, At, tray

\* What switches, recordings and deletions do before and after.
LEMMA AsideKeepsMenu ==
  ASSUME CallInv, MenuInv, NEW c \in Callers, Others(c),
         call[c].pc \in Resolving \cup {"begin", "check", "swap", "load", "save", "remove", "idle"}
           \/ (call[c].pc = "finish" /\ Is(c, "direct")),
         call'[c].pc \in Resolving \cup {"check", "swap", "load", "save", "remove", "idle"}
           \/ (call'[c].pc = "finish" /\ ~call'[c].ok)
           \/ (call'[c].pc = "refresh" /\ call'[c].role = "other"),
         UNCHANGED <<up, config, tray, overlap>>
  PROVE  MenuInv'
<1>1. ~Holding(c) /\ ~Holding(c)'
  BY DEF Holding, Resolving, At, Is
<1>2. Marked => Marked'
  BY MarkedStays DEF Painting, Resolving, tray
<1>. QED
  BY <1>1, <1>2, MenuBeside DEF MenuInv, tray, overlap

\* The steps of a switch before its save, and after its return.
LEMMA SwitchKeepsMenu ==
  ASSUME CallInv, WholeFiles, MenuInv, NEW c \in Callers,
         \/ BeginSwitch(c) \/ Check(c) \/ Load(c) \/ LoadFails(c) \/ Swap(c) \/ SaveFails(c)
         \/ FinishCall(c) \/ Resolve(c)
  PROVE  MenuInv'
<1>. DEFINE r == call[c]
            s == call'[c]
<1>1. /\ call \in [Callers -> Records] /\ r \in Records /\ Sensible(r) /\ config \in Models
  BY DEF CallInv, Types, Values
<1>2. CASE Resolve(c)
  <2>1. r.pc \in Resolving /\ UNCHANGED <<up, config, tray, overlap>> /\ Onward(c)
    BY <1>2, ResolveIsOnward DEF Onward
  <2>2. /\ Others(c) /\ Sensible(s)
        /\ \/ s.pc \in Resolving \cup {"load"}
           \/ s.pc = "finish" /\ ~s.ok
           \/ s.role = "none"
    BY <2>1, OnwardIsSensible DEF CallInv
  <2>3. s.role = "none" => s.pc = "idle"
    BY <2>2 DEF Sensible
  <2>. QED
    BY <2>1, <2>2, <2>3, AsideKeepsMenu
<1>3. \A p \in {"resolve", "save"} : Goto(c, p) => Others(c) /\ s.pc = p
  <2>1. {"resolve", "save"} \subseteq PCs
    BY DEF PCs, Switching, Resolving
  <2>. QED
    BY <1>1, <2>1, GotoMoves
<1>4. End(c, FALSE) => Others(c) /\ s.pc = "finish" /\ ~s.ok
  BY <1>1, EndMoves
<1>5. CASE Check(c) \/ LoadFails(c) \/ Swap(c)
  <2>1. r.pc \in {"check", "load", "swap"} /\ UNCHANGED <<up, config, tray, overlap>>
    BY <1>5 DEF Check, LoadFails, Swap, At
  <2>2. Goto(c, "resolve") \/ Goto(c, "save") \/ End(c, FALSE)
    BY <1>5 DEF Check, LoadFails, Swap
  <2>. QED
    BY <1>3, <1>4, <2>1, <2>2, AsideKeepsMenu DEF Resolving
<1>6. CASE BeginSwitch(c) \/ Load(c) \/ SaveFails(c)
  <2>1. r.pc \in {"begin", "load", "save"} /\ UNCHANGED <<up, config, tray, overlap>>
    BY <1>6 DEF BeginSwitch, Load, SaveFails, At
  <2>2. Others(c) /\ s.pc \in {"check", "swap"}
    <3>1. CASE BeginSwitch(c)
      BY <1>1, <3>1 DEF BeginSwitch, Others, Records, PCs, Switching
    <3>2. CASE Load(c)
      <4>1. r.model \in Models
        BY <1>1, <3>2 DEF Load, At, Sensible, Opening
      <4>2. FileOf(r.model).sound = TRUE
        BY <3>2, <4>1, WholeIsLoaded DEF Load, CallInv
      <4>. QED
        BY <1>1, <3>2, <4>2 DEF Load, Others, Records, PCs, Switching
    <3>3. CASE SaveFails(c)
      <4>1. r.was \in Models \cup {NoModel}
        BY <1>1 DEF Records
      <4>. QED
        BY <1>1, <3>3, <4>1 DEF SaveFails, Others, Records, PCs, Switching
    <3>. QED
      BY <1>6, <3>1, <3>2, <3>3
  <2>. QED
    BY <2>1, <2>2, AsideKeepsMenu
<1>7. CASE FinishCall(c)
  <2>1. Is(c, "direct") /\ r.pc = "finish" /\ Rest(c) /\ UNCHANGED <<up, config, tray, overlap>>
    BY <1>7 DEF FinishCall, At
  <2>2. Others(c) /\ s.pc = "idle"
    BY <1>1, <2>1, RestMoves
  <2>. QED
    BY <2>1, <2>2, AsideKeepsMenu
<1>. QED
  BY <1>2, <1>5, <1>6, <1>7

\* Whoever begins or ends something beside it.
LEMMA BesideKeepsMenu ==
  ASSUME CallInv, MenuInv, NEW c \in Callers,
         \/ Record(c) \/ StartFails(c) \/ Delete(c) \/ AskToRecord(c) \/ Boot(c) \/ BeginRefresh(c)
         \/ \E m \in Models : BeginDirect(c, m) \/ AskToDelete(c, m)
  PROVE  MenuInv'
<1>1. UNCHANGED <<up, config, tray, overlap>>
  BY DEF Record, StartFails, Delete, AskToRecord, Boot, BeginRefresh, BeginDirect, AskToDelete, Keep
<1>2. CASE Record(c) \/ StartFails(c) \/ Delete(c)
  <2>1. Rest(c) /\ call[c].pc \in {"load", "remove"}
    BY <1>2 DEF Record, StartFails, Delete, At
  <2>2. Others(c) /\ call'[c].pc = "idle"
    BY <2>1, RestMoves DEF CallInv, Types
  <2>. QED
    BY <1>1, <2>1, <2>2, AsideKeepsMenu
<1>3. CASE AskToRecord(c) \/ Boot(c) \/ \E m \in Models : AskToDelete(c, m)
  <2>1. PICK m \in Models, rp \in {<<"record", "resolve">>, <<"delete", "remove">>, <<"main", "resolve">>} :
          At(c, "idle") /\ call' = [Enter(c, rp[1], rp[2]) EXCEPT ![c].model = m]
    <3>1. config \in Models
      BY DEF CallInv, Types, Values
    <3>2. CASE AskToRecord(c)
      BY <3>1, <3>2 DEF AskToRecord
    <3>3. CASE Boot(c)
      BY <3>1, <3>3 DEF Boot
    <3>4. CASE \E m \in Models : AskToDelete(c, m)
      BY <3>4 DEF AskToDelete
    <3>. QED
      BY <1>3, <3>2, <3>3, <3>4
  <2>2. rp[1] \in Roles /\ rp[2] \in PCs /\ rp[2] \in {"resolve", "remove"}
    BY DEF Roles, PCs, Switching, Resolving
  <2>3. Others(c) /\ call'[c].pc = rp[2]
    BY <2>1, <2>2, EntersFor DEF CallInv
  <2>. QED
    BY <1>1, <2>1, <2>2, <2>3, AsideKeepsMenu DEF Resolving, At
<1>4. CASE BeginRefresh(c)
  <2>1. At(c, "idle") /\ Others(c) /\ call'[c].role = "other" /\ call'[c].pc = "refresh"
    BY <1>4, RefresherEnters DEF BeginRefresh, CallInv
  <2>. QED
    BY <1>1, <2>1, AsideKeepsMenu DEF At
<1>5. ASSUME NEW m \in Models, BeginDirect(c, m)
      PROVE  MenuInv'
  <2>1. call[c].pc = "idle" /\ Others(c) /\ call'[c].pc = "check"
    BY <1>5, DirectEnters DEF BeginDirect, At, CallInv
  <2>. QED
    BY <1>1, <2>1, AsideKeepsMenu
<1>. QED
  BY <1>2, <1>3, <1>4, <1>5

\* A start and a crash make the tray anew, with nobody there.
LEMMA AnewKeepsMenu ==
  ASSUME CallInv, Crash \/ \E c \in Callers : Start(c)
  PROVE  MenuInv'
<1>1. /\ ~disturbed' /\ disturbed' \in BOOLEAN /\ ~crossed' /\ crossed' \in BOOLEAN
      /\ trayConfig' = config /\ titles' = Radio(config) /\ config' = config
  BY DEF Crash, Start
<1>2. \A d \in Callers : call'[d].pc = "idle"
  <2>1. CASE Crash
    BY <2>1 DEF Crash, Resting
  <2>2. ASSUME NEW c \in Callers, Start(c)
        PROVE  \A d \in Callers : call'[d].pc = "idle"
    <3>1. Is(c, "main") /\ Rest(c)
      BY <2>2 DEF Start
    <3>2. ~up /\ \A d \in Callers \ {c} : call[d].role = "none"
      BY <3>1 DEF CallInv, MainInv, Is
    <3>3. \A d \in Callers \ {c} : call[d].pc = "idle"
      BY <3>2 DEF CallInv, Types, Sensible
    <3>. QED
      BY <3>1, <3>3, RestMoves DEF CallInv, Types, Others
  <2>. QED
    BY <2>1, <2>2
<1>3. Holders' = {}
  BY <1>2 DEF Holders, Holding, At
<1>. QED
  BY <1>1, <1>3 DEF MenuInv, Told, Marked, Radio

\* What the menu is to show is known through all of it.
LEMMA MenuInvHolds == Spec => []MenuInv
<1>1. Init => MenuInv
  <2>. SUFFICES ASSUME Init PROVE MenuInv
    OBVIOUS
  <2>1. Holders = {}
    BY DEF Init, Holders, Holding, Resting, At
  <2>. QED
    BY <2>1 DEF Init, MenuInv, Told, Marked
<1>2. SwitchInv /\ MenuInv /\ [Next]_vars => MenuInv'
  <2>. SUFFICES ASSUME SwitchInv, MenuInv, [Next]_vars PROVE MenuInv'
    OBVIOUS
  <2>. USE DEF SwitchInv, FileInv
  <2>1. ASSUME NEW c \in Callers, Step(c) PROVE MenuInv'
    <3>1. CASE TrayStep(c)
      BY <3>1, ChosenAreModels, ClicksKeepMenu, LookUpKeepsMenu, RepaintKeepsMenu, CrossKeepsMenu,
         AnswerKeepsMenu DEF TrayStep
    <3>2. CASE SwitchStep(c) \/ Resolve(c) \/ FinishCall(c)
      BY <3>2, SwitchKeepsMenu, RefreshKeepsMenu DEF SwitchStep
    <3>3. CASE Reset(c) \/ Start(c)
      BY <3>3, ResetKeepsMenu, AnewKeepsMenu
    <3>4. CASE \/ Record(c) \/ StartFails(c) \/ Delete(c) \/ AskToRecord(c) \/ Boot(c)
               \/ BeginRefresh(c) \/ \E m \in Models : BeginDirect(c, m) \/ AskToDelete(c, m)
      BY <3>4, BesideKeepsMenu
    <3>. QED
      BY <2>1, <3>1, <3>2, <3>3, <3>4 DEF Step
  <2>2. CASE Crash
    BY <2>2, AnewKeepsMenu
  <2>3. CASE StopRecording \/ UNCHANGED vars
    <3>1. UNCHANGED <<up, config, call, tray, overlap>>
      BY <2>3 DEF StopRecording, vars
    <3>2. Holders' = Holders /\ \A d \in Holders : InHand(d) <=> InHand(d)'
      BY <3>1 DEF Holders, Holding, InHand, Switcher, At, Is, tray
    <3>3. (Told <=> Told') /\ (Marked <=> Marked')
      BY <3>1, <3>2 DEF Told, Marked, Radio, tray
    <3>. QED
      BY <3>1, <3>2, <3>3 DEF MenuInv, overlap
  <2>. QED
    BY <2>1, <2>2, <2>3 DEF Next
<1>. QED
  BY <1>1, <1>2, SwitchInvHolds, PTL DEF Spec

(***************************************************************************)
(* What follows                                                            *)
(***************************************************************************)

\* A failed save rolls the engine back (actions.go): with no switch under way the
\* engine is the configured one.  Three things are excepted until a switch has had
\* the place for itself again: switches that overlapped, a rollback that failed, and
\* a reset, which configures the default model and leaves the old one's engine
\* (config_service.go).
THEOREM EngineFits == Spec => []EngineIsConfigured
<1>1. SwitchInv => EngineIsConfigured
  <2>. SUFFICES ASSUME SwitchInv, settled, InFlight = {} PROVE engine.model = config
    BY DEF EngineIsConfigured
  <2>. QED
    BY DEF SwitchInv, CallInv, SettledInv, Fit
<1>. QED
  BY <1>1, SwitchInvHolds, PTL

\* The atomic download (model_downloader.go): a model's file, and the file the
\* engine came from, is whole unless two downloads of the model overlapped.
THEOREM DownloadsAreAtomic == Spec => []ModelsAreWhole
<1>1. SwitchInv => ModelsAreWhole
  BY DEF SwitchInv, CallInv, FileInv, WholeFiles, Types, Values, ModelsAreWhole
<1>. QED
  BY <1>1, SwitchInvHolds, PTL

\* The tray's clicks (handleModelClick): once all calls are at rest, whatever they
\* switched, cancelled, reset and refreshed, the next click on a model is a choice.
THEOREM ClicksAreAnswered == Spec => []TrayAnswers
<1>1. SwitchInv => TrayAnswers
  <2>. SUFFICES ASSUME SwitchInv, \A c \in Callers : At(c, "idle")
                PROVE  owner = NoOne /\ downloading = NoModel
    BY DEF TrayAnswers
  <2>1. \A c \in Callers : call[c].role = "none"
    BY DEF SwitchInv, CallInv, Types, Sensible, At
  <2>. QED
    BY <2>1 DEF SwitchInv, CallInv, OwnerInv, Cancellable, Is, Types, Values
<1>. QED
  BY <1>1, SwitchInvHolds, PTL

\* Reading the configuration and painting it are steps of their own in updateUISettings
\* and in handleModelClick, and clicks, cancellations, resets and other refreshes
\* come between: at rest the menu marks the configured model all the same, unless
\* two that had yet to paint overlapped and no refresh was undisturbed since.
THEOREM MenuKeepsUp == Spec => []MenuMarks
<1>1. SwitchInv /\ MenuInv => MenuMarks
  <2>. SUFFICES ASSUME SwitchInv, MenuInv, \A c \in Callers : At(c, "idle"), up, ~crossed
                PROVE  titles = Radio(config)
    BY DEF MenuMarks
  <2>1. \A c \in Callers : call[c].role = "none"
    BY DEF SwitchInv, CallInv, Types, Sensible, At
  <2>2. owner = NoOne
    BY <2>1 DEF SwitchInv, CallInv, OwnerInv, Cancellable, Is, Types, Values
  <2>3. Holders = {}
    BY DEF Holders, Holding, At
  <2>. QED
    BY <2>2, <2>3 DEF MenuInv, Told, Marked, Painting, At
<1>. QED
  BY <1>1, SwitchInvHolds, MenuInvHolds, PTL

\* The marks of the menu, and what AudioService remembers besides its engine.
Shown ==
  /\ recording \in BOOLEAN /\ mu \in Callers \cup {NoOne}
  /\ titles \in [Models -> {"on", "off", "cross"}]

LEMMA RadioType == \A m : Radio(m) \in [Models -> {"on", "off", "cross"}]
  BY DEF Radio

LEMMA ShownStays == Shown /\ [Next]_vars => Shown'
<1>. SUFFICES ASSUME Shown, [Next]_vars PROVE Shown'
  OBVIOUS
<1>. USE RadioType DEF Shown
<1>1. CASE UNCHANGED <<recording, mu, titles>>
  BY <1>1
<1>2. CASE UNCHANGED vars \/ StopRecording \/ Crash
  BY <1>2 DEF vars, tray, StopRecording, Crash
<1>3. ASSUME NEW c \in Callers, TrayStep(c)
      PROVE  Shown'
  <2>1. CASE \E m \in Clicked : ClickAgain(c, m) \/ Click(c, m)
    BY <1>1, <2>1 DEF ClickAgain, Click
  <2>2. CASE Cross(c)
    <3>1. titles' = [titles EXCEPT ![call[c].want] = "cross"] /\ UNCHANGED <<recording, mu>>
      BY <2>2 DEF Cross
    <3>2. titles' \in [Models -> {"on", "off", "cross"}]
      BY <3>1
    <3>. QED
      BY <3>1, <3>2
  <2>3. CASE Repaint(c) \/ MarkChoice(c)
    BY <2>3 DEF Repaint, MarkChoice
  <2>5. CASE Restore(c) \/ Unpaint(c) \/ MarkOld(c)
    BY <1>1, <2>5 DEF Restore, Unpaint, MarkOld, LookUp, tray
  <2>4. CASE FinishClick(c)
    BY <1>1, <2>4 DEF FinishClick
  <2>. QED  BY <1>3, <2>1, <2>2, <2>3, <2>4, <2>5 DEF TrayStep
<1>4. ASSUME NEW c \in Callers, SwitchStep(c)
      PROVE  Shown'
  <2>1. CASE Fill(c)
    BY <2>1 DEF Fill
  <2>2. CASE \/ BeginSwitch(c) \/ Check(c) \/ Load(c) \/ LoadFails(c) \/ Swap(c)
             \/ Save(c) \/ SaveFails(c) \/ Refresh(c) \/ Show(c)
    BY <1>1, <2>2 DEF BeginSwitch, Check, Load, LoadFails, Swap, Save, SaveFails, Refresh, Show, tray
  <2>. QED  BY <1>4, <2>1, <2>2 DEF SwitchStep
<1>5. ASSUME NEW c \in Callers, Resolve(c)
      PROVE  Shown'
  <2>1. UNCHANGED <<recording, titles>>
    BY <1>5 DEF Resolve, FindModel, NeedModel, RequestFails, Create, Copied, NotCopied, Stat,
                Rename, NotRenamed, Drop, Valid, Invalid, Keep, tray
  <2>2. mu' = mu \/ mu' = NoOne
    BY <1>5 DEF Resolve, FindModel, NeedModel, RequestFails, Create, Copied, NotCopied, Stat,
                Rename, NotRenamed, Drop, Valid, Invalid, Fail
  <2>. QED  BY <2>1, <2>2
<1>6. ASSUME NEW c \in Callers,
             \/ FinishCall(c) \/ StartFails(c) \/ Boot(c) \/ Reset(c) \/ BeginRefresh(c)
             \/ \E m \in Models : BeginDirect(c, m)
      PROVE  Shown'
  <2>1. UNCHANGED <<recording, mu, titles>>
    BY <1>6 DEF FinishCall, StartFails, Boot, Reset, BeginRefresh, BeginDirect, Keep, tray
  <2>. QED  BY <1>1, <2>1
<1>7. ASSUME NEW c \in Callers,
             \/ Record(c) \/ Delete(c) \/ Start(c) \/ AskToRecord(c)
             \/ \E m \in Models : AskToDelete(c, m)
      PROVE  Shown'
  BY <1>7 DEF Record, Delete, Start, AskToRecord, AskToDelete, Keep, tray
<1>. QED
  BY <1>2, <1>3, <1>4, <1>5, <1>6, <1>7 DEF Next, Step

\* Whatever is clicked, switched, downloaded, recorded and deleted at once,
\* calls, files and menu are what the code knows them to be, and who waits for
\* AudioService.mu waits for a caller.
THEOREM SwitchTypes == Spec => []TypeOK
<1>1. Init => Shown
  BY RadioType DEF Init, Shown
<1>2. SwitchInv /\ MenuInv /\ Shown => TypeOK
  BY DEF SwitchInv, CallInv, Types, Values, Records, MenuInv, Shown, TypeOK
<1>. QED
  BY <1>1, <1>2, ShownStays, SwitchInvHolds, MenuInvHolds, PTL DEF Spec
=============================================================================
