------------------------- MODULE OutputRouting_proofs -------------------------
(***************************************************************************)
(* Theorems about OutputRouting, for every set of callers, machines and    *)
(* configs.  A call that overlaps no other one (a solo) finds what it left *)
(* at its last step; what is proved of mode and outputter is proved along  *)
(* its places.                                                             *)
(***************************************************************************)
EXTENDS OutputRouting, TLAPS

Types ==
  /\ config \in Config /\ raced \subseteq Callers /\ unfit \subseteq Callers
  /\ role \in [Callers -> {"text", "setter"}]
  /\ pc \in [Callers -> Active \cup Resting]
  /\ mode \in [Callers -> Modes] /\ ascii \in [Callers -> BOOLEAN]
  /\ DOMAIN out = Callers /\ spoiled \in BOOLEAN

\* Calls under way together are raced, and so is whatever they leave.
RaceInv ==
  /\ \A c \in raced : pc[c] \in Active
  /\ raced # {} => spoiled
  /\ \A c, d \in Callers : pc[c] \in Active /\ pc[d] \in Active /\ c # d => c \in raced

Solo == {c \in Callers : pc[c] \in Active} \ raced

Fits == Serves(outputter, config.mode)

\* What a solo call relies on at its place.
PlaceInv(c) ==
  /\ role[c] = "setter" => pc[c] \notin {"read", "try", "retry"}
  /\ role[c] = "text" => pc[c] # "persistAgain"
  /\ pc[c] = "read" => out[c] = outputter
  /\ pc[c] = "try" => out[c] = outputter /\ mode[c] = config.mode
  /\ pc[c] \in {"read", "try", "persist"} => spoiled \/ Fits
  /\ pc[c] \notin {"read", "try"} => mode[c] # "other"
  /\ pc[c] \in {"persistAgain", "create", "set", "retry"} => mode[c] = config.mode
  /\ pc[c] = "set" => out[c] = GetOutputter(config, machine) /\ out[c] # NoOutputter
  /\ pc[c] = "retry" => outputter = GetOutputter(config, machine) /\ outputter # NoOutputter

\* What the mode that is being given up cannot do on this machine.
HalfHopeless(t) ==
  IF mode[t] = "clipboard" THEN ~TypeWorks(CreateTypeOutputter(config, machine), machine, ascii[t])
                           ELSE ~CopyWorks(CreateClipboardOutputter(config, machine), machine)

\* What a text relies on that found the outputter in place.
TextInv(t) ==
  /\ pc[t] \in {"read", "try"} => InPlace
  /\ pc[t] = "persist" => config.mode # "other" /\ mode[t] = OtherMode(config.mode)
  /\ pc[t] \notin {"read", "try"} => HalfHopeless(t)

RoutingInv ==
  /\ Types /\ RaceInv /\ FitAtRest
  /\ \A c \in Solo : PlaceInv(c)
  /\ \A t \in Solo \ unfit : role[t] = "text" => TextInv(t)

(***************************************************************************)
(* What the factory makes                                                  *)
(***************************************************************************)

\* A clipboard outputter has a clipboard tool and types nothing.
LEMMA ClipboardOutputter ==
  ASSUME NEW cfg \in Config, NEW m
  PROVE  /\ CreateClipboardOutputter(cfg, m).type = "none"
         /\ \/ CreateClipboardOutputter(cfg, m) = NoOutputter
            \/ CreateClipboardOutputter(cfg, m).clip # "none"
  BY DEF CreateClipboardOutputter, NoOutputter, Usable, IsCommandAllowed, Config, Tools,
         ClipboardTools, TypeTools

\* A type outputter types.
LEMMA TypeOutputter ==
  ASSUME NEW cfg \in Config, NEW m
  PROVE  \/ CreateTypeOutputter(cfg, m) = NoOutputter
         \/ CreateTypeOutputter(cfg, m).type # "none"
<1>1. CASE UsesPortal(cfg, m)
  BY <1>1 DEF CreateTypeOutputter
<1>2. CASE ~UsesPortal(cfg, m)
  BY <1>2 DEF CreateTypeOutputter, NoOutputter, Usable, IsCommandAllowed, Config, Tools,
              ClipboardTools, TypeTools
<1>. QED  BY <1>1, <1>2

\* The outputter made for a mode serves it.
LEMMA MadeServes ==
  ASSUME NEW cfg \in Config, NEW m, GetOutputter(cfg, m) # NoOutputter, cfg.mode # "other"
  PROVE  Serves(GetOutputter(cfg, m), cfg.mode)
<1>1. cfg.mode \in {"clipboard", "active_window"}
  BY DEF Config, Modes
<1>. QED  BY <1>1, ClipboardOutputter, TypeOutputter DEF GetOutputter, Serves

\* Which tools are chosen does not depend on the mode.
LEMMA ModeChoosesNoTool ==
  ASSUME NEW cfg \in Config, NEW x \in Modes, NEW m
  PROVE  LET other == [cfg EXCEPT !.mode = x]
         IN /\ CreateClipboardOutputter(other, m) = CreateClipboardOutputter(cfg, m)
            /\ CreateTypeOutputter(other, m) = CreateTypeOutputter(cfg, m)
<1>. DEFINE other == [cfg EXCEPT !.mode = x]
<1>1. other.clipboardTool = cfg.clipboardTool /\ other.typeTool = cfg.typeTool /\ other.allowed = cfg.allowed
  BY DEF Config
<1>. HIDE DEF other
<1>2. SelectTypeTool(other, m) = SelectTypeTool(cfg, m)
  BY <1>1 DEF SelectTypeTool
<1>3. CreateClipboardOutputter(other, m) = CreateClipboardOutputter(cfg, m)
  BY <1>1 DEF CreateClipboardOutputter, SelectClipboardTool, Usable, IsCommandAllowed
<1>4. CreateTypeOutputter(other, m) = CreateTypeOutputter(cfg, m)
  BY <1>1, <1>2, <1>3 DEF CreateTypeOutputter, UsesPortal, Usable, IsCommandAllowed
<1>. QED  BY <1>3, <1>4 DEF other

\* What delivers a text has what the mode asks for.
LEMMA TypingTypes ==
  ASSUME NEW o, NEW m, NEW a, TypeWorks(o, m, a)
  PROVE  o.type # "none"
  BY DEF TypeWorks

\* An outputter that delivers a text in a mode serves that mode.
LEMMA DeliverersServe ==
  ASSUME NEW t \in Callers, NEW o, NEW x, Delivers(t, o, x)
  PROVE  Serves(o, x)
  BY TypingTypes DEF Delivers, Serves, CopyWorks

(***************************************************************************)
(* The ways of a call                                                      *)
(***************************************************************************)

\* Nobody else is under way beside a solo call.
LEMMA Alone ==
  ASSUME RaceInv, NEW c \in Solo, NEW d \in Callers, d # c
  PROVE  pc[d] \notin Active
  BY DEF RaceInv, Solo

\* A call goes on.
LEMMA GoesOn ==
  ASSUME RoutingInv, Types', NEW c \in Callers, pc[c] \in Active,
         NEW there \in Active, Goto(c, there), UNCHANGED history,
         c \in Solo => /\ PlaceInv(c)'
                       /\ c \notin unfit /\ role'[c] = "text" => TextInv(c)'
  PROVE  RoutingInv'
<1>. USE DEF RoutingInv
<1>1. /\ pc'[c] \in Active /\ UNCHANGED <<raced, unfit, spoiled>>
      /\ \A d \in Callers : (pc'[d] \in Active) = (pc[d] \in Active)
  BY DEF Goto, Types, history
<1>2. RaceInv'
  BY <1>1 DEF RaceInv, Types
<1>3. FitAtRest'
  BY <1>1 DEF FitAtRest, Idle
<1>4. ASSUME NEW d \in Solo' PROVE d = c /\ c \in Solo
  BY <1>1, <1>4 DEF Solo, RaceInv
<1>. QED  BY <1>1, <1>2, <1>3, <1>4

\* A call returns: it leaves things as they are known to be, or fitting.
LEMMA Leaves ==
  ASSUME RoutingInv, Types', NEW c \in Callers, pc[c] \in Active,
         NEW how \in Resting, Leave(c, how), spoiled' \/ (c \notin raced /\ Fits')
  PROVE  RoutingInv'
<1>. USE DEF RoutingInv
<1>1. /\ pc'[c] = how /\ how \notin Active /\ raced' = raced \ {c}
      /\ \A d \in Callers \ {c} : pc'[d] = pc[d]
  BY DEF Leave, Goto, Types, Active, Resting
<1>2. RaceInv'
  <2>1. raced' # {} => spoiled'
    BY <1>1 DEF RaceInv, Types
  <2>. QED  BY <1>1, <2>1 DEF RaceInv, Types
<1>3. FitAtRest'
  <2>1. ASSUME ~spoiled' PROVE Fits'
    BY <2>1
  <2>. QED  BY <2>1 DEF FitAtRest, Fits
<1>4. Solo' = {}
  BY <1>1 DEF Solo, RaceInv
<1>. QED  BY <1>2, <1>3, <1>4

\* A call begins, and finds what the last one left when it is alone.
LEMMA Begins ==
  ASSUME RoutingInv, Types', NEW c \in Callers, Begin(c), NEW there \in Active, Goto(c, there),
         UNCHANGED <<machine, config, outputter>>,
         Others(c) = {} => /\ PlaceInv(c)'
                           /\ InPlace /\ role'[c] = "text" => TextInv(c)'
  PROVE  RoutingInv'
<1>. USE DEF RoutingInv
<1>1. /\ pc[c] \notin Active /\ pc'[c] \in Active
      /\ \A d \in Callers \ {c} : pc'[d] = pc[d]
  BY DEF Begin, Goto, Types, Active, Resting
<1>2. FitAtRest'
  BY <1>1 DEF FitAtRest, Idle
<1>3. CASE Others(c) = {}
  <2>1. /\ raced' = raced /\ spoiled' = spoiled /\ \A d \in Callers \ {c} : pc[d] \notin Active
        /\ unfit' = IF InPlace THEN unfit ELSE unfit \cup {c}
    BY <1>3 DEF Begin, Others, Types
  <2>2. RaceInv'
    BY <1>1, <2>1 DEF RaceInv, Types
  <2>3. \A d \in Solo' : d = c
    BY <1>1, <2>1 DEF Solo
  <2>4. c \notin unfit' => InPlace
    BY <2>1
  <2>. QED  BY <1>2, <1>3, <2>2, <2>3, <2>4
<1>4. CASE Others(c) # {}
  <2>1. raced' = raced \cup Others(c) \cup {c} /\ spoiled'
    BY <1>4 DEF Begin
  <2>2. \A d \in Callers : pc'[d] \in Active <=> d = c \/ d \in Others(c)
    BY <1>1 DEF Others
  <2>3. RaceInv'
    BY <1>1, <2>1, <2>2 DEF RaceInv, Types
  <2>4. Solo' = {}
    BY <2>1, <2>2 DEF Solo
  <2>. QED  BY <1>2, <2>3, <2>4
<1>. QED  BY <1>3, <1>4

(***************************************************************************)
(* The steps                                                               *)
(***************************************************************************)

\* A container has an outputter that fits its config, or an unknown mode.
LEMMA InitRouting == Init => RoutingInv
<1>. SUFFICES ASSUME Init PROVE RoutingInv
  OBVIOUS
<1>1. PICK cfg \in Configs :
        LET started == Container(cfg, machine)
        IN /\ started.outputter.clip # "none" \/ started.outputter.type # "none"
           /\ config = started.config /\ outputter = started.outputter
  BY DEF Init
<1>2. cfg \in Config
  BY ConfigsAreConfigs
<1>3. config \in Config /\ (config.mode # "other" => Fits)
  <2>1. CASE GetOutputter(cfg, machine) # NoOutputter
    <3>1. config = cfg /\ outputter = GetOutputter(cfg, machine)
      BY <1>1, <2>1 DEF Container
    <3>. QED  BY <1>2, <2>1, <3>1, MadeServes DEF Fits
  <2>2. CASE GetOutputter(cfg, machine) = NoOutputter
    <3>1. /\ config = [cfg EXCEPT !.mode = "clipboard", !.clipboardTool = FallbackTool(machine)]
          /\ outputter = [clip |-> FallbackTool(machine), type |-> "none", allowed |-> cfg.allowed]
          /\ outputter.clip # "none" \/ outputter.type # "none"
      BY <1>1, <2>2 DEF Container
    <3>2. FallbackTool(machine) \in ClipboardTools
      BY <3>1 DEF FallbackTool, ClipboardTools
    <3>. QED  BY <1>2, <3>1, <3>2 DEF Config, Modes, Fits, Serves
  <2>. QED  BY <2>1, <2>2
<1>4. Types
  BY <1>3 DEF Init, Types, Active, Resting, Modes
<1>5. RaceInv /\ Solo = {}
  BY DEF Init, RaceInv, Solo, Active
<1>6. FitAtRest
  BY <1>3 DEF Init, FitAtRest, Fits
<1>. QED  BY <1>4, <1>5, <1>6 DEF RoutingInv

\* What a call does to the types when it returns.
LEMMA LeaveTypes ==
  ASSUME Types, NEW c \in Callers, NEW how \in Resting, Leave(c, how), config' = config,
         spoiled' \in BOOLEAN
  PROVE  Types'
  BY DEF Types, Leave, Goto, Modes

\* A text takes the outputter of the moment; what it finds fits, or is unfit.
LEMMA TakeKeeps ==
  ASSUME RoutingInv, NEW c \in Callers, TakeOutputter(c)
  PROVE  RoutingInv'
<1>. USE DEF TakeOutputter
<1>1. Types'
  BY DEF RoutingInv, Types, Begin, Others, Goto, Active
<1>2. ASSUME Others(c) = {}
      PROVE  /\ PlaceInv(c)' /\ (InPlace /\ role'[c] = "text" => TextInv(c)')
  <2>1. pc'[c] = "read" /\ role'[c] = "text" /\ out'[c] = outputter'
    BY DEF RoutingInv, Types, Goto
  <2>2. spoiled \/ Fits
    BY <1>2 DEF RoutingInv, Types, FitAtRest, Fits, Idle, Others, Begin, Active, Resting
  <2>3. spoiled' = spoiled /\ Fits' = Fits /\ InPlace' = InPlace
    BY <1>2 DEF Begin, RoutingInv, Types, Fits, InPlace
  <2>. QED  BY <2>1, <2>2, <2>3 DEF PlaceInv, TextInv
<1>. QED  BY <1>1, <1>2, Begins DEF Active

\* The user chooses a mode; nothing has changed yet.
LEMMA ChooseKeeps ==
  ASSUME RoutingInv, NEW c \in Callers, Choose(c)
  PROVE  RoutingInv'
<1>. USE DEF Choose
<1>1. Types'
  BY DEF RoutingInv, Types, Begin, Others, Goto, Active, Modes
<1>2. ASSUME Others(c) = {}
      PROVE  /\ PlaceInv(c)' /\ (InPlace /\ role'[c] = "text" => TextInv(c)')
  <2>1. pc'[c] = "persist" /\ role'[c] = "setter" /\ mode'[c] # "other"
    BY DEF RoutingInv, Types, Goto
  <2>2. spoiled \/ Fits
    BY <1>2 DEF RoutingInv, Types, FitAtRest, Fits, Idle, Others, Begin, Active, Resting
  <2>3. spoiled' = spoiled /\ Fits' = Fits
    BY <1>2 DEF Begin, RoutingInv, Types, Fits
  <2>. QED  BY <2>1, <2>2, <2>3 DEF PlaceInv
<1>. QED  BY <1>1, <1>2, Begins DEF Active

\* Alone, a text reads the mode that goes with its outputter.
LEMMA ReadKeeps ==
  ASSUME RoutingInv, NEW c \in Callers, ReadMode(c)
  PROVE  RoutingInv'
<1>. USE DEF ReadMode
<1>1. Types'
  BY DEF RoutingInv, Types, Goto, Active, history, Config
<1>2. ASSUME c \in Solo
      PROVE  /\ PlaceInv(c)' /\ (c \notin unfit /\ role'[c] = "text" => TextInv(c)')
  <2>1. /\ pc'[c] = "try" /\ role'[c] = role[c] /\ out'[c] = out[c] /\ mode'[c] = config.mode
        /\ UNCHANGED <<outputter, config, machine, spoiled>>
    BY DEF RoutingInv, Types, Goto, history
  <2>2. PlaceInv(c) /\ (c \notin unfit /\ role[c] = "text" => TextInv(c))
    BY <1>2 DEF RoutingInv
  <2>3. Fits' = Fits /\ InPlace' = InPlace
    BY <2>1 DEF Fits, InPlace
  <2>. QED  BY <2>1, <2>2, <2>3 DEF PlaceInv, TextInv
<1>. QED  BY <1>1, <1>2, GoesOn DEF Active

\* Mode and outputter that fit do not match an unknown mode.
LEMMA InPlaceIsKnown ==
  ASSUME config \in Config, InPlace
  PROVE  config.mode # "other"
  BY ClipboardOutputter DEF InPlace, GetOutputter, Serves

\* The first try: a success shows that the outputter serves, a failure what
\* this mode cannot do.
LEMMA DeliverKeeps ==
  ASSUME RoutingInv, NEW c \in Callers, Deliver(c)
  PROVE  RoutingInv'
<1>. USE DEF Deliver
<1>1. CASE Delivers(c, out[c], mode[c])
  <2>1. Leave(c, "idle") /\ spoiled' = (spoiled /\ c \in raced) /\ UNCHANGED <<config, outputter>>
    BY <1>1 DEF Succeed
  <2>2. ASSUME c \notin raced PROVE Fits'
    <3>1. PlaceInv(c) /\ pc[c] = "try"
      BY <2>2 DEF RoutingInv, Solo, Active
    <3>2. Delivers(c, outputter, config.mode)
      BY <1>1, <3>1 DEF PlaceInv
    <3>. QED  BY <2>1, <3>2, DeliverersServe DEF Fits
  <2>3. c \in raced => spoiled
    BY DEF RoutingInv, RaceInv
  <2>4. Types'
    BY <2>1, LeaveTypes DEF RoutingInv, Types, Resting
  <2>. QED  BY <2>1, <2>2, <2>3, <2>4, Leaves DEF Active, Resting
<1>2. CASE ~Delivers(c, out[c], mode[c])
  <2>1. /\ Goto(c, "persist") /\ mode' = [mode EXCEPT ![c] = OtherMode(@)]
        /\ UNCHANGED <<machine, config, outputter, role, out, ascii, history>>
    BY <1>2
  <2>2. Types' /\ pc'[c] = "persist" /\ mode'[c] = OtherMode(mode[c]) /\ mode'[c] # "other"
    BY <2>1 DEF RoutingInv, Types, Goto, Active, history, OtherMode, Modes
  <2>3. ASSUME c \in Solo
        PROVE  /\ PlaceInv(c)' /\ (c \notin unfit /\ role'[c] = "text" => TextInv(c)')
    <3>1. PlaceInv(c) /\ pc[c] = "try" /\ (c \notin unfit /\ role[c] = "text" => TextInv(c))
      BY <2>3 DEF RoutingInv
    <3>2. PlaceInv(c)'
      BY <2>1, <2>2, <3>1 DEF PlaceInv, Fits, history
    <3>3. ASSUME c \notin unfit, role[c] = "text" PROVE TextInv(c)'
      <4>1. InPlace /\ config.mode # "other" /\ outputter = GetOutputter(config, machine)
        BY <3>1, <3>3, InPlaceIsKnown DEF TextInv, RoutingInv, Types, InPlace
      <4>2. ~Delivers(c, GetOutputter(config, machine), config.mode) /\ mode[c] = config.mode
        BY <1>2, <3>1, <4>1 DEF PlaceInv
      <4>3. HalfHopeless(c)'
        <5>1. CASE config.mode = "clipboard"
          BY <2>1, <2>2, <4>2, <5>1 DEF HalfHopeless, Delivers, GetOutputter, OtherMode
        <5>2. CASE config.mode = "active_window"
          BY <2>1, <2>2, <4>2, <5>2 DEF HalfHopeless, Delivers, GetOutputter, OtherMode
        <5>. QED  BY <4>1, <5>1, <5>2 DEF RoutingInv, Types, Config, Modes
      <4>. QED  BY <2>1, <2>2, <4>1, <4>2, <4>3 DEF TextInv
    <3>. QED  BY <2>1, <3>2, <3>3
  <2>. QED  BY <2>1, <2>2, <2>3, GoesOn DEF Active
<1>. QED  BY <1>1, <1>2

\* The second try ends the call.
LEMMA RedeliverKeeps ==
  ASSUME RoutingInv, NEW c \in Callers, Redeliver(c)
  PROVE  RoutingInv'
<1>. USE DEF Redeliver
<1>1. CASE Delivers(c, outputter, mode[c])
  <2>1. Leave(c, "idle") /\ spoiled' = (spoiled /\ c \in raced) /\ UNCHANGED <<config, outputter>>
    BY <1>1 DEF Succeed
  <2>2. ASSUME c \notin raced PROVE Fits'
    <3>1. mode[c] = config.mode
      BY <2>2 DEF RoutingInv, Solo, Active, PlaceInv
    <3>. QED  BY <1>1, <2>1, <3>1, DeliverersServe DEF Fits
  <2>3. c \in raced => spoiled
    BY DEF RoutingInv, RaceInv
  <2>4. Types'
    BY <2>1, LeaveTypes DEF RoutingInv, Types, Resting
  <2>. QED  BY <2>1, <2>2, <2>3, <2>4, Leaves DEF Active, Resting
<1>2. CASE ~Delivers(c, outputter, mode[c])
  <2>1. Leave(c, "failed") /\ spoiled' = TRUE /\ config' = config
    BY <1>2 DEF Fail
  <2>. QED  BY <2>1, LeaveTypes, Leaves DEF RoutingInv, Active, Resting
<1>. QED  BY <1>1, <1>2

\* The mode is saved, or the call fails and leaves everything as it was.
LEMMA UpdateKeeps ==
  ASSUME RoutingInv, NEW c \in Callers, UpdateOutputMode(c)
  PROVE  RoutingInv'
<1>. USE DEF UpdateOutputMode
<1>0. pc[c] \in {"persist", "persistAgain"} /\ pc[c] \in Active
  BY DEF Active
<1>1. CASE /\ Goto(c, AfterPersist(c)) /\ config' = [config EXCEPT !.mode = mode[c]]
           /\ UNCHANGED <<machine, outputter, role, out, mode, ascii, history>>
  <2>1. /\ Types' /\ pc'[c] = AfterPersist(c) /\ AfterPersist(c) \in {"persistAgain", "create"}
        /\ config'.mode = mode[c] /\ config \in Config /\ mode[c] \in Modes
    BY <1>1 DEF RoutingInv, Types, Goto, Active, history, AfterPersist, Config
  <2>2. ASSUME c \in Solo
        PROVE  /\ PlaceInv(c)' /\ (c \notin unfit /\ role'[c] = "text" => TextInv(c)')
    <3>1. PlaceInv(c) /\ (c \notin unfit /\ role[c] = "text" => TextInv(c))
      BY <2>2 DEF RoutingInv
    <3>2. PlaceInv(c)'
      BY <1>0, <1>1, <2>1, <3>1 DEF PlaceInv, AfterPersist
    <3>3. ASSUME c \notin unfit, role[c] = "text" PROVE TextInv(c)'
      <4>1. HalfHopeless(c)
        BY <1>0, <3>1, <3>3 DEF TextInv
      <4>2. HalfHopeless(c)'
        BY <1>1, <2>1, <4>1, ModeChoosesNoTool DEF HalfHopeless
      <4>. QED  BY <2>1, <4>2 DEF TextInv
    <3>. QED  BY <1>1, <3>2, <3>3
  <2>. QED  BY <1>0, <1>1, <2>1, <2>2, GoesOn DEF Active
<1>2. CASE /\ Leave(c, "failed") /\ spoiled' = (spoiled \/ pc[c] = "persistAgain")
           /\ UNCHANGED <<config, outputter>>
  <2>1. Types'
    BY <1>2, LeaveTypes DEF RoutingInv, Types, Resting
  <2>2. spoiled' \/ (c \notin raced /\ Fits')
    <3>1. CASE c \in raced
      BY <1>2, <3>1 DEF RoutingInv, RaceInv
    <3>2. CASE c \notin raced
      <4>1. pc[c] = "persist" => spoiled \/ Fits
        BY <1>0, <3>2 DEF RoutingInv, Solo, PlaceInv
      <4>. QED  BY <1>0, <1>2, <3>2, <4>1 DEF Fits
    <3>. QED  BY <3>1, <3>2
  <2>. QED  BY <1>0, <1>2, <2>1, <2>2, Leaves DEF Resting
<1>. QED  BY <1>1, <1>2

\* The outputter is made for the mode just saved.
LEMMA CreateKeeps ==
  ASSUME RoutingInv, NEW c \in Callers, CreateOutputter(c)
  PROVE  RoutingInv'
<1>. USE DEF CreateOutputter
<1>1. CASE GetOutputter(config, machine) = NoOutputter
  <2>1. Leave(c, "failed") /\ spoiled' = TRUE /\ config' = config
    BY <1>1 DEF Fail
  <2>. QED  BY <2>1, LeaveTypes, Leaves DEF RoutingInv, Active, Resting
<1>2. CASE GetOutputter(config, machine) # NoOutputter
  <2>1. /\ Goto(c, "set") /\ out' = [out EXCEPT ![c] = GetOutputter(config, machine)]
        /\ UNCHANGED <<machine, config, outputter, role, mode, ascii, history>>
    BY <1>2
  <2>2. Types' /\ pc'[c] = "set" /\ out'[c] = GetOutputter(config, machine)
    BY <2>1 DEF RoutingInv, Types, Goto, Active, history
  <2>3. ASSUME c \in Solo
        PROVE  /\ PlaceInv(c)' /\ (c \notin unfit /\ role'[c] = "text" => TextInv(c)')
    <3>1. PlaceInv(c) /\ pc[c] = "create" /\ (c \notin unfit /\ role[c] = "text" => TextInv(c))
      BY <2>3 DEF RoutingInv
    <3>2. PlaceInv(c)'
      BY <1>2, <2>1, <2>2, <3>1 DEF PlaceInv
    <3>3. TextInv(c) => TextInv(c)'
      BY <2>1, <2>2, <3>1 DEF TextInv, HalfHopeless
    <3>. QED  BY <2>1, <3>1, <3>2, <3>3
  <2>. QED  BY <2>1, <2>2, <2>3, GoesOn DEF Active
<1>. QED  BY <1>1, <1>2

\* The new outputter is set: a setter is done, a text tries again.
LEMMA SetKeeps ==
  ASSUME RoutingInv, NEW c \in Callers, SetOutputter(c)
  PROVE  RoutingInv'
<1>. USE DEF SetOutputter
<1>1. c \in Solo => PlaceInv(c) /\ (c \notin unfit /\ role[c] = "text" => TextInv(c))
  BY DEF RoutingInv
<1>2. CASE role[c] = "text"
  <2>1. /\ Goto(c, "retry") /\ outputter' = out[c]
        /\ UNCHANGED <<machine, config, role, out, mode, ascii, history>>
    BY <1>2
  <2>2. Types' /\ pc'[c] = "retry"
    BY <2>1 DEF RoutingInv, Types, Goto, Active, history
  <2>3. ASSUME c \in Solo
        PROVE  /\ PlaceInv(c)' /\ (c \notin unfit /\ role'[c] = "text" => TextInv(c)')
    <3>1. PlaceInv(c)'
      BY <1>1, <1>2, <2>1, <2>2, <2>3 DEF PlaceInv
    <3>2. TextInv(c) => TextInv(c)'
      BY <2>1, <2>2 DEF TextInv, HalfHopeless
    <3>. QED  BY <1>1, <2>1, <2>3, <3>1, <3>2
  <2>. QED  BY <2>1, <2>2, <2>3, GoesOn DEF Active
<1>3. CASE role[c] # "text"
  <2>1. /\ Leave(c, "idle") /\ spoiled' = (spoiled /\ c \in raced)
        /\ outputter' = out[c] /\ config' = config
    BY <1>3 DEF Succeed
  <2>2. ASSUME c \notin raced PROVE Fits'
    <3>1. PlaceInv(c) /\ pc[c] = "set"
      BY <1>1, <2>2 DEF Solo, Active
    <3>2. Serves(GetOutputter(config, machine), config.mode)
      BY <3>1, MadeServes DEF PlaceInv, RoutingInv, Types
    <3>. QED  BY <2>1, <3>1, <3>2 DEF PlaceInv, Fits
  <2>3. c \in raced => spoiled
    BY DEF RoutingInv, RaceInv
  <2>4. Types'
    BY <2>1, LeaveTypes DEF RoutingInv, Types, Resting
  <2>. QED  BY <2>1, <2>2, <2>3, <2>4, Leaves DEF Active, Resting
<1>. QED  BY <1>2, <1>3

\* A reset overlaps whatever is under way.
LEMMA ResetKeeps ==
  ASSUME RoutingInv, Reset
  PROVE  RoutingInv'
<1>. USE DEF Reset, RoutingInv
<1>1. /\ raced' = raced \cup {c \in Callers : pc[c] \in Active} /\ spoiled' = TRUE
      /\ UNCHANGED <<pc, unfit, role, out, mode, ascii>>
  BY DEF call
<1>2. Types'
  BY <1>1 DEF Types, Config, Modes
<1>3. RaceInv' /\ Solo' = {} /\ FitAtRest'
  BY <1>1 DEF RaceInv, Solo, FitAtRest, Types
<1>. QED  BY <1>2, <1>3

\* Every step keeps the invariant.
LEMMA RoutingStep == RoutingInv /\ [Next]_vars => RoutingInv'
<1>. SUFFICES ASSUME RoutingInv, [Next]_vars PROVE RoutingInv'
  OBVIOUS
<1>1. CASE UNCHANGED vars
  <2>1. /\ UNCHANGED <<machine, config, outputter, role, pc, out, mode, ascii, raced, unfit, spoiled>>
    BY <1>1 DEF vars, call, history
  <2>2. Types' /\ RaceInv' /\ FitAtRest' /\ Solo' = Solo
    BY <2>1 DEF RoutingInv, Types, RaceInv, FitAtRest, Idle, Solo
  <2>3. \A c \in Callers : (PlaceInv(c) => PlaceInv(c)') /\ (TextInv(c) => TextInv(c)')
    BY <2>1 DEF PlaceInv, TextInv, Fits, InPlace, HalfHopeless
  <2>. QED  BY <2>1, <2>2, <2>3 DEF RoutingInv, Solo
<1>. QED
  BY <1>1, TakeKeeps, ReadKeeps, DeliverKeeps, RedeliverKeeps, ChooseKeeps, UpdateKeeps, CreateKeeps,
     SetKeeps, ResetKeeps DEF Next, OutputText, SwitchMode

\* So it always holds.
LEMMA RoutingHolds == Spec => []RoutingInv
  BY InitRouting, RoutingStep, PTL DEF Spec

(***************************************************************************)
(* What the outputters are                                                 *)
(***************************************************************************)

\* A chain of tools has a first one that is installed, or none.
LEMMA FirstOfChain ==
  ASSUME NEW chain, NEW m, DOMAIN chain \subseteq {1, 2, 3}, \A i \in DOMAIN chain : chain[i] \in TypeTools
  PROVE  FirstInstalled(chain, m) \in TypeTools
<1>. DEFINE there == {i \in DOMAIN chain : chain[i] \in m.installed}
<1>1. CASE there = {}
  BY <1>1 DEF FirstInstalled, TypeTools
<1>2. CASE there # {}
  <2>1. PICK i \in there : \A j \in there : i <= j
    <3>1. \/ 1 \in there
          \/ 1 \notin there /\ 2 \in there
          \/ there = {3}
      BY <1>2
    <3>. QED  BY <3>1
  <2>. DEFINE first == CHOOSE k \in there : \A j \in there : k <= j
  <2>2. first \in there
    BY <2>1
  <2>3. FirstInstalled(chain, m) = chain[first]
    BY <1>2 DEF FirstInstalled
  <2>. QED  BY <2>2, <2>3
<1>. QED  BY <1>1, <1>2

LEMMA ChainTypes ==
  ASSUME NEW m
  PROVE  /\ SelectWaylandTypeTool(m) \in TypeTools
         /\ SelectFallbackTypeTool(m) \in TypeTools
<1>1. FirstInstalled(<<"ydotool", "wtype">>, m) \in TypeTools
  BY FirstOfChain DEF TypeTools
<1>2. FirstInstalled(<<"wtype", "ydotool">>, m) \in TypeTools
  BY FirstOfChain DEF TypeTools
<1>3. FirstInstalled(<<"xdotool", "wtype", "ydotool">>, m) \in TypeTools
  BY FirstOfChain DEF TypeTools
<1>. QED  BY <1>1, <1>2, <1>3 DEF SelectWaylandTypeTool, SelectGNOMEWaylandTypeTool,
            SelectNonGNOMEWaylandTypeTool, SelectFallbackTypeTool

\* What the factory makes is an outputter, whose tools suit their tasks.
LEMMA GetOutputterType ==
  ASSUME NEW cfg \in Config, NEW m
  PROVE  GetOutputter(cfg, m) \in Outputter
<1>1. SelectClipboardTool(cfg, m) \in ClipboardTools
  BY DEF SelectClipboardTool, Config, ClipboardTools
<1>2. SelectTypeTool(cfg, m) \in TypeTools
  <2>1. "xdotool" \in TypeTools /\ cfg.typeTool \in {"auto"} \cup TypeTools
    BY DEF TypeTools, Config
  <2>. QED  BY <2>1, ChainTypes DEF SelectTypeTool
<1>3. NoOutputter \in Outputter /\ cfg.allowed \in SUBSET Tools
  BY DEF NoOutputter, Outputter, Config
<1>4. CreateClipboardOutputter(cfg, m) \in Outputter
  BY <1>1, <1>3 DEF CreateClipboardOutputter, Outputter
<1>5. CreateTypeOutputter(cfg, m) \in Outputter
  BY <1>2, <1>3, <1>4 DEF CreateTypeOutputter, Outputter
<1>. QED  BY <1>4, <1>5 DEF GetOutputter

\* The machine stays, and the outputters are ones.
Made == machine \in Machines /\ outputter \in Outputter /\ out \in [Callers -> Outputter]

LEMMA InitMade == Init => Made
<1>. SUFFICES ASSUME Init PROVE Made
  OBVIOUS
<1>1. PICK cfg \in Configs :
        LET started == Container(cfg, machine)
        IN /\ started.outputter.clip # "none" \/ started.outputter.type # "none"
           /\ config = started.config /\ outputter = started.outputter
  BY DEF Init
<1>2. GetOutputter(cfg, machine) \in Outputter
  BY GetOutputterType, ConfigsAreConfigs
<1>3. outputter \in Outputter
  <2>1. CASE GetOutputter(cfg, machine) # NoOutputter
    BY <1>1, <1>2, <2>1 DEF Container
  <2>2. CASE GetOutputter(cfg, machine) = NoOutputter
    <3>1. outputter = [clip |-> FallbackTool(machine), type |-> "none", allowed |-> cfg.allowed]
      BY <1>1, <2>2 DEF Container
    <3>2. FallbackTool(machine) \in ClipboardTools \cup {"none"} /\ cfg.allowed \in SUBSET Tools
      BY ConfigsAreConfigs DEF FallbackTool, ClipboardTools, Config
    <3>. QED  BY <3>1, <3>2 DEF Outputter
  <2>. QED  BY <2>1, <2>2
<1>. QED  BY <1>3 DEF Init, Made, NoOutputter, Outputter

\* A call that returns has no outputter in hand.
LEMMA LeaveMade ==
  ASSUME Made, NEW c \in Callers, NEW how, Leave(c, how), machine' = machine, outputter' \in Outputter
  PROVE  Made'
  BY DEF Made, Leave, NoOutputter, Outputter

LEMMA MadeStays == Types /\ Made /\ [Next]_vars => Made'
<1>. SUFFICES ASSUME Types, Made, [Next]_vars PROVE Made'
  OBVIOUS
<1>1. CASE UNCHANGED <<machine, outputter, out>>
  BY <1>1 DEF Made
<1>2. CASE UNCHANGED vars \/ Reset
  BY <1>1, <1>2 DEF vars, call, Reset
<1>3. ASSUME NEW c \in Callers, ReadMode(c) \/ Choose(c)
      PROVE  Made'
  BY <1>1, <1>3 DEF ReadMode, Choose
<1>4. ASSUME NEW c \in Callers, TakeOutputter(c)
      PROVE  Made'
  BY <1>4 DEF TakeOutputter, Made
<1>5. ASSUME NEW c \in Callers, Deliver(c) \/ Redeliver(c) \/ UpdateOutputMode(c)
      PROVE  Made'
  <2>1. machine' = machine /\ outputter' = outputter /\ outputter' \in Outputter
    BY <1>5 DEF Deliver, Redeliver, UpdateOutputMode, Made
  <2>2. out' = out \/ \E how \in {"idle", "failed"} : Leave(c, how)
    BY <1>5 DEF Deliver, Redeliver, UpdateOutputMode, Succeed, Fail
  <2>. QED  BY <1>1, <2>1, <2>2, LeaveMade
<1>6. ASSUME NEW c \in Callers, CreateOutputter(c)
      PROVE  Made'
  <2>1. machine' = machine /\ outputter' = outputter /\ outputter' \in Outputter
    BY <1>6 DEF CreateOutputter, Made
  <2>2. CASE Leave(c, "failed")
    BY <2>1, <2>2, LeaveMade
  <2>3. CASE out' = [out EXCEPT ![c] = GetOutputter(config, machine)]
    BY <2>1, <2>3, GetOutputterType DEF Made, Types
  <2>. QED  BY <1>6, <2>2, <2>3 DEF CreateOutputter, Fail
<1>7. ASSUME NEW c \in Callers, SetOutputter(c)
      PROVE  Made'
  <2>1. machine' = machine /\ outputter' = out[c] /\ outputter' \in Outputter
    BY <1>7 DEF SetOutputter, Made
  <2>2. out' = out \/ Leave(c, "idle")
    BY <1>7 DEF SetOutputter, Succeed
  <2>. QED  BY <2>1, <2>2, LeaveMade DEF Made
<1>. QED
  BY <1>2, <1>3, <1>4, <1>5, <1>6, <1>7 DEF Next, OutputText, SwitchMode

(***************************************************************************)
(* The theorems                                                            *)
(***************************************************************************)

\* Whatever the machine and the config are, mode and outputter stay among
\* those the factory knows, and a call in hand is one (factory.go).
THEOREM RoutingTypes == Spec => []TypeOK
<1>1. Types /\ Made => TypeOK
  BY DEF Types, Made, TypeOK
<1>2. RoutingInv => Types
  BY DEF RoutingInv
<1>. QED  BY <1>1, <1>2, InitMade, MadeStays, RoutingHolds, PTL DEF Spec

\* At rest the outputter can do what the mode asks for, unless calls
\* overlapped, one failed half-way or the settings were reset: OutputText
\* and SetOutputMethod change mode and outputter one after the other, and
\* leave them fitting.
THEOREM ModeFits == Spec => []FitAtRest
<1>1. RoutingInv => FitAtRest
  BY DEF RoutingInv
<1>. QED  BY <1>1, RoutingHolds, PTL

\* OutputText gives up the user's mode only when that mode does not deliver.
THEOREM EarnedFallback == Spec => []FallbackIsEarned
<1>1. RoutingInv => FallbackIsEarned
  <2>. SUFFICES ASSUME RoutingInv, NEW t \in Callers \ (raced \cup unfit),
                       role[t] = "text", pc[t] = "persist"
                PROVE  ~Delivers(t, GetOutputter(config, machine), config.mode)
    BY DEF FallbackIsEarned
  <2>1. config.mode # "other" /\ mode[t] = OtherMode(config.mode) /\ HalfHopeless(t)
    BY DEF RoutingInv, Solo, Active, TextInv
  <2>2. CASE config.mode = "clipboard"
    BY <2>1, <2>2 DEF HalfHopeless, OtherMode, Delivers, GetOutputter
  <2>3. CASE config.mode = "active_window"
    BY <2>1, <2>3 DEF HalfHopeless, OtherMode, Delivers, GetOutputter
  <2>. QED  BY <2>1, <2>2, <2>3 DEF RoutingInv, Types, Config, Modes
<1>. QED  BY <1>1, RoutingHolds, PTL

\* What the mode a text has turned to cannot do makes it hopeless, with what
\* the mode it gave up cannot do.
LEMMA BothHalves ==
  ASSUME NEW t \in Callers, HalfHopeless(t), mode[t] \in {"clipboard", "active_window"},
         config.mode = mode[t], ~Delivers(t, GetOutputter(config, machine), mode[t])
  PROVE  /\ ~CopyWorks(CreateClipboardOutputter(config, machine), machine)
         /\ ~TypeWorks(CreateTypeOutputter(config, machine), machine, ascii[t])
<1>1. CASE mode[t] = "clipboard"
  BY <1>1 DEF HalfHopeless, Delivers, GetOutputter
<1>2. CASE mode[t] = "active_window"
  BY <1>2 DEF HalfHopeless, Delivers, GetOutputter
<1>. QED  BY <1>1, <1>2

\* Without an outputter nothing is delivered.
LEMMA NoOutputterFails ==
  ASSUME NEW t \in Callers, NEW x
  PROVE  ~Delivers(t, NoOutputter, x)
  BY TypingTypes DEF Delivers, CopyWorks, NoOutputter

\* A text whose change of mode is saved is lost only if neither clipboard
\* nor typing delivers on this machine.
THEOREM LossIsHopeless == Spec => LostOnlyIfHopeless
<1>. DEFINE Hopeless(t) ==
       /\ ~CopyWorks(CreateClipboardOutputter(config, machine), machine)
       /\ ~TypeWorks(CreateTypeOutputter(config, machine), machine, ascii[t])
            Loss(t) == role[t] = "text" /\ pc[t] \in Active \ {"persist"} /\ pc'[t] = "failed"
            Fair == \A t \in Callers \ (raced \cup unfit) : Loss(t) => Hopeless(t)
<1>1. RoutingInv /\ [Next]_vars => [Fair]_vars
  <2>. SUFFICES ASSUME RoutingInv, Next, NEW t \in Callers \ (raced \cup unfit), Loss(t)
                PROVE  Hopeless(t)
    OBVIOUS
  <2>1. /\ Types /\ t \in Solo /\ PlaceInv(t) /\ TextInv(t) /\ pc[t] # "failed"
        /\ pc[t] # "persistAgain"
    BY DEF RoutingInv, Solo, Active, PlaceInv
  <2>2. ASSUME NEW c \in Callers, NEW there \in Active, Goto(c, there) PROVE FALSE
    BY <2>1, <2>2 DEF Goto, Types, Active
  <2>3. ASSUME NEW c \in Callers, NEW how \in Resting, Leave(c, how) PROVE c = t /\ how = "failed"
    BY <2>1, <2>3 DEF Leave, Goto, Types
  <2>4. CASE Reset
    BY <2>1, <2>4 DEF Reset, call
  <2>5. ASSUME NEW c \in Callers, TakeOutputter(c) \/ ReadMode(c) \/ Choose(c) PROVE FALSE
    BY <2>2, <2>5 DEF TakeOutputter, ReadMode, Choose, Active
  <2>6. ASSUME NEW c \in Callers, Deliver(c) PROVE FALSE
    BY <2>2, <2>3, <2>6 DEF Deliver, Succeed, Active, Resting
  <2>7. ASSUME NEW c \in Callers, UpdateOutputMode(c) PROVE FALSE
    <3>1. CASE Goto(c, AfterPersist(c))
      BY <2>2, <3>1 DEF AfterPersist, Active
    <3>2. CASE Leave(c, "failed")
      BY <2>1, <2>3, <2>7, <3>2 DEF UpdateOutputMode, Resting, Active
    <3>. QED  BY <2>7, <3>1, <3>2 DEF UpdateOutputMode
  <2>8. ASSUME NEW c \in Callers, SetOutputter(c) PROVE FALSE
    BY <2>2, <2>3, <2>8 DEF SetOutputter, Succeed, Active, Resting
  <2>9. ASSUME NEW c \in Callers, CreateOutputter(c) PROVE Hopeless(t)
    <3>1. GetOutputter(config, machine) = NoOutputter /\ c = t /\ pc[t] = "create"
      BY <2>2, <2>3, <2>9 DEF CreateOutputter, Fail, Active, Resting
    <3>2. /\ HalfHopeless(t) /\ mode[t] \in {"clipboard", "active_window"}
          /\ config.mode = mode[t]
      BY <2>1, <3>1 DEF PlaceInv, TextInv, Types, Modes
    <3>. QED  BY <3>1, <3>2, NoOutputterFails, BothHalves
  <2>10. ASSUME NEW c \in Callers, Redeliver(c) PROVE Hopeless(t)
    <3>1. c = t /\ pc[t] = "retry" /\ ~Delivers(t, outputter, mode[t])
      BY <2>3, <2>10 DEF Redeliver, Succeed, Fail, Resting
    <3>2. /\ HalfHopeless(t) /\ mode[t] \in {"clipboard", "active_window"}
          /\ config.mode = mode[t] /\ outputter = GetOutputter(config, machine)
      BY <2>1, <3>1 DEF PlaceInv, TextInv, Types, Modes
    <3>. QED  BY <3>1, <3>2, BothHalves
  <2>. QED
    BY <2>4, <2>5, <2>6, <2>7, <2>8, <2>9, <2>10 DEF Next, OutputText, SwitchMode
<1>2. [][RoutingInv /\ [Next]_vars]_vars => LostOnlyIfHopeless
  <2>1. [RoutingInv /\ [Next]_vars]_vars => [Fair]_vars
    BY <1>1
  <2>. QED  BY <2>1, PTL DEF LostOnlyIfHopeless
<1>. QED  BY <1>2, RoutingHolds, PTL DEF Spec
=============================================================================
