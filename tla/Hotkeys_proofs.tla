--------------------------- MODULE Hotkeys_proofs ---------------------------
(***************************************************************************)
(* The manager has no lock; what its callers may rely on, one call at a    *)
(* time, is proved here for any number of them.                            *)
(***************************************************************************)
EXTENDS Hotkeys, FiniteSetTheorems, TLAPS

\* The types that matter here; of providers and sources there are enough.
CalmTypes ==
  /\ isListening \in BOOLEAN /\ calls \in 0..MaxCalls
  /\ nProv \in Nat /\ nSrc \in Nat /\ provider \in 1..nProv
  /\ prov \in [Providers -> [kind : Kinds, registered : BOOLEAN, cur : Nat]]
  /\ src \in [Sources -> Source]
  /\ pc \in [Callers -> Places]
  /\ DOMAIN arg = Callers /\ env \in Env

\* The providers that a call at a place may still make.
Need(place) ==
  IF place \in {"reload", "drain", "select", "capture"} THEN 2
  ELSE IF place \in {"register", "start", "fallback"} THEN 1
  ELSE 0

StartNeed == IF pc["app"] = "new" THEN 1 ELSE 0

BudgetInv == \A c \in Callers : nProv + Need(pc[c]) + StartNeed <= 2 + 2 * calls

\* One call at a time, and none after the shutdown.
AloneInv ==
  /\ \A c, d \in Busy : c = d
  /\ pc["app"] = "stopped" => Busy = {}

\* From its first step on a call has the provider silent until it starts one.
Silent ==
  \/ pc["app"] = "stopped"
  \/ \E c \in Busy : pc[c] # "reload"

PlaceInv ==
  /\ Silent => prov[provider].cur = None
  /\ prov[provider].cur # None => isListening
  /\ \A c \in Callers : pc[c] \in {"start", "startFallback", "capture"} => arg[c] = provider

\* Only the manager's provider listens, and to the source that is open.
SourceInv ==
  /\ \A p \in Providers : prov[p].cur # None => p = provider
  /\ \A s \in Sources : src[s].open => prov[src[s].owner].cur = s

Calm == CalmTypes /\ BudgetInv /\ AloneInv /\ PlaceInv /\ SourceInv

CalmInv == ~overlapped => Calm

-----------------------------------------------------------------------------
LEMMA InitCalm == Init => Calm
<1> SUFFICES ASSUME Init PROVE Calm
  OBVIOUS
<1> USE DEF Init
<1>1. "app" \in Callers /\ 1 \in Providers /\ MaxCalls \in Nat
  BY HotkeysAssumption DEF Callers, Providers
<1>2. prov \in [Providers -> [kind : Kinds, registered : BOOLEAN, cur : Nat]]
      /\ \A p \in Providers : prov[p].cur = None
  <2>1. SelectProvider(mode) \in Kinds
    BY HotkeysAssumption DEF SelectProvider, Kinds, Env
  <2>2. \A k \in Kinds : /\ NewProvider(k) \in [kind : Kinds, registered : BOOLEAN, cur : Nat]
                         /\ NewProvider(k).cur = None
    BY DEF NewProvider, None
  <2>3. "dummy" \in Kinds
    BY DEF Kinds
  <2>4. \A p \in Providers : (IF p = 1 THEN SelectProvider(mode) ELSE "dummy") \in Kinds
    BY <2>1, <2>3
  <2> HIDE DEF NewProvider, SelectProvider
  <2> QED
    BY <2>2, <2>4
<1>3. src \in [Sources -> Source] /\ \A s \in Sources : src[s].open = FALSE
  BY <1>1 DEF Source
<1>4. pc \in [Callers -> Places] /\ \A c \in Callers : pc[c] \in {"idle", "new"}
  BY DEF Places
<1>5. CalmTypes
  <2>1. isListening \in BOOLEAN /\ DOMAIN arg = Callers /\ env \in Env
    BY HotkeysAssumption
  <2>2. calls \in 0..MaxCalls /\ nProv \in Nat /\ nSrc \in Nat /\ provider \in 1..nProv
    BY <1>1 DEF None
  <2> QED
    BY <1>2, <1>3, <1>4, <2>1, <2>2 DEF CalmTypes
<1>6. BudgetInv
  BY <1>1, <1>4 DEF BudgetInv, Need, StartNeed
<1>7. AloneInv
  BY <1>1, <1>4 DEF AloneInv, Busy
<1>8. PlaceInv
  BY <1>1, <1>2, <1>4 DEF PlaceInv, Silent, Busy
<1>9. SourceInv
  BY <1>2, <1>3 DEF SourceInv
<1> QED
  BY <1>5, <1>6, <1>7, <1>8, <1>9 DEF Calm

\* The one call under way goes from its place to l.
LEMMA Move ==
  ASSUME CalmTypes, NEW c \in Callers, NEW l \in Places, Goto(c, l),
         Busy \subseteq {c}, pc["app"] # "stopped"
  PROVE  /\ pc' \in [Callers -> Places] /\ pc'[c] = l
         /\ AloneInv'
         /\ Silent' => l \notin {"new", "idle", "reload"}
         /\ \A d \in Callers \ {c} :
              pc'[d] \notin {"start", "startFallback", "capture"} /\ Need(pc'[d]) = 0
         /\ c # "app" => StartNeed' = StartNeed
         /\ c = "app" /\ l # "new" => StartNeed' = 0
<1>1. /\ pc' \in [Callers -> Places] /\ pc'[c] = l /\ "app" \in Callers
      /\ \A d \in Callers \ {c} : pc'[d] = pc[d] /\ pc[d] \in {"new", "idle", "stopped"}
  BY DEF CalmTypes, Goto, Busy, Callers
<1>2. AloneInv'
  BY <1>1 DEF AloneInv, Busy
<1>3. Silent' => l \notin {"new", "idle", "reload"}
  BY <1>1 DEF Silent, Busy
<1>4. \A d \in Callers \ {c} :
        pc'[d] \notin {"start", "startFallback", "capture"} /\ Need(pc'[d]) = 0
  BY <1>1 DEF Need
<1> QED
  BY <1>1, <1>2, <1>3, <1>4 DEF StartNeed

\* A call that has begun, and is not overlapped, is alone.
LEMMA BeginsAlone ==
  ASSUME Calm, NEW c \in Callers, NEW l, Begin(c, l), ~overlapped'
  PROVE  Goto(c, l) /\ Busy = {} /\ Served /\ pc["app"] # "stopped"
BY DEF Begin, Served

LEMMA GoesOnAlone ==
  ASSUME Calm, NEW c \in Callers, c \in Busy
  PROVE  Busy \subseteq {c} /\ pc["app"] # "stopped"
BY DEF Calm, AloneInv, Busy

\* What a listener does to its source.
LEMMA ListenerStepCalm ==
  ASSUME Calm, NEW s \in Sources, NEW source \in Source, ListenerStep(s, source),
         source.owner = src[s].owner, source.open = src[s].open
  PROVE  /\ src' \in [Sources -> Source] /\ SourceInv'
         /\ UNCHANGED <<mode, provider, isListening, prov, nProv, nSrc, env>>
<1>1. /\ src' \in [Sources -> Source]
      /\ UNCHANGED <<mode, provider, isListening, prov, nProv, nSrc, env>>
      /\ \A t \in Sources : src'[t].owner = src[t].owner /\ src'[t].open = src[t].open
  BY DEF Calm, CalmTypes, ListenerStep, managerVars, providerVars
<1> QED
  BY <1>1 DEF Calm, SourceInv

-----------------------------------------------------------------------------
\* What listeners do.
LEMMA KeyEventCalm ==
  ASSUME Calm, NEW s \in Sources, KeyEvent(s) \/ Activation(s) \/ ReadActivation(s) \/ HandleEvent(s) \/ ListenerEnds(s)
  PROVE  Calm'
<1>1. UNCHANGED callerVars
  BY DEF KeyEvent, Activation, ReadActivation, HandleEvent, ListenerEnds
<1>2. PICK source \in Source :
        ListenerStep(s, source) /\ source.owner = src[s].owner /\ source.open = src[s].open
  <2>1. src[s] \in Source
    BY DEF Calm, CalmTypes
  <2>2. \A a \in {"handle", "read", "action", "gone"}, w \in BOOLEAN :
          LET source == [src[s] EXCEPT !.at = a, !.waiting = w]
          IN source \in Source /\ source.owner = src[s].owner /\ source.open = src[s].open
    BY <2>1 DEF Source
  <2>3. \A a \in {"handle", "read", "action", "gone"} :
          LET source == [src[s] EXCEPT !.at = a]
          IN source \in Source /\ source.owner = src[s].owner /\ source.open = src[s].open
    BY <2>1 DEF Source
  <2>4. LET source == [src[s] EXCEPT !.waiting = TRUE]
        IN source \in Source /\ source.owner = src[s].owner /\ source.open = src[s].open
    BY <2>1 DEF Source
  <2> QED
    BY <2>2, <2>3, <2>4 DEF KeyEvent, Activation, ReadActivation, HandleEvent, ListenerEnds
<1>3. /\ src' \in [Sources -> Source] /\ SourceInv'
      /\ UNCHANGED <<mode, provider, isListening, prov, nProv, nSrc, env>>
  BY <1>2, ListenerStepCalm
<1> QED
  BY <1>1, <1>3 DEF Calm, CalmTypes, callerVars, BudgetInv, StartNeed, AloneInv, Busy, PlaceInv, Silent

LEMMA RunActionCalm ==
  ASSUME Calm, NEW s \in Sources, RunAction(s), ~overlapped'
  PROVE  Calm'
<1>1. [src[s] EXCEPT !.at = "read"] \in Source
      /\ [src[s] EXCEPT !.at = "read"].owner = src[s].owner
      /\ [src[s] EXCEPT !.at = "read"].open = src[s].open
  BY DEF Calm, CalmTypes, Source
<1>2. /\ src' \in [Sources -> Source] /\ SourceInv'
      /\ UNCHANGED <<mode, provider, isListening, prov, nProv, nSrc, env>>
  BY <1>1, ListenerStepCalm DEF RunAction
<1>3. CASE UNCHANGED callerVars
  BY <1>2, <1>3 DEF Calm, CalmTypes, callerVars, BudgetInv, StartNeed, AloneInv, Busy, PlaceInv, Silent
<1>4. ASSUME calls < MaxCalls, calls' = calls + 1, UNCHANGED arg,
             NEW a \in Actors, pc[a] = "new", Begin(a, "reload")
      PROVE  Calm'
  <2>1. a \in Callers /\ a # "app" /\ "reload" \in Places /\ MaxCalls \in Nat
    BY HotkeysAssumption DEF Callers, Places
  <2>2. Goto(a, "reload") /\ Busy = {} /\ pc["app"] # "stopped"
    BY <1>4, <2>1, BeginsAlone
  <2>3. CalmTypes
    BY DEF Calm
  <2>4. /\ pc' \in [Callers -> Places] /\ pc'[a] = "reload" /\ AloneInv' /\ ~Silent'
        /\ \A d \in Callers \ {a} :
             pc'[d] \notin {"start", "startFallback", "capture"} /\ Need(pc'[d]) = 0
        /\ StartNeed' = StartNeed
    BY <2>1, <2>2, <2>3, Move
  <2>5. CalmTypes'
    BY <1>2, <1>4, <2>1, <2>3, <2>4 DEF CalmTypes
  <2>6. BudgetInv'
    <3>1. nProv + StartNeed <= 2 + 2 * calls /\ StartNeed \in {0, 1} /\ nProv \in Nat /\ calls \in Nat
      BY <1>4, <2>1, <2>3 DEF Calm, BudgetInv, Need, StartNeed, CalmTypes
    <3>2. nProv' = nProv /\ Need("reload") = 2
      BY <1>2 DEF Need
    <3> QED
      BY <1>4, <2>4, <3>1, <3>2 DEF BudgetInv
  <2>7. PlaceInv'
    BY <1>2, <1>4, <2>4 DEF PlaceInv, Calm
  <2> QED
    BY <1>2, <2>4, <2>5, <2>6, <2>7 DEF Calm
<1> QED
  BY <1>3, <1>4 DEF RunAction, ResetToDefaults

-----------------------------------------------------------------------------
\* Providers that start and stop.
Quiet ==
  /\ \A p \in Providers : prov[p].cur = None
  /\ \A s \in Sources : ~src[s].open

LEMMA QuietIfSilent ==
  ASSUME Calm, prov[provider].cur = None
  PROVE  Quiet
<1>1. \A p \in Providers : prov[p].cur = None
  BY DEF Calm, SourceInv
<1>2. ASSUME NEW s \in Sources PROVE ~src[s].open
  BY <1>1, SMT DEF Calm, SourceInv, CalmTypes, Source, Sources, None
<1> QED
  BY <1>1, <1>2 DEF Quiet

LEMMA ProviderKnown == Calm => provider \in Providers /\ nProv \in Providers
<1> SUFFICES ASSUME Calm PROVE provider \in Providers /\ nProv \in Providers
  OBVIOUS
<1>1. "app" \in Callers /\ MaxCalls \in Nat
  BY HotkeysAssumption DEF Callers
<1>2. nProv + Need(pc["app"]) + StartNeed <= 2 + 2 * calls
  BY <1>1 DEF Calm, BudgetInv
<1>3. Need(pc["app"]) \in 0..2 /\ StartNeed \in 0..1
  BY DEF Need, StartNeed
<1> QED
  BY <1>1, <1>2, <1>3 DEF Calm, CalmTypes, Providers

LEMMA CloseCalm ==
  ASSUME Calm, Close(provider)
  PROVE  /\ prov' \in [Providers -> [kind : Kinds, registered : BOOLEAN, cur : Nat]]
         /\ src' \in [Sources -> Source]
         /\ Quiet'
<1>1. CASE prov[provider].cur = None
  <2>1. UNCHANGED <<prov, src>>
    BY <1>1 DEF Close
  <2>2. Quiet
    BY <1>1, QuietIfSilent
  <2> QED
    BY <2>1, <2>2 DEF Quiet, Calm, CalmTypes
<1>2. CASE prov[provider].cur # None
  <2>1. /\ prov' = [prov EXCEPT ![provider].cur = None]
        /\ src' = [src EXCEPT ![prov[provider].cur].open = FALSE]
    BY <1>2 DEF Close
  <2>2. provider \in Providers
    BY ProviderKnown
  <2>3. prov' \in [Providers -> [kind : Kinds, registered : BOOLEAN, cur : Nat]]
    BY <2>1, <2>2 DEF Calm, CalmTypes, None
  <2>4. src' \in [Sources -> Source]
    BY <2>1 DEF Calm, CalmTypes, Source
  <2>5. \A p \in Providers : prov'[p].cur = None
    BY <2>1, <2>2 DEF Calm, CalmTypes, SourceInv
  <2>6. ASSUME NEW s \in Sources, src'[s].open PROVE FALSE
    <3>1. s # prov[provider].cur
      BY <2>1, <2>6 DEF Calm, CalmTypes, Source
    <3>2. src[s].open /\ src[s].owner \in Providers
      BY <2>1, <2>6, <3>1 DEF Calm, CalmTypes, Source
    <3>3. prov[src[s].owner].cur = s /\ s # None
      BY <3>2 DEF Calm, SourceInv, Sources, None
    <3> QED
      BY <3>1, <3>2, <3>3 DEF Calm, SourceInv
  <2> QED
    BY <2>3, <2>4, <2>5, <2>6 DEF Quiet
<1> QED
  BY <1>1, <1>2

LEMMA ListenCalm ==
  ASSUME Calm, Quiet, Listen(provider), UNCHANGED provider
  PROVE  /\ prov' \in [Providers -> [kind : Kinds, registered : BOOLEAN, cur : Nat]]
         /\ src' \in [Sources -> Source]
         /\ nSrc' \in Nat
         /\ SourceInv'
<1>1. provider \in Providers
  BY ProviderKnown
<1>2. prov' = [prov EXCEPT ![provider].cur = nSrc + 1] /\ nSrc' = nSrc + 1 /\ nSrc \in Nat
  BY DEF Listen, Calm, CalmTypes
<1>3. src' = [src EXCEPT ![nSrc + 1] =
                [owner |-> provider, open |-> TRUE, waiting |-> FALSE, at |-> "read"]]
  BY DEF Listen
<1>4. src' \in [Sources -> Source]
  BY <1>1, <1>3 DEF Calm, CalmTypes, Source
<1>5. prov' \in [Providers -> [kind : Kinds, registered : BOOLEAN, cur : Nat]]
  BY <1>1, <1>2 DEF Calm, CalmTypes
<1>6. \A p \in Providers : p # provider => prov'[p].cur = None
  BY <1>2 DEF Calm, CalmTypes, Quiet
<1>7. prov'[provider].cur = nSrc + 1
  BY <1>1, <1>2 DEF Calm, CalmTypes
<1>8. \A s \in Sources : src'[s].open => s = nSrc + 1 /\ src'[s].owner = provider
  BY <1>3 DEF Calm, CalmTypes, Quiet, Source
<1> QED
  BY <1>2, <1>4, <1>5, <1>6, <1>7, <1>8 DEF SourceInv

LEMMA QuietSource == Quiet => SourceInv
BY DEF Quiet, SourceInv

-----------------------------------------------------------------------------
\* What callers do.  A call at l, that leaves the provider silent or has come
\* to its end, and may still make as many providers as are left.
LEMMA Arrive ==
  ASSUME Calm, NEW c \in Callers, NEW l \in Places, Goto(c, l),
         Busy \subseteq {c}, pc["app"] # "stopped",
         CalmTypes', SourceInv',
         nProv' + Need(l) + (IF c = "app" THEN 0 ELSE StartNeed) <= 2 + 2 * calls',
         c = "app" => l # "new",
         prov'[provider'].cur # None => isListening' /\ l \in {"new", "idle", "reload"},
         l \in {"start", "startFallback", "capture"} => arg'[c] = provider'
  PROVE  Calm'
<1>1. CalmTypes
  BY DEF Calm
<1>2. /\ pc'[c] = l /\ AloneInv'
      /\ Silent' => l \notin {"new", "idle", "reload"}
      /\ \A d \in Callers \ {c} :
           pc'[d] \notin {"start", "startFallback", "capture"} /\ Need(pc'[d]) = 0
      /\ c # "app" => StartNeed' = StartNeed
      /\ c = "app" /\ l # "new" => StartNeed' = 0
  BY <1>1, Move
<1>3. BudgetInv'
  <2>1. nProv' \in Nat /\ calls' \in Nat /\ Need(l) \in 0..2 /\ StartNeed \in 0..1
    BY HotkeysAssumption DEF CalmTypes, Need, StartNeed
  <2>2. StartNeed' = IF c = "app" THEN 0 ELSE StartNeed
    BY <1>2
  <2>3. \A d \in Callers : Need(pc'[d]) \in 0..Need(l)
    BY <1>2, <2>1
  <2> QED
    BY <2>1, <2>2, <2>3 DEF BudgetInv
<1>4. PlaceInv'
  BY <1>2 DEF PlaceInv
<1> QED
  BY <1>2, <1>3, <1>4 DEF Calm

LEMMA BudgetOf ==
  ASSUME Calm, NEW c \in Callers
  PROVE  /\ nProv + Need(pc[c]) + StartNeed <= 2 + 2 * calls
         /\ nProv \in Nat /\ calls \in Nat /\ StartNeed \in 0..1 /\ MaxCalls \in Nat
         /\ c = "app" /\ pc[c] = "new" => StartNeed = 1
BY HotkeysAssumption DEF Calm, CalmTypes, BudgetInv, StartNeed

LEMMA StartCalm ==
  ASSUME Calm, Start, ~overlapped'
  PROVE  Calm'
<1> DEFINE l == IF isListening THEN "idle" ELSE "register"
<1>1. "app" \in Callers /\ l \in Places
  BY DEF Callers, Places
<1>2. Goto("app", l) /\ Busy = {} /\ pc["app"] = "new"
  BY <1>1, BeginsAlone DEF Start
<1>3. UNCHANGED <<arg, calls, mode, provider, isListening, prov, nProv, src, nSrc, env>>
  BY DEF Start, managerVars, providerVars, sourceVars
<1>4. CalmTypes' /\ SourceInv'
  <2>1. pc' \in [Callers -> Places]
    BY <1>1, <1>2 DEF Goto, Calm, CalmTypes
  <2> QED
    BY <1>3, <2>1 DEF Calm, CalmTypes, SourceInv
<1>5. nProv' + Need(l) + (IF "app" = "app" THEN 0 ELSE StartNeed) <= 2 + 2 * calls'
  BY <1>1, <1>2, <1>3, BudgetOf DEF Need
<1>6. prov'[provider'].cur # None => isListening' /\ l \in {"new", "idle", "reload"}
  BY <1>3 DEF Calm, PlaceInv
<1>7. Busy \subseteq {"app"} /\ pc["app"] # "stopped" /\ l # "new"
      /\ l \notin {"start", "startFallback", "capture"}
  BY <1>2
<1> HIDE DEF l
<1> QED
  BY <1>1, <1>2, <1>4, <1>5, <1>6, <1>7, Arrive

LEMMA Enough ==
  ASSUME NEW made \in Nat, NEW need \in 0..2, NEW left \in 0..1, NEW n \in Nat,
         made + 2 + left <= 2 + 2 * n \/ (need = 0 /\ made + left <= 2 + 2 * n)
  PROVE  made + need + left <= 2 + 2 * n
OBVIOUS

\* Stop, and the first part of a reload.
LEMMA StopProviderCalm ==
  ASSUME Calm, NEW c \in Callers, NEW drain \in {"drain", "drainStop"}, NEW next \in {"select", "stopped"},
         StopProvider(c, drain, next), ~overlapped',
         pc[c] = "reload" \/ Begin(c, IF isListening /\ prov[provider].cur # None THEN drain ELSE next),
         calls' \in 0..MaxCalls,
         nProv + 2 + (IF c = "app" THEN 0 ELSE StartNeed) <= 2 + 2 * calls'
           \/ /\ drain = "drainStop" /\ next = "stopped" 
              /\ nProv + (IF c = "app" THEN 0 ELSE StartNeed) <= 2 + 2 * calls'
  PROVE  Calm'
<1> DEFINE waits == isListening /\ prov[provider].cur # None
           l == IF waits THEN drain ELSE next
<1>1. l \in Places
  BY DEF Places
<1>2. Goto(c, l) /\ Busy \subseteq {c} /\ pc["app"] # "stopped"
  <2>1. CASE pc[c] = "reload"
    BY <2>1, GoesOnAlone DEF StopProvider, Busy
  <2>2. CASE pc[c] # "reload"
    BY <2>2, BeginsAlone
  <2> QED
    BY <2>1, <2>2
<1>3. /\ prov' \in [Providers -> [kind : Kinds, registered : BOOLEAN, cur : Nat]]
      /\ src' \in [Sources -> Source]
      /\ Quiet'
  <2>1. CASE isListening
    BY <2>1, CloseCalm DEF StopProvider
  <2>2. CASE ~isListening
    <3>1. Quiet
      BY <2>2, QuietIfSilent DEF Calm, PlaceInv
    <3> QED
      BY <2>2, <3>1 DEF StopProvider, Quiet, Calm, CalmTypes
  <2> QED
    BY <2>1, <2>2
<1>4. /\ UNCHANGED <<mode, provider, nProv, nSrc, env>>
      /\ isListening' = waits
      /\ DOMAIN arg' = Callers
  BY DEF StopProvider, Calm, CalmTypes
<1>5. CalmTypes' /\ SourceInv'
  <2>1. pc' \in [Callers -> Places]
    BY <1>1, <1>2 DEF Goto, Calm, CalmTypes
  <2>2. isListening' \in BOOLEAN
    BY <1>4
  <2>3. SourceInv'
    BY <1>3 DEF Quiet, SourceInv
  <2> QED
    BY <1>3, <1>4, <2>1, <2>2, <2>3 DEF Calm, CalmTypes
<1>6. provider' \in Providers /\ prov'[provider'].cur = None
  BY <1>3, <1>4, ProviderKnown DEF Quiet
<1>7. nProv' + Need(l) + (IF c = "app" THEN 0 ELSE StartNeed) <= 2 + 2 * calls'
  <2>1. nProv' = nProv /\ nProv \in Nat /\ calls' \in Nat /\ StartNeed \in 0..1
    BY <1>4, BudgetOf
  <2>2. Need(l) \in 0..2 /\ (drain = "drainStop" /\ next = "stopped" => Need(l) = 0)
    BY DEF Need
  <2>3. PICK left \in 0..1 : left = IF c = "app" THEN 0 ELSE StartNeed
    BY <2>1
  <2>4. PICK need \in 0..2 : need = Need(l)
    BY <2>2
  <2>5. nProv + 2 + left <= 2 + 2 * calls' \/ (need = 0 /\ nProv + left <= 2 + 2 * calls')
    BY <2>2, <2>3, <2>4
  <2>6. nProv' + need + left <= 2 + 2 * calls'
    <3>1. nProv + need + left <= 2 + 2 * calls'
      BY <2>1, <2>5, Enough
    <3> QED
      BY <2>1, <3>1
  <2> QED
    BY <2>3, <2>4, <2>6
<1> QED
  BY <1>1, <1>2, <1>5, <1>6, <1>7, Arrive

LEMMA ReloadCalm ==
  ASSUME Calm, NEW c \in Callers, ReloadConfig(c), ~overlapped'
  PROVE  Calm'
<1>1. StopProvider(c, "drain", "select")
      /\ (pc[c] = "reload" \/ Begin(c, IF isListening /\ prov[provider].cur # None THEN "drain" ELSE "select"))
  BY DEF ReloadConfig, StopProvider
<1>2. nProv + Need(pc[c]) + StartNeed <= 2 + 2 * calls /\ calls \in 0..MaxCalls
      /\ nProv \in Nat /\ StartNeed \in 0..1 /\ MaxCalls \in Nat
  BY BudgetOf DEF Calm, CalmTypes
<1>3. CASE Click(c)
  <2>1. calls < MaxCalls /\ calls' = calls + 1 /\ Need(pc[c]) = 0
    BY <1>3 DEF Click, Need
  <2>2. nProv + 2 + (IF c = "app" THEN 0 ELSE StartNeed) <= 2 + 2 * calls' /\ calls' \in 0..MaxCalls
    BY <1>2, <2>1
  <2> QED
    BY <1>1, <2>2, StopProviderCalm
<1>4. CASE pc[c] = "reload" /\ UNCHANGED calls
  <2>1. Need(pc[c]) = 2
    BY <1>4 DEF Need
  <2>2. nProv + 2 + (IF c = "app" THEN 0 ELSE StartNeed) <= 2 + 2 * calls' /\ calls' \in 0..MaxCalls
    BY <1>2, <1>4, <2>1
  <2> QED
    BY <1>1, <2>2, StopProviderCalm
<1> QED
  BY <1>3, <1>4 DEF ReloadConfig

LEMMA StopCalm ==
  ASSUME Calm, Stop, ~overlapped'
  PROVE  Calm'
<1>1. "app" \in Callers
  BY DEF Callers
<1>2. /\ StopProvider("app", "drainStop", "stopped")
      /\ Begin("app", IF isListening /\ prov[provider].cur # None THEN "drainStop" ELSE "stopped")
      /\ pc["app"] = "idle" /\ calls' = calls
  BY DEF Stop, StopProvider
<1>3. nProv + (IF "app" = "app" THEN 0 ELSE StartNeed) <= 2 + 2 * calls' /\ calls' \in 0..MaxCalls
  <2>1. nProv + Need(pc["app"]) + StartNeed <= 2 + 2 * calls /\ nProv \in Nat /\ StartNeed \in 0..1
    BY <1>1, BudgetOf
  <2>2. Need(pc["app"]) = 0 /\ calls \in 0..MaxCalls
    BY <1>2 DEF Need, Calm, CalmTypes
  <2> QED
    BY <1>2, <2>1, <2>2, HotkeysAssumption
<1> QED
  BY <1>1, <1>2, <1>3, StopProviderCalm

LEMMA ProviderStoppedCalm ==
  ASSUME Calm, NEW c \in Callers, ProviderStopped(c)
  PROVE  Calm'
<1> DEFINE l == IF pc[c] = "drain" THEN "select" ELSE "stopped"
<1>1. pc[c] \in {"drain", "drainStop"} /\ c \in Busy /\ Goto(c, l) /\ l \in Places
  BY DEF ProviderStopped, Busy, Places
<1>2. Busy \subseteq {c} /\ pc["app"] # "stopped"
  BY <1>1, GoesOnAlone
<1>3. /\ UNCHANGED <<mode, provider, prov, nProv, src, nSrc, calls, env>>
      /\ isListening' = FALSE /\ DOMAIN arg' = Callers
  BY DEF ProviderStopped, providerVars, sourceVars, Calm, CalmTypes
<1>4. CalmTypes' /\ SourceInv'
  <2>1. pc' \in [Callers -> Places]
    BY <1>1 DEF Goto, Calm, CalmTypes
  <2> QED
    BY <1>3, <2>1 DEF Calm, CalmTypes, SourceInv
<1>5. prov'[provider'].cur = None
  BY <1>1, <1>3 DEF Calm, PlaceInv, Silent
<1>6. nProv' + Need(l) + (IF c = "app" THEN 0 ELSE StartNeed) <= 2 + 2 * calls'
  <2>1. Need(l) \in 0..2 /\ Need(l) <= Need(pc[c]) /\ Need(pc[c]) \in 0..2
    BY <1>1 DEF Need
  <2>2. nProv + Need(pc[c]) + StartNeed <= 2 + 2 * calls /\ nProv \in Nat /\ calls \in Nat /\ StartNeed \in 0..1
    BY BudgetOf
  <2> HIDE DEF l
  <2> QED
    BY <1>3, <2>1, <2>2
<1>7. l \notin {"new", "start", "startFallback", "capture"}
  OBVIOUS
<1> HIDE DEF l
<1> QED
  BY <1>1, <1>2, <1>4, <1>5, <1>6, <1>7, Arrive

\* A call makes a provider, which is silent as the others are.
LEMMA MakesProvider ==
  ASSUME Calm, NEW c \in Callers, NEW l \in {"register", "registerFallback"}, Goto(c, l),
         pc[c] \in {"select", "fallback"}, Need(l) < Need(pc[c]),
         NEW new \in [kind : Kinds, registered : BOOLEAN, cur : Nat], new.cur = None,
         nProv' = nProv + 1, provider' = nProv + 1, prov' = [prov EXCEPT ![nProv + 1] = new],
         UNCHANGED <<isListening, src, nSrc, arg, calls, env>>
  PROVE  Calm'
<1>1. c \in Busy /\ Silent /\ l \in Places
  BY DEF Busy, Silent, Places
<1>2. Busy \subseteq {c} /\ pc["app"] # "stopped"
  BY <1>1, GoesOnAlone
<1>3. Quiet
  BY <1>1, QuietIfSilent DEF Calm, PlaceInv
<1>4. nProv + 1 \in Providers /\ nProv + 1 + Need(l) + StartNeed <= 2 + 2 * calls
  <2>1. Need(pc[c]) \in 0..2 /\ Need(l) \in 0..2
    BY DEF Need
  <2>2. nProv + Need(pc[c]) + StartNeed <= 2 + 2 * calls /\ nProv \in Nat /\ calls \in 0..MaxCalls
        /\ StartNeed \in 0..1 /\ MaxCalls \in Nat
    BY BudgetOf DEF Calm, CalmTypes
  <2> QED
    BY <2>1, <2>2 DEF Providers
<1>5. /\ prov' \in [Providers -> [kind : Kinds, registered : BOOLEAN, cur : Nat]]
      /\ Quiet'
  BY <1>3, <1>4 DEF Calm, CalmTypes, Quiet
<1>6. CalmTypes' /\ SourceInv'
  <2>1. pc' \in [Callers -> Places]
    BY <1>1 DEF Goto, Calm, CalmTypes
  <2>2. nProv' \in Nat /\ provider' \in 1..nProv'
    BY DEF Calm, CalmTypes
  <2>3. SourceInv'
    BY <1>5 DEF Quiet, SourceInv
  <2> QED
    BY <1>5, <2>1, <2>2, <2>3 DEF Calm, CalmTypes
<1>7. prov'[provider'].cur = None
  BY <1>4, <1>5 DEF Quiet
<1>8. nProv' + Need(l) + (IF c = "app" THEN 0 ELSE StartNeed) <= 2 + 2 * calls'
  BY <1>4, BudgetOf DEF Need
<1> QED
  BY <1>1, <1>2, <1>6, <1>7, <1>8, Arrive

LEMMA SelectCalm ==
  ASSUME Calm, NEW c \in Callers, SelectNew(c) \/ SelectFallback(c)
  PROVE  Calm'
<1>1. CASE SelectNew(c)
  <2>1. SelectProvider(mode') \in Kinds
    BY DEF SelectProvider, Kinds, Calm, CalmTypes, Env
  <2>2. PICK new \in [kind : Kinds, registered : BOOLEAN, cur : Nat] :
          new.cur = None /\ prov' = [prov EXCEPT ![nProv + 1] = new]
    BY <1>1, <2>1 DEF SelectNew, NewProvider, None
  <2>3. Need("register") < Need(pc[c])
    BY <1>1 DEF SelectNew, Need
  <2> QED
    BY <1>1, <2>2, <2>3, MakesProvider DEF SelectNew, sourceVars
<1>2. CASE SelectFallback(c)
  <2>1. PICK new \in [kind : Kinds, registered : BOOLEAN, cur : Nat] :
          new.cur = None /\ prov' = [prov EXCEPT ![nProv + 1] = new]
    BY <1>2 DEF SelectFallback, FallbackKinds, NewProvider, Kinds, None
  <2>2. Need("registerFallback") < Need(pc[c])
    BY <1>2 DEF SelectFallback, Need
  <2> QED
    BY <1>2, <2>1, <2>2, MakesProvider DEF SelectFallback, sourceVars
<1> QED
  BY <1>1, <1>2

\* A call that goes on, or ends, without a provider that listens.
LEMMA StaysSilent ==
  ASSUME Calm, NEW c \in Callers, NEW l \in Places, Goto(c, l), c \in Busy, pc[c] # "reload",
         Need(l) <= Need(pc[c]), c = "app" => l # "new",
         l \in {"start", "startFallback", "capture"} => arg'[c] = provider,
         DOMAIN arg' = Callers,
         prov' \in [Providers -> [kind : Kinds, registered : BOOLEAN, cur : Nat]],
         \A p \in Providers : prov'[p].cur = prov[p].cur,
         UNCHANGED <<mode, isListening, provider, nProv, src, nSrc, calls, env>>
  PROVE  Calm'
<1>1. Busy \subseteq {c} /\ pc["app"] # "stopped"
  BY GoesOnAlone
<1>2. Quiet
  BY QuietIfSilent DEF Calm, PlaceInv, Silent
<1>3. CalmTypes'
  BY DEF Calm, CalmTypes, Goto
<1>4. SourceInv' /\ prov'[provider'].cur = None
  BY <1>2, ProviderKnown DEF Quiet, SourceInv
<1>5. nProv' + Need(l) + (IF c = "app" THEN 0 ELSE StartNeed) <= 2 + 2 * calls'
  <2>1. Need(l) \in 0..2 /\ Need(pc[c]) \in 0..2
    BY DEF Need
  <2> QED
    BY <2>1, BudgetOf
<1> QED
  BY <1>1, <1>3, <1>4, <1>5, Arrive

LEMMA RegisterCalm ==
  ASSUME Calm, NEW c \in Callers, Register(c)
  PROVE  Calm'
<1>1. /\ pc[c] \in {"register", "registerFallback"} /\ c \in Busy /\ provider \in Providers
      /\ UNCHANGED <<mode, isListening, provider, nProv, src, nSrc, calls, env>>
  BY ProviderKnown DEF Register, Busy, managerVars, sourceVars
<1>2. CASE prov[provider].kind = "dbus" /\ prov[provider].registered
  <2>1. Goto(c, Home(c)) /\ UNCHANGED <<prov, arg>>
    BY <1>2 DEF Register
  <2>2. Home(c) \in Places \ {"start", "startFallback", "capture"} /\ Need(Home(c)) = 0
        /\ Need(pc[c]) \in 0..2 /\ (c = "app" => Home(c) # "new")
    BY HotkeysAssumption DEF Home, Places, Need
  <2>3. DOMAIN arg' = Callers /\ prov' \in [Providers -> [kind : Kinds, registered : BOOLEAN, cur : Nat]]
    BY <2>1 DEF Calm, CalmTypes
  <2> QED
    BY <1>1, <2>1, <2>2, <2>3, StaysSilent
<1>3. CASE ~(prov[provider].kind = "dbus" /\ prov[provider].registered)
  <2> DEFINE l == IF pc[c] = "register" THEN "start" ELSE "startFallback"
  <2>1. /\ Goto(c, l) /\ arg' = [arg EXCEPT ![c] = provider]
        /\ prov' = [prov EXCEPT ![provider].registered = TRUE]
    BY <1>3 DEF Register
  <2>2. l \in Places /\ Need(l) <= Need(pc[c]) /\ l # "new"
    BY <1>1 DEF Places, Need
  <2>3. /\ prov' \in [Providers -> [kind : Kinds, registered : BOOLEAN, cur : Nat]]
        /\ \A p \in Providers : prov'[p].cur = prov[p].cur
    BY <1>1, <2>1 DEF Calm, CalmTypes
  <2>4. DOMAIN arg' = Callers /\ arg'[c] = provider
    BY <2>1 DEF Calm, CalmTypes
  <2> HIDE DEF l
  <2> QED
    BY <1>1, <2>1, <2>2, <2>3, <2>4, StaysSilent
<1> QED
  BY <1>2, <1>3

LEMMA FailsCalm ==
  ASSUME Calm, NEW c \in Callers, ProviderFails(c) \/ NoFallback(c)
  PROVE  Calm'
<1> DEFINE l == IF pc[c] = "start" THEN "fallback" ELSE Home(c)
<1>1. /\ pc[c] \in {"start", "startFallback", "fallback"} /\ c \in Busy /\ Goto(c, l)
      /\ UNCHANGED <<mode, isListening, provider, nProv, prov, src, nSrc, calls, env>>
  BY DEF ProviderFails, NoFallback, Busy, managerVars, providerVars, sourceVars
<1>2. l \in Places /\ Need(l) <= Need(pc[c]) /\ (c = "app" => l # "new")
      /\ l \notin {"start", "startFallback", "capture"}
  BY <1>1, HotkeysAssumption DEF Places, Need, Home
<1>3. DOMAIN arg' = Callers /\ prov' \in [Providers -> [kind : Kinds, registered : BOOLEAN, cur : Nat]]
  BY <1>1 DEF Calm, CalmTypes, ProviderFails, NoFallback
<1> HIDE DEF l
<1> QED
  BY <1>1, <1>2, <1>3, StaysSilent

\* A call starts the provider and ends, or goes on to reload.
LEMMA ListensCalm ==
  ASSUME Calm, NEW c \in Callers, NEW l \in {"new", "idle", "reload"}, Goto(c, l),
         c \in Busy, pc[c] # "reload", Need(l) <= Need(pc[c]), c = "app" => l # "new",
         arg[c] = provider, Listen(arg[c]), DOMAIN arg' = Callers, isListening' = TRUE,
         UNCHANGED <<mode, provider, nProv, calls, env>>
  PROVE  Calm'
<1>1. Busy \subseteq {c} /\ pc["app"] # "stopped" /\ l \in Places
  BY GoesOnAlone DEF Places
<1>2. Quiet
  BY QuietIfSilent DEF Calm, PlaceInv, Silent
<1>3. /\ prov' \in [Providers -> [kind : Kinds, registered : BOOLEAN, cur : Nat]]
      /\ src' \in [Sources -> Source] /\ nSrc' \in Nat /\ SourceInv'
  BY <1>2, ListenCalm
<1>4. CalmTypes'
  BY <1>1, <1>3 DEF Calm, CalmTypes, Goto
<1>5. nProv' + Need(l) + (IF c = "app" THEN 0 ELSE StartNeed) <= 2 + 2 * calls'
  <2>1. Need(l) \in 0..2 /\ Need(pc[c]) \in 0..2
    BY DEF Need
  <2> QED
    BY <2>1, BudgetOf
<1> QED
  BY <1>1, <1>3, <1>4, <1>5, Arrive

LEMMA ProviderStartsCalm ==
  ASSUME Calm, NEW c \in Callers, ProviderStarts(c)
  PROVE  Calm'
<1>1. /\ pc[c] \in {"start", "startFallback"} /\ c \in Busy /\ arg[c] = provider
      /\ Listen(arg[c]) /\ Goto(c, Home(c)) /\ isListening' = TRUE
      /\ UNCHANGED <<mode, provider, nProv, calls, env>>
  BY DEF ProviderStarts, Busy, Calm, PlaceInv
<1>2. Home(c) \in {"new", "idle", "reload"} /\ Need(Home(c)) <= Need(pc[c])
      /\ (c = "app" => Home(c) # "new")
  BY <1>1, HotkeysAssumption DEF Need, Home
<1>3. DOMAIN arg' = Callers
  BY DEF ProviderStarts, Calm, CalmTypes
<1> QED
  BY <1>1, <1>2, <1>3, ListensCalm

LEMMA CaptureOnceCalm ==
  ASSUME Calm, NEW c \in Callers, CaptureOnce(c), ~overlapped'
  PROVE  Calm'
<1>1. /\ Goto(c, "capture") /\ Busy \subseteq {c} /\ pc["app"] # "stopped"
      /\ "capture" \in Places
  BY BeginsAlone DEF CaptureOnce, Places
<1>2. /\ calls < MaxCalls /\ calls' = calls + 1 /\ pc[c] = "idle"
      /\ arg' = [arg EXCEPT ![c] = provider]
      /\ UNCHANGED <<mode, provider, isListening, nProv, nSrc, env>>
  BY DEF CaptureOnce, Click, managerVars
<1>3. /\ prov' \in [Providers -> [kind : Kinds, registered : BOOLEAN, cur : Nat]]
      /\ src' \in [Sources -> Source] /\ Quiet'
  BY CloseCalm DEF CaptureOnce
<1>4. CalmTypes'
  <2>1. calls' \in 0..MaxCalls
    BY <1>2, BudgetOf DEF Calm, CalmTypes
  <2> QED
    BY <1>1, <1>2, <1>3, <2>1 DEF Calm, CalmTypes, Goto
<1>5. /\ SourceInv' /\ prov'[provider'].cur = None
      /\ arg'[c] = provider'
  BY <1>2, <1>3, ProviderKnown DEF Quiet, SourceInv, Calm, CalmTypes
<1>6. nProv' + Need("capture") + (IF c = "app" THEN 0 ELSE StartNeed) <= 2 + 2 * calls'
  BY <1>2, BudgetOf DEF Need
<1> QED
  BY <1>1, <1>4, <1>5, <1>6, Arrive

LEMMA CaptureEndsCalm ==
  ASSUME Calm, NEW c \in Callers, CaptureEnds(c)
  PROVE  Calm'
<1>1. /\ pc[c] = "capture" /\ c \in Busy /\ arg[c] = provider /\ isListening \in BOOLEAN
      /\ UNCHANGED <<mode, provider, isListening, nProv, calls, env>>
      /\ DOMAIN arg' = Callers
  BY DEF CaptureEnds, Busy, Calm, CalmTypes, PlaceInv, managerVars
<1>2. PICK l \in {"idle", "reload"} : Goto(c, l)
  BY DEF CaptureEnds
<1>3. l \in Places /\ Need(l) <= Need(pc[c]) /\ l \notin {"new", "start", "startFallback", "capture"}
  BY <1>1, <1>2 DEF Places, Need
<1>4. CASE isListening /\ Listen(arg[c])
  BY <1>1, <1>2, <1>3, <1>4, ListensCalm
<1>5. CASE UNCHANGED <<prov, sourceVars>>
  <2>1. /\ prov' \in [Providers -> [kind : Kinds, registered : BOOLEAN, cur : Nat]]
        /\ UNCHANGED <<prov, src, nSrc>>
    BY <1>5 DEF Calm, CalmTypes, sourceVars
  <2> QED
    BY <1>1, <1>2, <1>3, <2>1, StaysSilent
<1> QED
  BY <1>4, <1>5 DEF CaptureEnds

-----------------------------------------------------------------------------
LEMMA NextCalm == CalmInv /\ [Next]_vars => CalmInv'
<1> SUFFICES ASSUME CalmInv, [Next]_vars, ~overlapped'
             PROVE  Calm'
  BY DEF CalmInv
<1>1. CASE UNCHANGED vars
  <2>1. Calm
    BY <1>1 DEF CalmInv, vars, callerVars
  <2> QED
    BY <1>1, <2>1 DEF vars, managerVars, providerVars, sourceVars, callerVars, Calm, CalmTypes,
      BudgetInv, StartNeed, AloneInv, Busy, PlaceInv, Silent, SourceInv
<1>2. CASE \E s \in Sources : KeyEvent(s) \/ Activation(s) \/ Listener(s)
  <2>1. PICK s \in Sources : KeyEvent(s) \/ Activation(s) \/ Listener(s)
    BY <1>2
  <2>2. Calm
    BY <2>1 DEF CalmInv, KeyEvent, Activation, Listener, ReadActivation, HandleEvent, RunAction,
      ListenerEnds, ResetToDefaults, Begin, callerVars
  <2> QED
    BY <2>1, <2>2, KeyEventCalm, RunActionCalm DEF Listener
<1>3. CASE \E c \in Callers : ReloadConfig(c) \/ CaptureOnce(c) \/ Proceed(c)
  <2>1. PICK c \in Callers : ReloadConfig(c) \/ CaptureOnce(c) \/ Proceed(c)
    BY <1>3
  <2>2. CASE ReloadConfig(c)
    BY <2>2, ReloadCalm DEF CalmInv, ReloadConfig, StopProvider, Begin
  <2>3. CASE CaptureOnce(c)
    BY <2>3, CaptureOnceCalm DEF CalmInv, CaptureOnce, Begin
  <2>4. CASE ProviderStopped(c)
    BY <2>4, ProviderStoppedCalm DEF CalmInv, ProviderStopped
  <2>5. CASE SelectNew(c) \/ SelectFallback(c)
    BY <2>5, SelectCalm DEF CalmInv, SelectNew, SelectFallback
  <2>6. CASE Register(c)
    BY <2>6, RegisterCalm DEF CalmInv, Register
  <2>7. CASE ProviderStarts(c)
    BY <2>7, ProviderStartsCalm DEF CalmInv, ProviderStarts
  <2>8. CASE ProviderFails(c) \/ NoFallback(c)
    BY <2>8, FailsCalm DEF CalmInv, ProviderFails, NoFallback
  <2>9. CASE CaptureEnds(c)
    BY <2>9, CaptureEndsCalm DEF CalmInv, CaptureEnds
  <2> QED
    BY <2>1, <2>2, <2>3, <2>4, <2>5, <2>6, <2>7, <2>8, <2>9 DEF Proceed
<1>4. CASE Start
  BY <1>4, StartCalm DEF CalmInv, Start, Begin
<1>5. CASE Stop
  BY <1>5, StopCalm DEF CalmInv, Stop, StopProvider, Begin
<1> QED
  BY <1>1, <1>2, <1>3, <1>4, <1>5 DEF Next

LEMMA CalmStays == Spec => []CalmInv
<1>1. Init => CalmInv
  BY InitCalm DEF CalmInv
<1> QED
  BY <1>1, NextCalm, PTL DEF Spec

\* Calls that do not overlap leave one open source at most, which is the
\* manager's provider's, whichever providers, captures and fallbacks there were.
\* (ReloadConfig, CaptureOnce, startFallbackAfterRegistration)
THEOREM OneListens == Spec => []OneListener
<1>1. CalmInv => OneListener
  BY DEF CalmInv, OneListener, Calm, CalmTypes, SourceInv, Source, Sources, None
<1> QED
  BY <1>1, CalmStays, PTL

\* No listener is open during a capture that no other call overlaps.
\* (CaptureOnce)
THEOREM SilentCapture == Spec => []CaptureIsSilent
<1>1. ASSUME CalmInv PROVE CaptureIsSilent
  <2> SUFFICES ASSUME ~overlapped, NEW c \in Callers, pc[c] = "capture"
               PROVE  Quiet
    BY DEF CaptureIsSilent, Quiet
  <2>1. Calm /\ Silent
    BY <1>1 DEF CalmInv, Silent, Busy
  <2> QED
    BY <2>1, QuietIfSilent DEF Calm, PlaceInv
<1> QED
  BY <1>1, CalmStays, PTL

\* Nobody listens once the manager has stopped, whichever provider had taken
\* over, unless a call came later. (Stop, isListening)
THEOREM StopIsFinal == Spec => []StoppedIsSilent
<1>1. ASSUME CalmInv PROVE StoppedIsSilent
  <2> SUFFICES ASSUME ~overlapped, pc["app"] = "stopped"
               PROVE  Quiet
    BY DEF StoppedIsSilent, Quiet
  <2>1. Calm /\ Silent
    BY <1>1 DEF CalmInv, Silent
  <2> QED
    BY <2>1, QuietIfSilent DEF Calm, PlaceInv
<1> QED
  BY <1>1, CalmStays, PTL

(***************************************************************************)
(* However calls overlap                                                   *)
(*                                                                         *)
(* What of providers and sources is there does not depend on one call at a *)
(* time: each call makes the providers and opens the sources it may, and   *)
(* each open source belongs to a provider that will close it.              *)
(***************************************************************************)

Count(there) == Cardinality({c \in Callers : pc[c] \in there})

\* Where a call may still make two providers, or one; and where it may still
\* open two sources, or one.
TwoProviders == {"reload", "drain", "select", "capture"}
OneProvider  == {"register", "start", "fallback"}
TwoSources   == {"capture"}
OneSource    == {"reload", "drain", "select", "register", "start", "fallback",
                 "registerFallback", "startFallback"}

Reserved ==
  /\ IsFiniteSet(Busy)
  /\ nProv + 2 * Count(TwoProviders) + Count(OneProvider) + StartNeed <= 2 + 2 * calls
  /\ nSrc + 2 * Count(TwoSources) + Count(OneSource) + StartNeed <= 1 + 2 * calls

\* A call starts a provider that is there, and a provider listens to a source
\* of its own.
Owned ==
  /\ \A c \in Callers : pc[c] \in {"start", "startFallback", "capture"} => arg[c] \in 1..nProv
  /\ \A p \in Providers : prov[p].cur # None =>
       p <= nProv /\ prov[p].cur <= nSrc /\ src[prov[p].cur].owner = p

RosterInv == TypeOK /\ Reserved /\ Owned

\* A caller that goes from its place to l is counted there.
LEMMA CountMove ==
  ASSUME pc \in [Callers -> Places], IsFiniteSet(Busy), NEW c \in Callers, NEW l \in Places,
         Goto(c, l), NEW there, there \cap {"new", "idle", "stopped"} = {}
  PROVE  /\ Count(there) \in Nat
         /\ Count(there)' + (IF pc[c] \in there THEN 1 ELSE 0)
              = Count(there) + (IF l \in there THEN 1 ELSE 0)
<1>. DEFINE S == {d \in Callers : pc[d] \in there}
            T == {d \in Callers : pc'[d] \in there}
<1>1. IsFiniteSet(S) /\ Cardinality(S) \in Nat
  <2>1. S \subseteq Busy
    BY DEF Busy
  <2>. QED  BY <2>1, FS_Subset, FS_CardinalityType
<1>2. T = IF l \in there THEN S \cup {c} ELSE S \ {c}
  BY DEF Goto
<1>3. /\ Cardinality(S \cup {c}) = IF c \in S THEN Cardinality(S) ELSE Cardinality(S) + 1
      /\ Cardinality(S \ {c}) = IF c \in S THEN Cardinality(S) - 1 ELSE Cardinality(S)
  BY <1>1, FS_AddElement, FS_RemoveElement
<1>4. Count(there) = Cardinality(S) /\ Count(there)' = Cardinality(T)
  BY DEF Count
<1>. HIDE DEF T
<1>5. c \in S <=> pc[c] \in there
  OBVIOUS
<1>. HIDE DEF S
<1>. QED  BY <1>1, <1>2, <1>3, <1>4, <1>5

LEMMA BusyMove ==
  ASSUME pc \in [Callers -> Places], IsFiniteSet(Busy), NEW c \in Callers, NEW l \in Places, Goto(c, l)
  PROVE  IsFiniteSet(Busy')
<1>1. IsFiniteSet(Busy \cup {c})
  BY FS_AddElement
<1>2. Busy' \subseteq Busy \cup {c}
  BY DEF Busy, Goto
<1>. QED  BY <1>1, <1>2, FS_Subset

\* What a place may still cost, in providers and in sources.
SourceCost(place) == IF place \in TwoSources THEN 2 ELSE IF place \in OneSource THEN 1 ELSE 0
ProviderCost(place) == IF place \in TwoProviders THEN 2 ELSE IF place \in OneProvider THEN 1 ELSE 0

\* A step that costs no more than the place it leaves, less the one it reaches.
LEMMA Afford ==
  ASSUME TypeOK, Reserved, NEW c \in Callers, NEW l \in Places, Goto(c, l),
         calls' \in Nat, nProv' \in Nat, nSrc' \in Nat, StartNeed' \in Nat,
         nProv' + ProviderCost(l) + StartNeed' + 2 * calls
           <= nProv + ProviderCost(pc[c]) + StartNeed + 2 * calls',
         nSrc' + SourceCost(l) + StartNeed' + 2 * calls
           <= nSrc + SourceCost(pc[c]) + StartNeed + 2 * calls'
  PROVE  Reserved'
<1>. USE DEF TypeOK, Reserved
<1>1. IsFiniteSet(Busy')
  BY BusyMove
<1>. DEFINE In(p, there) == IF p \in there THEN 1 ELSE 0
<1>2. nProv \in Nat /\ nSrc \in Nat /\ calls \in Nat /\ StartNeed \in Nat
  BY HotkeysAssumption DEF Providers, Sources, None, StartNeed
<1>3. ASSUME NEW there \in {TwoProviders, OneProvider, TwoSources, OneSource}
      PROVE  /\ Count(there) \in Nat /\ Count(there)' \in Int
             /\ Count(there)' = Count(there) + In(l, there) - In(pc[c], there)
  <2>1. there \cap {"new", "idle", "stopped"} = {}
    BY DEF TwoProviders, OneProvider, TwoSources, OneSource
  <2>2. /\ Count(there) \in Nat
        /\ Count(there)' + In(pc[c], there) = Count(there) + In(l, there)
    BY <2>1, CountMove
  <2>3. Count(there)' \in Nat
    <3>1. pc' \in [Callers -> Places]
      BY DEF Goto
    <3>2. {d \in Callers : pc'[d] \in there} \subseteq Busy'
      BY <2>1 DEF Busy
    <3>. QED  BY <1>1, <3>2, FS_Subset, FS_CardinalityType DEF Count
  <2>. QED  BY <2>2, <2>3
<1>4. /\ ProviderCost(l) = 2 * In(l, TwoProviders) + In(l, OneProvider)
      /\ ProviderCost(pc[c]) = 2 * In(pc[c], TwoProviders) + In(pc[c], OneProvider)
      /\ SourceCost(l) = 2 * In(l, TwoSources) + In(l, OneSource)
      /\ SourceCost(pc[c]) = 2 * In(pc[c], TwoSources) + In(pc[c], OneSource)
  BY DEF ProviderCost, SourceCost, TwoProviders, OneProvider, TwoSources, OneSource
<1>5. \A p : \A there : In(p, there) \in {0, 1}
  OBVIOUS
<1>. HIDE DEF In, TypeOK
<1>6. nProv' + 2 * Count(TwoProviders)' + Count(OneProvider)' + StartNeed' <= 2 + 2 * calls'
  BY <1>2, <1>3, <1>4, <1>5
<1>7. nSrc' + 2 * Count(TwoSources)' + Count(OneSource)' + StartNeed' <= 1 + 2 * calls'
  BY <1>2, <1>3, <1>4, <1>5
<1>. QED  BY <1>1, <1>6, <1>7

\* What is reserved fits the providers and sources there are.
LEMMA FitNext ==
  ASSUME Reserved', nProv' \in Nat, nSrc' \in Nat, calls' \in 0..MaxCalls
  PROVE  nProv' \in 0..(2 + 2 * MaxCalls) /\ nSrc' \in 0..(1 + 2 * MaxCalls)
<1>1. ASSUME NEW there \in {TwoProviders, OneProvider, TwoSources, OneSource}
      PROVE  Count(there)' \in Nat
  <2>1. {d \in Callers : pc'[d] \in there} \subseteq Busy'
    BY <1>1 DEF Busy, TwoProviders, OneProvider, TwoSources, OneSource
  <2>. QED  BY <2>1, FS_Subset, FS_CardinalityType DEF Count, Reserved
<1>2. StartNeed' \in Nat /\ MaxCalls \in Nat
  BY HotkeysAssumption DEF StartNeed
<1>. QED  BY <1>1, <1>2 DEF Reserved

(***************************************************************************)
(* Providers and sources                                                   *)
(***************************************************************************)

Things ==
  /\ nProv \in Providers /\ nSrc \in Sources \cup {None}
  /\ prov \in [Providers -> Provider] /\ src \in [Sources -> Source]
  /\ \A s \in Sources : src[s].open <=> s <= nSrc /\ prov[src[s].owner].cur = s
  /\ \A p \in Providers : prov[p].cur # None =>
       p <= nProv /\ prov[p].cur <= nSrc /\ src[prov[p].cur].owner = p

\* What is not None is a number from 1 on.
LEMMA Numbers ==
  /\ MaxCalls \in Nat /\ Providers \subseteq Nat \ {0} /\ Sources \subseteq Nat \ {0} /\ None = 0
  /\ \A n \in Nat \ {0} : (n <= 2 + 2 * MaxCalls <=> n \in Providers)
                       /\ (n <= 1 + 2 * MaxCalls <=> n \in Sources)
  BY HotkeysAssumption DEF Providers, Sources, None

\* Arithmetic of the next number, and of costs.
LEMMA NextNumber == \A n, x \in Nat : x <= n => x # n + 1 /\ x <= n + 1
  OBVIOUS

LEMMA Costs ==
  ASSUME NEW x \in Nat, NEW y \in Nat, NEW k \in Nat, NEW l \in Nat, NEW u \in Nat, NEW v \in Nat,
         NEW s \in Nat, NEW t \in Nat, NEW r \in Nat,
         x + u + 2 * k <= y + v + 2 * l + r, t + r <= s
  PROVE  x + u + t + 2 * k <= y + v + s + 2 * l
  OBVIOUS

\* A closed source, and a provider without one, are what they were otherwise.
LEMMA ClosedTypes ==
  /\ \A r \in Provider : [r EXCEPT !.cur = None] \in Provider
  /\ \A r \in Source : [r EXCEPT !.open = FALSE] \in Source
  BY DEF Provider, Source

\* A provider that does not listen opens the next source.
LEMMA ListenThings ==
  ASSUME Things, NEW p \in Providers, p <= nProv, prov[p].cur = None, Listen(p),
         nSrc' \in Sources \cup {None}, nProv' = nProv
  PROVE  Things'
<1>. DEFINE n == nSrc + 1
            new == [owner |-> p, open |-> TRUE, waiting |-> FALSE, at |-> "read"]
<1>. USE DEF Things
<1>1. n \in Sources /\ nSrc \in Nat /\ nSrc' = n /\ n # None
  BY Numbers DEF Listen
<1>2. /\ prov' = [prov EXCEPT ![p].cur = n] /\ src' = [src EXCEPT ![n] = new]
      /\ new \in Source
  BY DEF Listen, Source
<1>3. prov' \in [Providers -> Provider] /\ src' \in [Sources -> Source]
  BY <1>1, <1>2 DEF Provider
<1>4. /\ prov'[p].cur = n /\ \A q \in Providers \ {p} : prov'[q] = prov[q]
      /\ src'[n] = new /\ new.owner = p /\ new.open = TRUE
      /\ \A s \in Sources \ {n} : src'[s] = src[s]
  BY <1>1, <1>2 DEF Provider
<1>. HIDE DEF new, n
<1>5. ASSUME NEW s \in Sources
      PROVE  src'[s].open <=> s <= nSrc' /\ prov'[src'[s].owner].cur = s
  <2>1. CASE s = n
    BY <1>1, <1>4, <2>1 DEF n
  <2>2. CASE s # n
    <3>1. src'[s] = src[s] /\ src[s].owner \in Providers /\ s # None
      BY <1>4, <2>2, Numbers DEF Source
    <3>2. s <= nSrc' <=> s <= nSrc
      BY <1>1, <2>2, Numbers DEF n
    <3>3. prov'[src[s].owner].cur = s <=> prov[src[s].owner].cur = s
      BY <1>4, <2>2, <3>1
    <3>. QED  BY <3>1, <3>2, <3>3
  <2>. QED  BY <2>1, <2>2
<1>6. ASSUME NEW q \in Providers, prov'[q].cur # None
      PROVE  q <= nProv' /\ prov'[q].cur <= nSrc' /\ src'[prov'[q].cur].owner = q
  <2>1. CASE q = p
    BY <1>1, <1>4, <2>1
  <2>2. CASE q # p
    <3>1. prov'[q] = prov[q] /\ prov[q].cur \in Sources
      BY <1>3, <1>4, <1>6, <2>2 DEF Provider
    <3>2. q <= nProv /\ prov[q].cur <= nSrc /\ src[prov[q].cur].owner = q
      BY <1>6, <3>1
    <3>3. prov[q].cur # n /\ prov[q].cur <= n
      <4>1. prov[q].cur \in Nat /\ nSrc \in Nat
        BY <1>1, <3>1, Numbers
      <4>. QED  BY <3>2, <4>1, NextNumber DEF n
    <3>. DEFINE s == prov[q].cur
    <3>4. s \in Sources \ {n} /\ prov'[q].cur = s /\ s <= nSrc' /\ src[s].owner = q
      BY <1>1, <3>1, <3>2, <3>3
    <3>. HIDE DEF s
    <3>5. src'[s] = src[s]
      BY <1>4, <3>4
    <3>. QED  BY <3>2, <3>4, <3>5
  <2>. QED  BY <2>1, <2>2
<1>. QED  BY <1>1, <1>3, <1>5, <1>6

\* A provider closes its source.
LEMMA CloseThings ==
  ASSUME Things, NEW p \in Providers, Close(p), nSrc' = nSrc, nProv' = nProv
  PROVE  Things'
<1>. USE DEF Things
<1>1. CASE prov[p].cur = None
  BY <1>1 DEF Close
<1>2. CASE prov[p].cur # None
  <2>. DEFINE old == prov[p].cur
  <2>1. /\ prov' = [prov EXCEPT ![p].cur = None] /\ src' = [src EXCEPT ![old].open = FALSE]
        /\ old \in Sources
    BY <1>2 DEF Close, Provider
  <2>2. prov' \in [Providers -> Provider] /\ src' \in [Sources -> Source]
    <3>1. [prov[p] EXCEPT !.cur = None] \in Provider
      BY ClosedTypes
    <3>2. [src[old] EXCEPT !.open = FALSE] \in Source
      BY <2>1, ClosedTypes
    <3>. HIDE DEF old
    <3>. QED  BY <2>1, <3>1, <3>2
  <2>3. /\ prov'[p].cur = None /\ \A q \in Providers \ {p} : prov'[q] = prov[q]
        /\ src'[old].open = FALSE /\ src'[old].owner = src[old].owner
        /\ \A s \in Sources \ {old} : src'[s] = src[s]
    BY <2>1 DEF Provider, Source
  <2>4. src[old].owner = p /\ \A s \in Sources : s # None
    BY <1>2, Numbers
  <2>. HIDE DEF old
  <2>5. ASSUME NEW s \in Sources
        PROVE  src'[s].open <=> s <= nSrc' /\ prov'[src'[s].owner].cur = s
    <3>1. CASE s = old
      BY <2>3, <2>4, <3>1
    <3>2. CASE s # old
      <4>1. src'[s] = src[s] /\ src[s].owner \in Providers
        BY <2>3, <3>2 DEF Source
      <4>2. prov'[src[s].owner].cur = s <=> prov[src[s].owner].cur = s
        BY <2>3, <2>4, <3>2, <4>1 DEF old
      <4>. QED  BY <4>1, <4>2
    <3>. QED  BY <3>1, <3>2
  <2>6. ASSUME NEW q \in Providers, prov'[q].cur # None
        PROVE  q <= nProv' /\ prov'[q].cur <= nSrc' /\ src'[prov'[q].cur].owner = q
    <3>1. q # p /\ prov'[q] = prov[q]
      BY <2>3, <2>6
    <3>2. prov[q].cur \in Sources /\ src[prov[q].cur].owner = q /\ q <= nProv /\ prov[q].cur <= nSrc
      BY <2>6, <3>1 DEF Provider
    <3>3. prov[q].cur # old
      BY <2>4, <3>1, <3>2
    <3>. QED  BY <2>3, <3>1, <3>2, <3>3
  <2>. QED  BY <2>2, <2>5, <2>6
<1>. QED  BY <1>1, <1>2

\* A provider is made, or registers its hotkeys.
LEMMA ProviderThings ==
  ASSUME Things, NEW p \in Providers, NEW new \in Provider, prov' = [prov EXCEPT ![p] = new],
         \/ p = nProv + 1 /\ new.cur = None
         \/ new.cur = prov[p].cur,
         nProv' \in Providers, nProv <= nProv', UNCHANGED sourceVars
  PROVE  Things'
<1>. USE DEF Things, sourceVars
<1>1. new.cur = prov[p].cur
  <2>1. CASE p = nProv + 1
    BY <2>1, Numbers
  <2>. QED  BY <2>1
<1>2. prov' \in [Providers -> Provider] /\ \A q \in Providers : prov'[q].cur = prov[q].cur
  BY <1>1
<1>3. \A s \in Sources : src[s].owner \in Providers
  BY DEF Source
<1>4. \A q \in Providers : q <= nProv => q <= nProv'
  BY Numbers
<1>. QED  BY <1>2, <1>3, <1>4

\* A listener goes on.
LEMMA ListenerThings ==
  ASSUME Things, NEW s \in Sources, NEW source \in Source, ListenerStep(s, source),
         source.open = src[s].open, source.owner = src[s].owner
  PROVE  Things'
<1>1. /\ src' \in [Sources -> Source]
      /\ \A t \in Sources : src'[t].open = src[t].open /\ src'[t].owner = src[t].owner
  BY DEF ListenerStep, Things
<1>2. UNCHANGED <<prov, nProv, nSrc>>
  BY DEF ListenerStep, providerVars
<1>3. \A p \in Providers : prov[p].cur # None => prov[p].cur \in Sources
  BY DEF Things, Provider
<1>. QED  BY <1>1, <1>2, <1>3 DEF Things

(***************************************************************************)
(* Steps                                                                   *)
(***************************************************************************)

\* c goes to l, and then holds a.
Arrives(c, l, a) ==
  /\ l \in Places /\ Goto(c, l) /\ (c = "app" => l # "new")
  /\ a \in Providers \cup Sources \cup {None} /\ arg' = [arg EXCEPT ![c] = a]
  /\ l \in {"start", "startFallback", "capture"} => a \in 1..nProv'

\* The start of the program is not one of the calls.
Credit(c) == IF c = "app" /\ pc[c] = "new" THEN 1 ELSE 0

Affords(c, l) ==
  /\ nProv' + ProviderCost(l) + 2 * calls <= nProv + ProviderCost(pc[c]) + 2 * calls' + Credit(c)
  /\ nSrc' + SourceCost(l) + 2 * calls <= nSrc + SourceCost(pc[c]) + 2 * calls' + Credit(c)

\* The manager, and the numbers.
Manages ==
  /\ calls' \in 0..MaxCalls /\ overlapped' \in BOOLEAN /\ mode' \in Modes
  /\ isListening' \in BOOLEAN /\ env' = env
  /\ nProv' \in Nat /\ nSrc' \in Nat /\ nProv <= nProv' /\ provider' \in 1..nProv'

\* A caller goes on, with what its place and the calls begun have reserved.
LEMMA Onward ==
  ASSUME RosterInv, NEW c \in Callers, NEW l, NEW a, Arrives(c, l, a), Affords(c, l), Manages,
         nProv' \in Providers /\ nSrc' \in Sources \cup {None} => Things'
  PROVE  RosterInv'
<1>. USE DEF Arrives, Manages
<1>. DEFINE credit == Credit(c)
<1>0. credit \in {0, 1} /\ (credit = 1 => c = "app" /\ pc[c] = "new")
  BY DEF Credit
<1>. HIDE DEF credit
<1>1. /\ pc \in [Callers -> Places] /\ arg \in [Callers -> Providers \cup Sources \cup {None}]
      /\ "app" \in Callers /\ nProv \in Nat /\ nSrc \in Nat /\ calls \in Nat /\ MaxCalls \in Nat
  BY Numbers DEF RosterInv, TypeOK, Callers
<1>2. pc' \in [Callers -> Places] /\ arg' \in [Callers -> Providers \cup Sources \cup {None}]
  BY <1>1 DEF Goto
<1>3. /\ StartNeed \in {0, 1} /\ StartNeed' \in {0, 1}
      /\ StartNeed' + credit <= StartNeed
  BY <1>0, <1>1 DEF Goto, StartNeed
<1>4. calls' \in Nat
  BY <1>1
<1>5. /\ ProviderCost(l) \in Nat /\ ProviderCost(pc[c]) \in Nat
      /\ SourceCost(l) \in Nat /\ SourceCost(pc[c]) \in Nat
  BY DEF ProviderCost, SourceCost
<1>6. Reserved'
  <2>1. /\ nProv' + ProviderCost(l) + StartNeed' + 2 * calls
             <= nProv + ProviderCost(pc[c]) + StartNeed + 2 * calls'
        /\ nSrc' + SourceCost(l) + StartNeed' + 2 * calls
             <= nSrc + SourceCost(pc[c]) + StartNeed + 2 * calls'
    <3>1. StartNeed \in Nat /\ StartNeed' \in Nat /\ credit \in Nat
      BY <1>0, <1>3
    <3>. HIDE DEF ProviderCost, SourceCost
    <3>3. nProv' + ProviderCost(l) + StartNeed' + 2 * calls
            <= nProv + ProviderCost(pc[c]) + StartNeed + 2 * calls'
      BY <1>1, <1>3, <1>4, <1>5, <3>1, Costs DEF Affords, credit
    <3>4. nSrc' + SourceCost(l) + StartNeed' + 2 * calls
            <= nSrc + SourceCost(pc[c]) + StartNeed + 2 * calls'
      BY <1>1, <1>3, <1>4, <1>5, <3>1, Costs DEF Affords, credit
    <3>. QED  BY <3>3, <3>4
  <2>. QED  BY <1>3, <1>4, <2>1, Afford DEF RosterInv
<1>7. nProv' \in 0..(2 + 2 * MaxCalls) /\ nSrc' \in 0..(1 + 2 * MaxCalls)
  BY <1>6, FitNext
<1>8. Things'
  BY <1>7, Numbers DEF None
<1>9. \A d \in Callers : pc'[d] \in {"start", "startFallback", "capture"} => arg'[d] \in 1..nProv'
  <2>1. \A d \in Callers \ {c} : pc'[d] = pc[d] /\ arg'[d] = arg[d]
    BY <1>1 DEF Goto
  <2>2. \A d \in Callers : pc[d] \in {"start", "startFallback", "capture"} => arg[d] \in 1..nProv'
    BY <1>1 DEF RosterInv, Owned
  <2>3. pc'[c] = l /\ arg'[c] = a
    BY <1>1 DEF Goto
  <2>. QED  BY <2>1, <2>2, <2>3
<1>10. TypeOK'
  BY <1>2, <1>8 DEF TypeOK, Things, RosterInv
<1>. QED  BY <1>6, <1>8, <1>9, <1>10 DEF RosterInv, Owned, Things

\* The parts of RosterInv.
LEMMA RosterParts ==
  ASSUME RosterInv
  PROVE  /\ Things /\ provider \in Providers /\ provider <= nProv
         /\ nProv \in Nat /\ nProv + 1 \in Nat \ {0} /\ nSrc \in Nat /\ calls \in Nat
         /\ mode \in Modes /\ isListening \in BOOLEAN /\ overlapped \in BOOLEAN
         /\ calls \in 0..MaxCalls /\ 1..nProv \subseteq Providers /\ provider \in 1..nProv
         /\ pc \in [Callers -> Places] /\ DOMAIN arg = Callers
  BY Numbers DEF RosterInv, Owned, TypeOK, Things, Providers

\* A call begins, is at work, or ends: it opens nothing and makes nothing.
LEMMA RestThings == Things /\ UNCHANGED <<providerVars, sourceVars>> => Things'
  BY DEF Things, providerVars, sourceVars

\* The providers a caller may make, and the sources it may open, by its place.
LEMMA CostOf ==
  /\ \A place : /\ place \in {"new", "idle", "drainStop", "stopped"}
                     => ProviderCost(place) = 0 /\ SourceCost(place) = 0
                /\ place \in {"reload", "drain", "select"}
                     => ProviderCost(place) = 2 /\ SourceCost(place) = 1
                /\ place \in {"register", "start", "fallback"}
                     => ProviderCost(place) = 1 /\ SourceCost(place) = 1
                /\ place \in {"registerFallback", "startFallback"}
                     => ProviderCost(place) = 0 /\ SourceCost(place) = 1
  /\ ProviderCost("capture") = 2 /\ SourceCost("capture") = 2
  BY DEF ProviderCost, SourceCost, TwoProviders, OneProvider, TwoSources, OneSource

\* SelectProvider and the fallback make what the code knows.
LEMMA NewProviders ==
  /\ \A k \in Kinds : NewProvider(k) \in Provider /\ NewProvider(k).cur = None
  /\ env \in Environments => \A m \in Modes : SelectProvider(m) \in Kinds
<1>1. \A k \in Kinds : NewProvider(k) \in Provider /\ NewProvider(k).cur = None
  BY DEF NewProvider, Provider
<1>2. ASSUME env \in Environments, NEW m \in Modes PROVE SelectProvider(m) \in Kinds
  BY <1>2, HotkeysAssumption DEF SelectProvider, Kinds, Env
<1>. QED  BY <1>1, <1>2

\* A step that begins no call, makes no provider and opens no source.
LEMMA OnwardQuietly ==
  ASSUME RosterInv, NEW c \in Callers, NEW l, NEW a, Arrives(c, l, a), isListening' \in BOOLEAN,
         UNCHANGED <<mode, provider, nProv, nSrc, calls, overlapped, env>>,
         ProviderCost(l) <= ProviderCost(pc[c]), SourceCost(l) <= SourceCost(pc[c]), Things'
  PROVE  RosterInv'
<1>1. /\ nProv \in Nat /\ nSrc \in Nat /\ calls \in Nat /\ Credit(c) \in {0, 1}
      /\ ProviderCost(l) \in Nat /\ ProviderCost(pc[c]) \in Nat
      /\ SourceCost(l) \in Nat /\ SourceCost(pc[c]) \in Nat
  BY RosterParts DEF ProviderCost, SourceCost, Credit
<1>2. Affords(c, l)
  BY <1>1 DEF Affords
<1>3. Manages
  BY <1>1, RosterParts DEF Manages
<1>. QED  BY <1>2, <1>3, Onward

\* Stop and ReloadConfig, up to the wait.
LEMMA StopKeeps ==
  ASSUME RosterInv, NEW c \in Callers, NEW drain \in {"drain", "drainStop"},
         NEW next \in {"select", "stopped"}, StopProvider(c, drain, next),
         calls' \in 0..MaxCalls, ProviderCost(drain) = ProviderCost(next), SourceCost(drain) = SourceCost(next),
         ProviderCost(next) + 2 * calls <= ProviderCost(pc[c]) + 2 * calls',
         SourceCost(next) + 2 * calls <= SourceCost(pc[c]) + 2 * calls'
  PROVE  RosterInv'
<1>. DEFINE waits == isListening /\ prov[provider].cur # None
            l == IF waits THEN drain ELSE next
            a == IF waits THEN prov[provider].cur ELSE None
<1>1. /\ Goto(c, l) /\ arg' = [arg EXCEPT ![c] = a] /\ isListening' = waits
      /\ overlapped' \in BOOLEAN /\ UNCHANGED <<mode, provider, nProv, nSrc, env>>
      /\ Close(provider) \/ UNCHANGED <<prov, src>>
  BY RosterParts DEF StopProvider, Begin
<1>2. a \in Providers \cup Sources \cup {None}
  BY RosterParts DEF Things, Provider
<1>3. Things'
  BY <1>1, RosterParts, CloseThings, RestThings DEF providerVars, sourceVars
<1>4. l \in Places /\ l \notin {"new", "start", "startFallback", "capture"}
      /\ ProviderCost(l) = ProviderCost(next) /\ SourceCost(l) = SourceCost(next)
  BY DEF Places
<1>5. waits \in BOOLEAN
  BY RosterParts
<1>. HIDE DEF l, a, waits
<1>6. /\ ProviderCost(l) \in Nat /\ ProviderCost(pc[c]) \in Nat /\ nProv \in Nat
      /\ SourceCost(l) \in Nat /\ SourceCost(pc[c]) \in Nat /\ nSrc \in Nat
      /\ calls \in Nat /\ calls' \in Nat /\ Credit(c) \in {0, 1}
  BY RosterParts, Numbers DEF ProviderCost, SourceCost, Credit
<1>7. /\ ProviderCost(l) + 2 * calls <= ProviderCost(pc[c]) + 2 * calls'
      /\ SourceCost(l) + 2 * calls <= SourceCost(pc[c]) + 2 * calls'
  BY <1>4
<1>8. Affords(c, l)
  BY <1>1, <1>6, <1>7 DEF Affords
<1>9. Manages
  BY <1>1, <1>5, <1>6, RosterParts DEF Manages
<1>10. Arrives(c, l, a)
  BY <1>1, <1>2, <1>4 DEF Arrives
<1>. QED  BY <1>3, <1>8, <1>9, <1>10, Onward

\* A reload begins.
LEMMA ReloadKeeps ==
  ASSUME RosterInv, NEW c \in Callers, ReloadConfig(c)
  PROVE  RosterInv'
<1>1. CASE Click(c)
  <2>1. pc[c] = "idle" /\ calls' = calls + 1 /\ calls' \in 0..MaxCalls
    BY <1>1, RosterParts, Numbers DEF Click
  <2>. QED  BY <2>1, CostOf, RosterParts, StopKeeps DEF ReloadConfig
<1>2. CASE pc[c] = "reload" /\ UNCHANGED calls
  BY <1>2, CostOf, RosterParts, StopKeeps DEF ReloadConfig
<1>. QED  BY <1>1, <1>2 DEF ReloadConfig

\* A provider is made: providers cost a call one of those it has reserved.
LEMMA MakeKeeps ==
  ASSUME RosterInv, NEW c \in Callers, NEW k \in Kinds, NEW l \in {"register", "registerFallback"},
         prov' = [prov EXCEPT ![nProv + 1] = NewProvider(k)], nProv' = nProv + 1,
         provider' = nProv + 1, Goto(c, l), mode' \in Modes,
         UNCHANGED <<isListening, sourceVars, arg, calls, overlapped, env>>,
         ProviderCost(pc[c]) = ProviderCost(l) + 1, SourceCost(pc[c]) = SourceCost(l)
  PROVE  RosterInv'
<1>1. /\ nProv \in Nat /\ nSrc \in Nat /\ calls \in Nat /\ Credit(c) \in {0, 1}
      /\ ProviderCost(l) \in Nat /\ SourceCost(l) \in Nat
  BY RosterParts DEF ProviderCost, SourceCost, Credit
<1>2. Affords(c, l)
  BY <1>1 DEF Affords, sourceVars
<1>3. Manages
  BY <1>1, RosterParts DEF Manages, sourceVars
<1>4. Arrives(c, l, arg[c])
  BY DEF Arrives, RosterInv, TypeOK, Places
<1>5. ASSUME nProv' \in Providers PROVE Things'
  <2>1. NewProvider(k) \in Provider /\ NewProvider(k).cur = None
    BY NewProviders
  <2>2. nProv + 1 \in Providers /\ nProv <= nProv' /\ Things
    BY <1>1, <1>5, RosterParts
  <2>. QED  BY <1>5, <2>1, <2>2, ProviderThings
<1>. QED  BY <1>2, <1>3, <1>4, <1>5, Onward

\* A provider starts, or starts again, and listens.
LEMMA ListenKeeps ==
  ASSUME RosterInv, NEW c \in Callers, NEW l \in Places,
         pc[c] \in {"start", "startFallback", "capture"}, Goto(c, l),
         MayStart(arg[c]), Listen(arg[c]), arg' = [arg EXCEPT ![c] = None],
         isListening' \in BOOLEAN, UNCHANGED <<mode, provider, nProv, calls, overlapped, env>>,
         c = "app" => l # "new", l \notin {"start", "startFallback", "capture"},
         ProviderCost(l) <= ProviderCost(pc[c]), SourceCost(l) + 1 <= SourceCost(pc[c])
  PROVE  RosterInv'
<1>1. /\ nProv \in Nat /\ nSrc \in Nat /\ calls \in Nat /\ Credit(c) \in {0, 1}
      /\ ProviderCost(l) \in Nat /\ SourceCost(l) \in Nat
      /\ ProviderCost(pc[c]) \in Nat /\ SourceCost(pc[c]) \in Nat /\ nSrc' = nSrc + 1
  BY RosterParts DEF ProviderCost, SourceCost, Credit, Listen
<1>2. Affords(c, l)
  BY <1>1 DEF Affords
<1>3. Manages
  BY <1>1, RosterParts DEF Manages
<1>4. Arrives(c, l, None)
  BY DEF Arrives
<1>5. ASSUME nSrc' \in Sources \cup {None} PROVE Things'
  <2>1. arg[c] \in 1..nProv
    BY DEF RosterInv, Owned
  <2>2. arg[c] \in Providers /\ arg[c] <= nProv /\ prov[arg[c]].cur = None /\ Things
    BY <1>1, <2>1, RosterParts DEF MayStart
  <2>. QED  BY <1>5, <2>2, ListenThings
<1>. QED  BY <1>2, <1>3, <1>4, <1>5, Onward

\* The steps of a call that has begun.
LEMMA ProceedKeeps ==
  ASSUME RosterInv, NEW c \in Callers, Proceed(c)
  PROVE  RosterInv'
<1>. DEFINE home == Home(c)
<1>1. /\ home \in Places /\ home \in {"new", "idle"} /\ (c = "app" => home # "new")
      /\ ProviderCost(home) = 0 /\ SourceCost(home) = 0
  BY HotkeysAssumption, CostOf DEF Home, Places
<1>2. /\ Things /\ provider \in 1..nProv /\ isListening \in BOOLEAN /\ mode \in Modes
      /\ arg[c] \in Providers \cup Sources \cup {None} /\ arg = [arg EXCEPT ![c] = arg[c]]
  BY RosterParts DEF RosterInv, TypeOK
<1>. HIDE DEF home
<1>3. CASE ProviderStopped(c)
  <2>. DEFINE l == IF pc[c] = "drain" THEN "select" ELSE "stopped"
  <2>1. Arrives(c, l, None)
    BY <1>3 DEF ProviderStopped, Places, Arrives
  <2>2. ProviderCost(l) <= ProviderCost(pc[c]) /\ SourceCost(l) <= SourceCost(pc[c])
    BY <1>3, CostOf DEF ProviderStopped
  <2>3. /\ isListening' \in BOOLEAN
        /\ UNCHANGED <<mode, provider, providerVars, sourceVars, calls, overlapped, env>>
    BY <1>3 DEF ProviderStopped
  <2>. HIDE DEF l
  <2>. QED  BY <1>2, <2>1, <2>2, <2>3, RestThings, OnwardQuietly DEF providerVars, sourceVars
<1>4. CASE ProviderFails(c)
  <2>. DEFINE l == IF pc[c] = "start" THEN "fallback" ELSE home
  <2>1. Arrives(c, l, None)
    BY <1>1, <1>4 DEF ProviderFails, Places, Arrives, home
  <2>2. ProviderCost(l) <= ProviderCost(pc[c]) /\ SourceCost(l) <= SourceCost(pc[c])
    BY <1>1, <1>4, CostOf DEF ProviderFails
  <2>3. UNCHANGED <<managerVars, providerVars, sourceVars, calls, overlapped, env>>
    BY <1>4 DEF ProviderFails
  <2>. HIDE DEF l
  <2>. QED  BY <1>2, <2>1, <2>2, <2>3, RestThings, OnwardQuietly
            DEF managerVars, providerVars, sourceVars
<1>5. CASE NoFallback(c)
  <2>1. Arrives(c, home, arg[c])
    BY <1>1, <1>2, <1>5 DEF NoFallback, Arrives, home
  <2>2. ProviderCost(home) <= ProviderCost(pc[c]) /\ SourceCost(home) <= SourceCost(pc[c])
    BY <1>1, <1>5, CostOf DEF NoFallback
  <2>3. UNCHANGED <<managerVars, providerVars, sourceVars, calls, overlapped, env>>
    BY <1>5 DEF NoFallback
  <2>. QED  BY <1>2, <2>1, <2>2, <2>3, RestThings, OnwardQuietly
            DEF managerVars, providerVars, sourceVars
<1>6. CASE SelectNew(c)
  <2>1. PICK k \in Kinds : prov' = [prov EXCEPT ![nProv + 1] = NewProvider(k)]
    <3>1. env \in Environments
      BY DEF RosterInv, TypeOK
    <3>. QED  BY <1>6, <3>1, NewProviders DEF SelectNew
  <2>2. ProviderCost(pc[c]) = ProviderCost("register") + 1 /\ SourceCost(pc[c]) = SourceCost("register")
    BY <1>6, CostOf DEF SelectNew
  <2>. QED  BY <1>6, <2>1, <2>2, MakeKeeps DEF SelectNew
<1>7. CASE SelectFallback(c)
  <2>1. PICK k \in Kinds : prov' = [prov EXCEPT ![nProv + 1] = NewProvider(k)]
    BY <1>7 DEF SelectFallback, FallbackKinds, Kinds
  <2>2. /\ ProviderCost(pc[c]) = ProviderCost("registerFallback") + 1
        /\ SourceCost(pc[c]) = SourceCost("registerFallback")
    BY <1>7, CostOf DEF SelectFallback
  <2>. QED  BY <1>2, <1>7, <2>1, <2>2, MakeKeeps DEF SelectFallback
<1>8. CASE Register(c)
  <2>0. UNCHANGED <<managerVars, nProv, sourceVars, calls, overlapped, env>>
    BY <1>8 DEF Register
  <2>1. CASE Goto(c, home) /\ UNCHANGED <<prov, arg>>
    <3>1. Arrives(c, home, arg[c]) /\ Things'
      BY <1>1, <1>2, <2>0, <2>1, RestThings DEF Arrives, providerVars
    <3>2. ProviderCost(home) <= ProviderCost(pc[c]) /\ SourceCost(home) <= SourceCost(pc[c])
      BY <1>1 DEF ProviderCost, SourceCost
    <3>. QED  BY <1>2, <2>0, <3>1, <3>2, OnwardQuietly DEF managerVars, sourceVars
  <2>2. CASE /\ Goto(c, IF pc[c] = "register" THEN "start" ELSE "startFallback")
             /\ prov' = [prov EXCEPT ![provider].registered = TRUE]
             /\ arg' = [arg EXCEPT ![c] = provider]
    <3>. DEFINE l == IF pc[c] = "register" THEN "start" ELSE "startFallback"
    <3>1. Things'
      <4>1. prov[provider] \in Provider /\ provider \in Providers
        BY RosterParts DEF Things
      <4>2. /\ [prov[provider] EXCEPT !.registered = TRUE] \in Provider
            /\ [prov[provider] EXCEPT !.registered = TRUE].cur = prov[provider].cur
        BY <4>1 DEF Provider
      <4>3. prov' = [prov EXCEPT ![provider] = [prov[provider] EXCEPT !.registered = TRUE]]
        BY <2>2
      <4>4. nProv' \in Providers /\ nProv <= nProv' /\ UNCHANGED sourceVars
        BY <2>0, RosterParts DEF Things
      <4>. QED  BY <1>2, <4>1, <4>2, <4>3, <4>4, ProviderThings
    <3>2. Arrives(c, l, provider)
      BY <2>0, <2>2, RosterParts DEF Arrives, Places
    <3>3. ProviderCost(l) <= ProviderCost(pc[c]) /\ SourceCost(l) <= SourceCost(pc[c])
      BY <1>8, CostOf DEF Register
    <3>. HIDE DEF l
    <3>. QED  BY <1>2, <2>0, <3>1, <3>2, <3>3, OnwardQuietly DEF managerVars, sourceVars
  <2>. QED  BY <1>8, <2>1, <2>2 DEF Register, home
<1>9. CASE ProviderStarts(c)
  <2>1. /\ ProviderCost(home) <= ProviderCost(pc[c]) /\ SourceCost(home) + 1 <= SourceCost(pc[c])
    BY <1>1, <1>9, CostOf DEF ProviderStarts
  <2>. QED  BY <1>1, <1>9, <2>1, ListenKeeps DEF ProviderStarts, home
<1>10. CASE CaptureEnds(c)
  <2>1. PICK next \in {"idle", "reload"} : Goto(c, next)
    BY <1>10 DEF CaptureEnds
  <2>2. /\ pc[c] = "capture" /\ arg' = [arg EXCEPT ![c] = None]
        /\ UNCHANGED <<managerVars, nProv, calls, overlapped, env>>
    BY <1>10 DEF CaptureEnds
  <2>3. /\ ProviderCost(next) <= ProviderCost(pc[c]) /\ SourceCost(next) + 1 <= SourceCost(pc[c])
        /\ SourceCost(next) <= SourceCost(pc[c]) /\ next \in Places
    BY <2>2, CostOf DEF Places
  <2>4. CASE MayStart(arg[c]) /\ Listen(arg[c])
    BY <1>2, <2>1, <2>2, <2>3, <2>4, ListenKeeps DEF managerVars
  <2>5. CASE UNCHANGED <<prov, sourceVars>>
    <3>1. Things'
      BY <1>2, <2>2, <2>5, RestThings DEF providerVars
    <3>2. Arrives(c, next, None)
      BY <2>1, <2>2, <2>3 DEF Arrives
    <3>. QED  BY <1>2, <2>2, <2>3, <2>5, <3>1, <3>2, OnwardQuietly DEF managerVars, sourceVars
  <2>. QED  BY <1>10, <2>4, <2>5 DEF CaptureEnds
<1>11. CASE ReloadConfig(c)
  BY <1>11, ReloadKeeps
<1>. QED
  BY <1>3, <1>4, <1>5, <1>6, <1>7, <1>8, <1>9, <1>10, <1>11 DEF Proceed

\* A capture begins.
LEMMA CaptureKeeps ==
  ASSUME RosterInv, NEW c \in Callers, CaptureOnce(c)
  PROVE  RosterInv'
<1>1. /\ pc[c] = "idle" /\ calls' = calls + 1 /\ calls' \in 0..MaxCalls
      /\ Goto(c, "capture") /\ arg' = [arg EXCEPT ![c] = provider]
      /\ UNCHANGED <<managerVars, nProv, nSrc, env>> /\ Close(provider)
      /\ overlapped' \in BOOLEAN
  BY RosterParts, Numbers DEF CaptureOnce, Click, Begin
<1>2. /\ nProv \in Nat /\ nSrc \in Nat /\ calls \in Nat /\ Credit(c) = 0
      /\ ProviderCost(pc[c]) = 0 /\ SourceCost(pc[c]) = 0
      /\ ProviderCost("capture") = 2 /\ SourceCost("capture") = 2
  BY <1>1, RosterParts, CostOf DEF Credit
<1>3. Affords(c, "capture")
  BY <1>1, <1>2 DEF Affords
<1>4. Manages
  BY <1>1, RosterParts DEF Manages, managerVars
<1>5. Arrives(c, "capture", provider)
  BY <1>1, RosterParts DEF Arrives, Places
<1>6. Things'
  BY <1>1, RosterParts, CloseThings
<1>. QED  BY <1>3, <1>4, <1>5, <1>6, Onward

\* Start and Stop of the application.
LEMMA AppKeeps ==
  ASSUME RosterInv, Start \/ Stop
  PROVE  RosterInv'
<1>. "app" \in Callers
  BY DEF Callers
<1>1. CASE Start
  <2>. DEFINE l == IF isListening THEN "idle" ELSE "register"
  <2>1. /\ pc["app"] = "new" /\ Goto("app", l) /\ overlapped' \in BOOLEAN
        /\ UNCHANGED <<arg, calls, managerVars, providerVars, sourceVars, env>>
    BY <1>1, RosterParts DEF Start, Begin
  <2>2. /\ l \in Places /\ l \in {"idle", "register"}
        /\ ProviderCost(l) \in {0, 1} /\ SourceCost(l) \in {0, 1}
        /\ ProviderCost("new") = 0 /\ SourceCost("new") = 0 /\ Credit("app") = 1
    BY <2>1, CostOf DEF Places, Credit
  <2>. HIDE DEF l
  <2>3. Arrives("app", l, arg["app"])
    BY <2>1, <2>2 DEF Arrives, RosterInv, TypeOK
  <2>4. Affords("app", l)
    BY <2>1, <2>2, RosterParts DEF Affords, providerVars, sourceVars
  <2>5. Manages
    BY <2>1, RosterParts DEF Manages, managerVars, providerVars, sourceVars
  <2>6. Things'
    BY <2>1, RosterParts, RestThings
  <2>. QED  BY <2>3, <2>4, <2>5, <2>6, Onward
<1>2. CASE Stop
  <2>1. pc["app"] = "idle" /\ calls' = calls /\ StopProvider("app", "drainStop", "stopped")
    BY <1>2 DEF Stop
  <2>2. /\ ProviderCost("drainStop") = 0 /\ SourceCost("drainStop") = 0
        /\ ProviderCost("stopped") = 0 /\ SourceCost("stopped") = 0
        /\ ProviderCost("idle") = 0 /\ SourceCost("idle") = 0
    BY CostOf
  <2>. QED  BY <2>1, <2>2, RosterParts, StopKeeps
<1>. QED  BY <1>1, <1>2

\* A listener goes on, and may run an action, which begins a call.
LEMMA ListenersKeep ==
  ASSUME RosterInv, NEW s \in Sources, KeyEvent(s) \/ Activation(s) \/ Listener(s)
  PROVE  RosterInv'
<1>1. src[s] \in Source
  BY RosterParts DEF Things
<1>2. PICK source \in Source :
        /\ ListenerStep(s, source) /\ source.open = src[s].open /\ source.owner = src[s].owner
  <2>1. \A next \in {"none", "read", "handle", "action", "gone"} : \A w \in BOOLEAN :
          /\ [src[s] EXCEPT !.at = next] \in Source
          /\ [src[s] EXCEPT !.waiting = w] \in Source
          /\ [src[s] EXCEPT !.at = next, !.waiting = w] \in Source
    BY <1>1 DEF Source
  <2>2. \A next, w \in {"none", "read", "handle", "action", "gone"} \cup BOOLEAN :
          /\ [src[s] EXCEPT !.at = next].open = src[s].open
          /\ [src[s] EXCEPT !.at = next].owner = src[s].owner
          /\ [src[s] EXCEPT !.waiting = w].open = src[s].open
          /\ [src[s] EXCEPT !.waiting = w].owner = src[s].owner
          /\ [src[s] EXCEPT !.at = next, !.waiting = w].open = src[s].open
          /\ [src[s] EXCEPT !.at = next, !.waiting = w].owner = src[s].owner
    BY <1>1 DEF Source
  <2>3. CASE \/ KeyEvent(s)
             \/ HandleEvent(s) \/ RunAction(s) \/ ListenerEnds(s)
    <3>1. PICK next \in {"read", "handle", "action", "gone"} :
            ListenerStep(s, [src[s] EXCEPT !.at = next])
      BY <2>3 DEF KeyEvent, HandleEvent, RunAction, ListenerEnds
    <3>. [src[s] EXCEPT !.at = next] \in Source
      BY <2>1
    <3>. WITNESS [src[s] EXCEPT !.at = next] \in Source
    <3>. QED  BY <3>1, <2>1, <2>2
  <2>4. CASE Activation(s)
    <3>1. ListenerStep(s, [src[s] EXCEPT !.waiting = TRUE])
      BY <2>4 DEF Activation
    <3>. [src[s] EXCEPT !.waiting = TRUE] \in Source
      BY <2>1
    <3>. WITNESS [src[s] EXCEPT !.waiting = TRUE] \in Source
    <3>. QED  BY <3>1, <2>1, <2>2
  <2>5. CASE ReadActivation(s)
    <3>1. ListenerStep(s, [src[s] EXCEPT !.at = "handle", !.waiting = FALSE])
      BY <2>5 DEF ReadActivation
    <3>. [src[s] EXCEPT !.at = "handle", !.waiting = FALSE] \in Source
      BY <2>1
    <3>. WITNESS [src[s] EXCEPT !.at = "handle", !.waiting = FALSE] \in Source
    <3>. QED  BY <3>1, <2>1, <2>2
  <2>. QED  BY <2>3, <2>4, <2>5 DEF Listener
<1>3. /\ Things' /\ UNCHANGED <<managerVars, providerVars, nSrc, env>>
  BY <1>2, RosterParts, ListenerThings DEF ListenerStep
<1>4. CASE UNCHANGED callerVars
  <2>1. /\ TypeOK'
    BY <1>3, <1>4 DEF RosterInv, TypeOK, Things, callerVars, managerVars, providerVars
  <2>2. Reserved'
    BY <1>3, <1>4 DEF RosterInv, Reserved, Busy, Count, StartNeed, callerVars, providerVars
  <2>3. Owned'
    BY <1>3, <1>4 DEF RosterInv, Owned, Things, callerVars, providerVars
  <2>. QED  BY <2>1, <2>2, <2>3 DEF RosterInv
<1>5. CASE ResetToDefaults /\ ~UNCHANGED callerVars
  <2>1. PICK c \in Actors : pc[c] = "new" /\ Begin(c, "reload")
    BY <1>5 DEF ResetToDefaults
  <2>2. /\ calls' = calls + 1 /\ calls' \in 0..MaxCalls /\ arg' = arg
        /\ c \in Callers /\ c # "app" /\ Goto(c, "reload") /\ overlapped' \in BOOLEAN
    BY <1>5, <2>1, HotkeysAssumption, RosterParts DEF ResetToDefaults, Begin, Callers
  <2>3. /\ nProv \in Nat /\ nSrc \in Nat /\ calls \in Nat /\ Credit(c) = 0
        /\ ProviderCost(pc[c]) = 0 /\ SourceCost(pc[c]) = 0
        /\ ProviderCost("reload") = 2 /\ SourceCost("reload") = 1
    BY <2>1, <2>2, RosterParts, CostOf DEF Credit
  <2>4. Affords(c, "reload")
    BY <1>3, <2>2, <2>3 DEF Affords, providerVars
  <2>5. Manages
    BY <1>3, <2>2, RosterParts DEF Manages, managerVars, providerVars
  <2>6. Arrives(c, "reload", arg[c])
    BY <2>2 DEF Arrives, Places, RosterInv, TypeOK
  <2>. QED  BY <1>3, <2>2, <2>4, <2>5, <2>6, Onward
<1>6. UNCHANGED callerVars \/ ResetToDefaults
  BY DEF KeyEvent, Activation, Listener, ReadActivation, HandleEvent, RunAction, ListenerEnds
<1>. QED  BY <1>4, <1>5, <1>6

LEMMA InitRoster == Init => RosterInv
<1>. SUFFICES ASSUME Init PROVE RosterInv
  OBVIOUS
<1>1. /\ "app" \in Callers /\ 1 \in Providers /\ MaxCalls \in Nat
      /\ \A c \in Callers : pc[c] \in {"new", "idle"}
  <2>1. "app" \in Callers /\ 1 \in Providers /\ MaxCalls \in Nat
    BY HotkeysAssumption DEF Callers, Providers
  <2>2. \A c \in Callers : pc[c] \in {"new", "idle"}
    BY DEF Init
  <2>. QED  BY <2>1, <2>2
<1>2. Things /\ \A p \in Providers : prov[p].cur = None
  <2>1. /\ nProv = 1 /\ nSrc = None /\ \A p \in Providers : prov[p] \in Provider /\ prov[p].cur = None
        /\ prov = [p \in Providers |-> prov[p]]
    <3>1. \A p \in Providers : (IF p = 1 THEN SelectProvider(mode) ELSE "dummy") \in Kinds
      BY NewProviders DEF Init, Kinds
    <3>. QED  BY <3>1, NewProviders DEF Init
  <2>2. src = [s \in Sources |-> [owner |-> 1, open |-> FALSE, waiting |-> FALSE, at |-> "none"]]
    BY DEF Init
  <2>3. src \in [Sources -> Source] /\ \A s \in Sources : src[s].open = FALSE /\ src[s].owner = 1 /\ s # None
    BY <1>1, <2>2, Numbers DEF Source
  <2>. QED  BY <1>1, <2>1, <2>3 DEF Things
<1>3. Busy = {}
  BY <1>1 DEF Busy
<1>4. Reserved
  <2>1. \A there : there \cap {"new", "idle"} = {} => Count(there) = 0
    <3>. SUFFICES ASSUME NEW there, there \cap {"new", "idle"} = {} PROVE Count(there) = 0
      OBVIOUS
    <3>1. {c \in Callers : pc[c] \in there} = {}
      BY <1>1
    <3>. QED  BY <3>1, FS_EmptySet DEF Count
  <2>2. Count(TwoProviders) = 0 /\ Count(OneProvider) = 0 /\ Count(TwoSources) = 0 /\ Count(OneSource) = 0
    BY <2>1 DEF TwoProviders, OneProvider, TwoSources, OneSource
  <2>3. nProv = 1 /\ nSrc = 0 /\ calls = 0 /\ StartNeed \in {0, 1}
    BY Numbers DEF Init, StartNeed
  <2>. QED  BY <1>3, <2>2, <2>3, FS_EmptySet DEF Reserved
<1>5. Owned
  <2>1. \A c \in Callers : pc[c] \notin {"start", "startFallback", "capture"}
    BY <1>1
  <2>. QED  BY <1>2, <2>1 DEF Owned
<1>6. TypeOK
  <2>1. pc \in [Callers -> Places] /\ arg \in [Callers -> Providers \cup Sources \cup {None}]
    <3>1. \A c \in Callers : (IF c \in Menus THEN "idle" ELSE "new") \in Places
      BY DEF Places
    <3>. QED  BY <3>1 DEF Init
  <2>2. provider \in 1..nProv /\ calls \in 0..MaxCalls
    BY <1>1 DEF Init
  <2>. QED  BY <1>2, <2>1, <2>2 DEF Init, Things, TypeOK
<1>. QED  BY <1>4, <1>5, <1>6 DEF RosterInv

LEMMA RosterHolds == Spec => []RosterInv
<1>1. RosterInv /\ [Next]_vars => RosterInv'
  <2>1. ASSUME RosterInv, UNCHANGED vars
        PROVE  RosterInv'
    BY <2>1 DEF vars, managerVars, providerVars, sourceVars, callerVars, RosterInv, TypeOK, Reserved,
                Owned, Busy, Count, StartNeed
  <2>. QED  BY <2>1, ListenersKeep, ReloadKeeps, CaptureKeeps, ProceedKeeps, AppKeeps DEF Next
<1>. QED  BY <1>1, InitRoster, PTL DEF Spec

\* However calls overlap, every provider and source is accounted for: a call
\* makes two providers and opens two sources at most, and a source is open
\* exactly as long as the provider that opened it listens to it, so that the
\* Stop of that provider closes it (ReloadConfig, startFallbackAfterRegistration).
THEOREM SourcesAreOwned == Spec => []TypeOK
<1>1. RosterInv => TypeOK
  BY DEF RosterInv
<1>. QED  BY <1>1, RosterHolds, PTL
=============================================================================
