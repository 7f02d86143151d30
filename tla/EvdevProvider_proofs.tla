------------------------- MODULE EvdevProvider_proofs -------------------------
(***************************************************************************)
(* Proofs about EvdevProvider: a push-to-talk recording ends with its hold *)
(* (HoldEnds), a capture names what was held (CaptureIsChord), and the     *)
(* hotkey fires with the modifiers it was chosen with (ChordFires).        *)
(***************************************************************************)
EXTENDS EvdevProvider, SequenceTheorems, TLAPS

(***************************************************************************)
(* The inductive invariant                                                 *)
(***************************************************************************)

CaptureSession == [open : BOOLEAN, queue : Seq(Event), mods : SUBSET Modifiers]

\* Who reads, and what is there to read.
Types ==
  /\ modDown \subseteq Modifiers /\ keyDown \subseteq Keys
  /\ repeating \in Keys \cup Modifiers \cup {"none"}
  /\ starts \in {None} \cup Handles /\ current \in {None, starts}
  /\ mods \subseteq Modifiers
  /\ handle \in [Handles -> Handle]
  /\ session \in CaptureSession
  /\ ptt \in BOOLEAN /\ blurred \in BOOLEAN

\* Only the listener of the open handle has an event in hand, while there is
\* one; nobody listens during a capture, or to a handle that is not yet opened.
ReaderInv ==
  /\ \A h \in Handles : handle[h].at = "handle" => handle[h].event \in Event
  /\ current # None => \A h \in Handles : handle[h].at = "handle" => h = current
  /\ session.open => current = None
  /\ \A h \in Handles : h > starts => handle[h].at = "unused"

(***************************************************************************)
(* What a reader knows of the modifiers                                    *)
(***************************************************************************)

\* From what is known the events of a queue lead to what is down: by steps
\* that end with the events, each of which tells what it was pressed with.
Steps(known, queue, down, step) ==
  /\ step[0] = known /\ step[Len(queue)] = down
  /\ \A i \in 1..Len(queue) :
       IF queue[i].key \in Modifiers THEN step[i] = Track(step[i - 1], queue[i])
       ELSE step[i] = step[i - 1] /\ (queue[i].value = 1 => queue[i].with = step[i - 1])

Leads(known, queue, down) ==
  \E step \in [0..Len(queue) -> SUBSET Modifiers] : Steps(known, queue, down, step)

\* Of an event in hand a reader makes this.
Knows(known, e) == IF e.key \in Modifiers THEN Track(known, e) ELSE known

ListenerKnows(h) ==
  IF h.at = "handle"
  THEN /\ Leads(Knows(mods, h.event), h.queue, modDown)
       /\ h.event.key \notin Modifiers /\ h.event.value = 1 => h.event.with = mods
  ELSE Leads(mods, h.queue, modDown)

KnownInv ==
  /\ current # None /\ ~blurred => ListenerKnows(handle[current])
  /\ session.open /\ ~blurred => Leads(session.mods, session.queue, modDown)

(***************************************************************************)
(* Hotkeys and the modifiers they were chosen with                         *)
(***************************************************************************)

Chosen(parts, keys) == keys \subseteq Modifiers /\ ChordOf(parts, keys) /\ ValidateHotkey(parts)

HotkeyInv ==
  /\ Chosen(hotkey, chord)
  /\ captured # NoHotkey => Chosen(captured.hotkey, captured.chord)
  /\ CaptureIsChord

(***************************************************************************)
(* Push-to-talk                                                            *)
(***************************************************************************)

\* The last event of a key tells whether it is down.
Speaks(e, k) == e.key = k /\ e.value # 2

Silent(queue, k) == \A i \in 1..Len(queue) : ~Speaks(queue[i], k)

LastTells(queue, k, down) ==
  \A i \in 1..Len(queue) :
    Speaks(queue[i], k) /\ (\A j \in (i + 1)..Len(queue) : ~Speaks(queue[j], k))
      => (queue[i].value = 1 <=> k \in down)

TellsOf(h) ==
  \A k \in Keys :
    /\ LastTells(h.queue, k, keyDown)
    /\ h.at = "handle" /\ Speaks(h.event, k) /\ Silent(h.queue, k) =>
         (h.event.value = 1 <=> k \in keyDown)

TellInv == current # None => TellsOf(handle[current])

\* A listener is to run the callback of the recording.
Calls(h) == h.at = "call" /\ "rec" \in h.fire

\* A hold that is noted goes on: either its key is down, or its release is still
\* to be read; or the callback of its release is to be run.
Lasts(h) ==
  LET key == ParseHotkey(hotkey).key
  IN /\ hotkey # ActHotkey
     /\ \/ /\ hotkey \in held
           /\ Silent(h.queue, key) /\ ~(h.at = "handle" /\ Speaks(h.event, key)) => key \in keyDown
        \/ Calls(h) /\ h.event.value = 0

\* A hold lasts that has started a recording, or is about to.
HoldOf(h) ==
  /\ Calls(h) => /\ hotkey # ActHotkey
                 /\ h.event.key = ParseHotkey(hotkey).key /\ h.event.value \in {0, 1}
  /\ startedBy = current \/ (Calls(h) /\ h.event.value = 1) => Lasts(h)

HoldInv ==
  /\ startedBy \in 0..starts /\ (startedBy # None => ptt)
  /\ current # None => HoldOf(handle[current])

EvInv == Types /\ ReaderInv /\ KnownInv /\ HotkeyInv /\ TellInv /\ HoldInv

(***************************************************************************)
(* Names                                                                   *)
(***************************************************************************)

\* A name alone, if it is among some.
LEMMA OneName ==
  ASSUME NEW names, NEW mod
  PROVE  LET s == IF mod \in names THEN <<mod>> ELSE <<>>
         IN s \in Seq({mod}) /\ Range(s) = {mod} \cap names
<1>1. CASE mod \in names
  <2>1. DOMAIN <<mod>> = {1} /\ <<mod>>[1] = mod /\ <<mod>> \in Seq({mod})
    OBVIOUS
  <2>2. Range(<<mod>>) = {mod}
    BY <2>1 DEF Range
  <2>. QED
    BY <1>1, <2>1, <2>2
<1>2. CASE mod \notin names
  <2>1. Range(<<>>) = {} /\ <<>> \in Seq({mod})
    BY DEF Range
  <2>. QED
    BY <1>2, <2>1
<1>. QED
  BY <1>1, <1>2

\* Sequences one after another.
LEMMA OneAfterAnother ==
  ASSUME NEW S, NEW s \in Seq(S), NEW t \in Seq(S)
  PROVE  s \o t \in Seq(S) /\ Range(s \o t) = Range(s) \cup Range(t)
BY ConcatProperties, RangeConcatenation

\* And five of them.
LEMMA FiveInARow ==
  ASSUME NEW S, NEW s \in Seq(S), NEW t \in Seq(S), NEW u \in Seq(S), NEW v \in Seq(S),
         NEW w \in Seq(S)
  PROVE  /\ s \o t \o u \o v \o w \in Seq(S)
         /\ Range(s \o t \o u \o v \o w) =
              Range(s) \cup Range(t) \cup Range(u) \cup Range(v) \cup Range(w)
<1>0. \A x \in Seq(S), y \in Seq(S) :
        x \o y \in Seq(S) /\ Range(x \o y) = Range(x) \cup Range(y)
  BY OneAfterAnother
<1>1. s \o t \in Seq(S) /\ Range(s \o t) = Range(s) \cup Range(t)
  BY <1>0
<1>2. s \o t \o u \in Seq(S) /\ Range(s \o t \o u) = Range(s \o t) \cup Range(u)
  BY <1>0, <1>1, Zenon
<1>3. s \o t \o u \o v \in Seq(S) /\ Range(s \o t \o u \o v) = Range(s \o t \o u) \cup Range(v)
  BY <1>0, <1>2, Zenon
<1>4. /\ s \o t \o u \o v \o w \in Seq(S)
      /\ Range(s \o t \o u \o v \o w) = Range(s \o t \o u \o v) \cup Range(w)
  BY <1>0, <1>3, Zenon
<1>. QED
  BY <1>1, <1>2, <1>3, <1>4, Zenon

\* InOrder lists the names of modifiers, each of them, and no others.
LEMMA InOrderLists ==
  ASSUME NEW names
  PROVE  InOrder(names) \in Seq(Named) /\ Range(InOrder(names)) = Named \cap names
<1>. DEFINE L(mod) == IF mod \in names THEN <<mod>> ELSE <<>>
            c == L("ctrl")
            s == L("shift")
            a == L("alt")
            g == L("altgr")
            u == L("super")
<1>1. ASSUME NEW mod \in Named
      PROVE  L(mod) \in Seq(Named) /\ Range(L(mod)) = {mod} \cap names
  <2>1. L(mod) \in Seq({mod}) /\ Range(L(mod)) = {mod} \cap names
    BY OneName
  <2>. QED
    BY <2>1, SeqMonotonic
<1>2. /\ c \in Seq(Named) /\ Range(c) = {"ctrl"} \cap names
      /\ s \in Seq(Named) /\ Range(s) = {"shift"} \cap names
      /\ a \in Seq(Named) /\ Range(a) = {"alt"} \cap names
      /\ g \in Seq(Named) /\ Range(g) = {"altgr"} \cap names
      /\ u \in Seq(Named) /\ Range(u) = {"super"} \cap names
  <2>. HIDE DEF L
  <2>. QED
    BY <1>1 DEF Named
<1>3. InOrder(names) = c \o s \o a \o g \o u
  BY DEF InOrder
<1>. HIDE DEF c, s, a, g, u
<1>4. /\ c \o s \o a \o g \o u \in Seq(Named)
      /\ Range(c \o s \o a \o g \o u) =
           Range(c) \cup Range(s) \cup Range(a) \cup Range(g) \cup Range(u)
  <2>1. /\ c \in Seq(Named) /\ s \in Seq(Named) /\ a \in Seq(Named)
        /\ g \in Seq(Named) /\ u \in Seq(Named)
    BY <1>2
  <2>. QED
    BY <2>1, FiveInARow
<1>5. /\ InOrder(names) \in Seq(Named)
      /\ Range(InOrder(names)) = Range(c) \cup Range(s) \cup Range(a) \cup Range(g) \cup Range(u)
  BY <1>3, <1>4, Zenon
<1>. QED
  BY <1>2, <1>5 DEF Named

\* The parts of a hotkey made of names and a key.
LEMMA PartsOfHotkey ==
  ASSUME NEW S, NEW names \in Seq(S), NEW key
  PROVE  /\ Front(Append(names, key)) = names /\ Last(Append(names, key)) = key
         /\ ParseHotkey(Append(names, key)) = [modifiers |-> Range(names), key |-> key]
<1>. DEFINE T == S \cup {key}
            hk == Append(names, key)
<1>1. names \in Seq(T) /\ key \in T
  BY SeqMonotonic
<1>2. /\ Len(hk) = Len(names) + 1 /\ hk[Len(names) + 1] = key /\ Len(names) \in Nat
      /\ \A i \in 1..Len(names) : hk[i] = names[i]
  BY <1>1, AppendProperties, LenProperties
<1>3. Last(hk) = key
  BY <1>2 DEF Last
<1>4. Front(hk) = names
  <2>1. Front(hk) = SubSeq(hk, 1, Len(names))
    BY <1>2 DEF Front
  <2>2. \A i \in 1..Len(names) : hk[i] \in S /\ hk[i] = names[i]
    BY <1>2, ElementOfSeq
  <2>3. /\ SubSeq(hk, 1, Len(names)) \in Seq(S)
        /\ Len(SubSeq(hk, 1, Len(names))) = IF 1 <= Len(names) THEN Len(names) - 1 + 1 ELSE 0
        /\ \A i \in 1..(Len(names) - 1 + 1) : SubSeq(hk, 1, Len(names))[i] = hk[1 + i - 1]
    <3>1. Len(names) \in Int /\ 1 \in Int /\ \A i \in 1..Len(names) : hk[i] \in S
      BY <1>2, <2>2
    <3>. HIDE DEF hk
    <3>. QED
      BY <3>1, SubSeqProperties
  <2>. HIDE DEF hk
  <2>4. /\ Len(SubSeq(hk, 1, Len(names))) = Len(names)
        /\ \A i \in 1..Len(names) : SubSeq(hk, 1, Len(names))[i] = names[i]
    BY <1>2, <2>2, <2>3
  <2>. QED
    BY <2>1, <2>3, <2>4, SeqEqual
<1>. QED
  BY <1>3, <1>4 DEF ParseHotkey

\* A normalized hotkey keeps its key.
LEMMA NormalKeepsKey ==
  ASSUME NEW parts
  PROVE  ParseHotkey(NormalizeHotkey(parts)).key = Last(parts)
BY InOrderLists, PartsOfHotkey DEF NormalizeHotkey

\* The key of a valid hotkey is no modifier of the keyboard.
LEMMA KeyIsNoModifier ==
  ASSUME NEW parts, ValidateHotkey(parts)
  PROVE  ParseHotkey(parts).key \notin Modifiers
BY NormalKeepsKey, ProviderAssumption DEF ValidateHotkey, ParseHotkey, IsModifier

\* A name that a normalized hotkey uses stands for itself.
LEMMA NamedAreCanonical ==
  ASSUME NEW names \in SUBSET Named
  PROVE  {Canonical(mod) : mod \in names} = names
<1>1. \A mod \in names : Canonical(mod) = mod
  BY DEF Named, Canonical
<1>. QED
  BY <1>1

\* A hotkey that is built of such names has them and its key, and is normalized.
LEMMA BuiltOfNames ==
  ASSUME NEW names \in SUBSET Named, NEW key
  PROVE  LET parts == BuildHotkeyString(InOrder(names), key)
         IN /\ ParseHotkey(parts) = [modifiers |-> names, key |-> key]
            /\ parts = NormalizeHotkey(parts)
<1>. DEFINE parts == Append(InOrder(names), key)
<1>1. InOrder(names) \in Seq(Named) /\ Range(InOrder(names)) = names
  BY InOrderLists
<1>2. Front(parts) = InOrder(names) /\ Last(parts) = key
      /\ ParseHotkey(parts) = [modifiers |-> names, key |-> key]
  BY <1>1, PartsOfHotkey
<1>3. NormalizeHotkey(parts) = parts
  BY <1>1, <1>2, NamedAreCanonical DEF NormalizeHotkey
<1>. QED
  BY <1>2, <1>3 DEF BuildHotkeyString

\* The keys of each name.
LEMMA NamedKeys ==
  /\ KeysOf("ctrl") = {"leftctrl", "rightctrl"} /\ KeysOf("alt") = {"leftalt", "rightalt"}
  /\ KeysOf("shift") = {"leftshift", "rightshift"} /\ KeysOf("super") = {"leftmeta", "rightmeta"}
  /\ KeysOf("altgr") = {"rightalt"}
BY DEF KeysOf

\* The hotkey that a capture makes of the modifiers that are held and a key.
LEMMA CaptureNames ==
  ASSUME NEW down \in SUBSET Modifiers, NEW key \in Keys
  PROVE  LET combo == BuildHotkeyString(BuildModifierState(down), key)
             named == UNION {KeysOf(mod) : mod \in ParseHotkey(combo).modifiers}
         IN /\ ChordOf(combo, down)
            /\ \A pair \in Pairs : pair \cap named # {} <=> pair \cap down # {}
            /\ combo = NormalizeHotkey(combo)
<1>. DEFINE pressed == {mod \in Named : IsModifierPressed(mod, down)}
            combo == BuildHotkeyString(BuildModifierState(down), key)
            named == UNION {KeysOf(mod) : mod \in ParseHotkey(combo).modifiers}
<1>1. ParseHotkey(combo).modifiers = pressed /\ combo = NormalizeHotkey(combo)
  BY BuiltOfNames DEF BuildModifierState
<1>2. \A mod \in pressed : KeysOf(mod) \cap down # {}
  BY DEF IsModifierPressed
<1>3. \A pair \in Pairs : pair \cap down # {} => \E mod \in pressed : KeysOf(mod) = pair
  BY DEF Pairs, Named, IsModifierPressed
<1>4. \A pair \in Pairs, mod \in Named : pair \cap KeysOf(mod) # {} => KeysOf(mod) \subseteq pair
  BY NamedKeys DEF Pairs, Named
<1>5. ChordOf(combo, down)
  BY <1>1, <1>2, <1>3 DEF ChordOf
<1>6. ASSUME NEW pair \in Pairs
      PROVE  pair \cap named # {} <=> pair \cap down # {}
  <2>1. ASSUME pair \cap named # {} PROVE pair \cap down # {}
    <3>1. PICK mod \in pressed : pair \cap KeysOf(mod) # {}
      BY <1>1, <2>1
    <3>. QED
      BY <1>2, <1>4, <3>1
  <2>2. ASSUME pair \cap down # {} PROVE pair \cap named # {}
    <3>1. PICK mod \in pressed : KeysOf(mod) = pair
      BY <1>3, <2>2
    <3>2. pair \subseteq named
      BY <1>1, <3>1
    <3>. QED
      BY <2>2, <3>2
  <2>. QED
    BY <2>1, <2>2
<1>. QED
  BY <1>1, <1>5, <1>6

(***************************************************************************)
(* Queues of events                                                        *)
(***************************************************************************)

\* What an event tells of the modifiers is a set of modifiers.
LEMMA TrackTypes ==
  ASSUME NEW known \in SUBSET Modifiers, NEW e
  PROVE  /\ e.key \in Modifiers => Track(known, e) \in SUBSET Modifiers
         /\ Knows(known, e) \in SUBSET Modifiers
BY DEF Track, Knows

\* With nothing left to read, what is known is what is down.
LEMMA NothingLeads ==
  ASSUME NEW known \in SUBSET Modifiers, NEW down
  PROVE  Leads(known, <<>>, down) <=> known = down
<1>1. Len(<<>>) = 0 /\ 0..0 = {0} /\ 1..0 = {}
  OBVIOUS
<1>2. ASSUME known = down PROVE Leads(known, <<>>, down)
  <2>. DEFINE step == [i \in 0..0 |-> known]
  <2>1. step \in [0..0 -> SUBSET Modifiers] /\ step[0] = known
    OBVIOUS
  <2>2. Steps(known, <<>>, down, step)
    BY <1>1, <1>2, <2>1 DEF Steps
  <2>. QED
    BY <1>1, <2>1, <2>2 DEF Leads
<1>. QED
  BY <1>1, <1>2 DEF Leads, Steps

\* A further event leads on: that of a modifier to what it makes of what was
\* down; a press of another key tells what is down.
LEMMA AppendLeads ==
  ASSUME NEW known, NEW queue \in Seq(Event), NEW down \in SUBSET Modifiers, NEW e \in Event,
         Leads(known, queue, down),
         e.key \notin Modifiers /\ e.value = 1 => e.with = down
  PROVE  Leads(known, Append(queue, e), Knows(down, e))
<1>. DEFINE n == Len(queue)
            more == Append(queue, e)
            after == Knows(down, e)
<1>1. PICK step \in [0..n -> SUBSET Modifiers] : Steps(known, queue, down, step)
  BY DEF Leads
<1>2. /\ n \in Nat /\ Len(more) = n + 1 /\ more[n + 1] = e
      /\ \A i \in 1..n : more[i] = queue[i]
  BY AppendProperties, LenProperties
<1>. DEFINE on == [i \in 0..(n + 1) |-> IF i = n + 1 THEN after ELSE step[i]]
<1>3. on \in [0..(n + 1) -> SUBSET Modifiers]
  BY <1>2, TrackTypes
<1>4. on[n + 1] = after /\ \A i \in 0..n : on[i] = step[i]
  BY <1>2
<1>. HIDE DEF n, more, on
<1>5. on[0] = known /\ on[n] = down
  BY <1>1, <1>2, <1>4 DEF Steps, n
<1>6. ASSUME NEW i \in 1..(n + 1)
      PROVE  IF more[i].key \in Modifiers THEN on[i] = Track(on[i - 1], more[i])
             ELSE on[i] = on[i - 1] /\ (more[i].value = 1 => more[i].with = on[i - 1])
  <2>1. CASE i = n + 1
    <3>1. more[i] = e /\ on[i] = after /\ on[i - 1] = down
      BY <1>2, <1>4, <1>5, <2>1
    <3>. QED
      BY <3>1 DEF Knows
  <2>2. CASE i \in 1..n
    <3>1. more[i] = queue[i] /\ on[i] = step[i] /\ on[i - 1] = step[i - 1]
      BY <1>2, <1>4, <2>2
    <3>. QED
      BY <1>1, <2>2, <3>1 DEF Steps, n
  <2>. QED
    BY <1>2, <2>1, <2>2
<1>7. Steps(known, more, after, on)
  BY <1>2, <1>4, <1>5, <1>6 DEF Steps
<1>. QED
  BY <1>2, <1>3, <1>7 DEF Leads, more

\* The first event leads on, and tells what is known if it is a press of another key.
LEMMA HeadLeads ==
  ASSUME NEW known \in SUBSET Modifiers, NEW queue \in Seq(Event), queue # <<>>, NEW down,
         Leads(known, queue, down)
  PROVE  /\ Leads(Knows(known, Head(queue)), Tail(queue), down)
         /\ Head(queue).key \notin Modifiers /\ Head(queue).value = 1 => Head(queue).with = known
<1>. DEFINE n == Len(queue)
            e == Head(queue)
            rest == Tail(queue)
<1>1. PICK step \in [0..n -> SUBSET Modifiers] : Steps(known, queue, down, step)
  BY DEF Leads
<1>2. /\ n \in Nat \ {0} /\ Len(rest) = n - 1 /\ e = queue[1]
      /\ \A i \in 1..(n - 1) : rest[i] = queue[i + 1]
  BY HeadTailProperties, EmptySeq, LenProperties
<1>. DEFINE on == [i \in 0..(n - 1) |-> step[i + 1]]
<1>3. on \in [0..(n - 1) -> SUBSET Modifiers] /\ \A i \in 0..(n - 1) : on[i] = step[i + 1]
  BY <1>2
<1>. HIDE DEF n, rest, on, e
<1>4. step[0] = known /\ step[n] = down
  BY <1>1 DEF Steps, n
<1>5. /\ on[0] = Knows(known, e)
      /\ e.key \notin Modifiers /\ e.value = 1 => e.with = known
  <2>1. 1 \in 1..n /\ on[0] = step[1]
    BY <1>2, <1>3
  <2>2. IF queue[1].key \in Modifiers THEN step[1] = Track(step[1 - 1], queue[1])
        ELSE step[1] = step[1 - 1] /\ (queue[1].value = 1 => queue[1].with = step[1 - 1])
    BY <1>1, <2>1 DEF Steps, n
  <2>. QED
    BY <1>2, <1>4, <2>1, <2>2 DEF Knows
<1>6. on[n - 1] = down
  BY <1>2, <1>3, <1>4
<1>7. ASSUME NEW i \in 1..(n - 1)
      PROVE  IF rest[i].key \in Modifiers THEN on[i] = Track(on[i - 1], rest[i])
             ELSE on[i] = on[i - 1] /\ (rest[i].value = 1 => rest[i].with = on[i - 1])
  <2>1. rest[i] = queue[i + 1] /\ on[i] = step[i + 1] /\ on[i - 1] = step[i] /\ i + 1 \in 1..n
    BY <1>2, <1>3
  <2>2. IF queue[i + 1].key \in Modifiers THEN step[i + 1] = Track(step[i + 1 - 1], queue[i + 1])
        ELSE /\ step[i + 1] = step[i + 1 - 1]
             /\ queue[i + 1].value = 1 => queue[i + 1].with = step[i + 1 - 1]
    BY <1>1, <2>1 DEF Steps, n
  <2>3. i + 1 - 1 = i
    BY <1>2
  <2>. QED
    BY <2>1, <2>2, <2>3
<1>8. Steps(Knows(known, e), rest, down, on)
  BY <1>2, <1>5, <1>6, <1>7 DEF Steps
<1>9. Leads(Knows(known, e), rest, down)
  BY <1>2, <1>3, <1>8 DEF Leads
<1>. QED
  BY <1>5, <1>9 DEF e, rest

\* A queue says nothing of a key if no event of it does.
LEMMA AppendSilent ==
  ASSUME NEW queue \in Seq(Event), NEW e \in Event, NEW k
  PROVE  Silent(Append(queue, e), k) <=> Silent(queue, k) /\ ~Speaks(e, k)
<1>. DEFINE n == Len(queue)
            more == Append(queue, e)
<1>1. /\ n \in Nat /\ Len(more) = n + 1 /\ more[n + 1] = e
      /\ \A i \in 1..n : more[i] = queue[i]
  BY AppendProperties, LenProperties
<1>. HIDE DEF n, more
<1>2. Silent(more, k) <=> Silent(queue, k) /\ ~Speaks(e, k)
  BY <1>1 DEF Silent, n
<1>. QED
  BY <1>2 DEF more

\* The same of the first event and the others.
LEMMA TailSilent ==
  ASSUME NEW queue \in Seq(Event), queue # <<>>, NEW k
  PROVE  Silent(queue, k) <=> Silent(Tail(queue), k) /\ ~Speaks(Head(queue), k)
<1>. DEFINE n == Len(queue)
            e == Head(queue)
            rest == Tail(queue)
<1>1. /\ n \in Nat \ {0} /\ Len(rest) = n - 1 /\ e = queue[1]
      /\ \A i \in 1..(n - 1) : rest[i] = queue[i + 1]
  BY HeadTailProperties, EmptySeq, LenProperties
<1>. HIDE DEF n, rest, e
<1>2. \A i \in 2..n : i - 1 \in 1..(n - 1) /\ rest[i - 1] = queue[i]
  BY <1>1
<1>3. ASSUME Silent(queue, k) PROVE Silent(rest, k) /\ ~Speaks(e, k)
  BY <1>1, <1>3 DEF Silent, n
<1>4. ASSUME Silent(rest, k), ~Speaks(e, k), NEW i \in 1..n PROVE ~Speaks(queue[i], k)
  <2>1. CASE i = 1
    BY <1>1, <1>4, <2>1
  <2>2. CASE i \in 2..n
    BY <1>1, <1>2, <1>4, <2>2 DEF Silent
  <2>. QED
    BY <1>1, <2>1, <2>2
<1>5. Silent(rest, k) /\ ~Speaks(e, k) => Silent(queue, k)
  BY <1>4 DEF Silent, n
<1>. QED
  BY <1>3, <1>5 DEF e, rest

\* An event at the end of a queue is the last one of its key.
LEMMA AppendTells ==
  ASSUME NEW queue \in Seq(Event), NEW e \in Event, NEW k, NEW down, NEW downNow,
         LastTells(queue, k, down),
         IF Speaks(e, k) THEN e.value = 1 <=> k \in downNow ELSE k \in down <=> k \in downNow
  PROVE  LastTells(Append(queue, e), k, downNow)
<1>. DEFINE n == Len(queue)
            more == Append(queue, e)
<1>1. /\ n \in Nat /\ Len(more) = n + 1 /\ more[n + 1] = e
      /\ \A i \in 1..n : more[i] = queue[i]
  BY AppendProperties, LenProperties
<1>. HIDE DEF n, more
<1>3. ASSUME NEW i \in 1..(n + 1), Speaks(more[i], k),
             \A j \in (i + 1)..(n + 1) : ~Speaks(more[j], k)
      PROVE  more[i].value = 1 <=> k \in downNow
  <2>1. CASE i = n + 1
    BY <1>1, <1>3, <2>1
  <2>2. CASE i \in 1..n
    <3>1. n + 1 \in (i + 1)..(n + 1)
      BY <1>1, <2>2
    <3>2. ~Speaks(e, k)
      BY <1>1, <1>3, <3>1
    <3>3. Speaks(queue[i], k) /\ \A j \in (i + 1)..n : ~Speaks(queue[j], k)
      BY <1>1, <1>3, <2>2
    <3>4. queue[i].value = 1 <=> k \in down
      BY <2>2, <3>3 DEF LastTells, n
    <3>. QED
      BY <1>1, <2>2, <3>2, <3>4
  <2>. QED
    BY <1>1, <2>1, <2>2
<1>4. LastTells(more, k, downNow)
  BY <1>1, <1>3 DEF LastTells
<1>. QED
  BY <1>4 DEF more

\* The events after the first one tell the same, and if they say nothing of a
\* key, then the first is the last one of it.
LEMMA TailTells ==
  ASSUME NEW queue \in Seq(Event), queue # <<>>, NEW k, NEW down, LastTells(queue, k, down)
  PROVE  /\ LastTells(Tail(queue), k, down)
         /\ Speaks(Head(queue), k) /\ Silent(Tail(queue), k) =>
              (Head(queue).value = 1 <=> k \in down)
<1>. DEFINE n == Len(queue)
            e == Head(queue)
            rest == Tail(queue)
<1>1. /\ n \in Nat \ {0} /\ Len(rest) = n - 1 /\ e = queue[1]
      /\ \A i \in 1..(n - 1) : rest[i] = queue[i + 1]
  BY HeadTailProperties, EmptySeq, LenProperties
<1>. HIDE DEF n, rest, e
<1>2. \A i \in 2..n : i - 1 \in 1..(n - 1) /\ rest[i - 1] = queue[i]
  BY <1>1
<1>4. ASSUME NEW i \in 1..(n - 1), Speaks(rest[i], k),
             \A j \in (i + 1)..(n - 1) : ~Speaks(rest[j], k)
      PROVE  rest[i].value = 1 <=> k \in down
  <2>1. i + 1 \in 1..n /\ rest[i] = queue[i + 1]
    BY <1>1
  <2>2. ASSUME NEW j \in (i + 1 + 1)..n PROVE ~Speaks(queue[j], k)
    <3>1. j \in 2..n /\ j - 1 \in (i + 1)..(n - 1)
      BY <1>1
    <3>. QED
      BY <1>2, <1>4, <3>1
  <2>. QED
    BY <1>4, <2>1, <2>2 DEF LastTells, n
<1>5. LastTells(rest, k, down)
  BY <1>1, <1>4 DEF LastTells
<1>6. ASSUME Speaks(e, k), Silent(rest, k) PROVE e.value = 1 <=> k \in down
  <2>1. 1 \in 1..n /\ \A j \in (1 + 1)..n : ~Speaks(queue[j], k)
    BY <1>1, <1>2, <1>6 DEF Silent
  <2>. QED
    BY <1>1, <1>6, <2>1 DEF LastTells, n
<1>. QED
  BY <1>5, <1>6 DEF e, rest

\* An empty queue says nothing.
LEMMA NothingTells ==
  ASSUME NEW k, NEW down
  PROVE  LastTells(<<>>, k, down) /\ Silent(<<>>, k)
<1>1. Len(<<>>) = 0 /\ 1..0 = {}
  OBVIOUS
<1>. QED
  BY <1>1 DEF LastTells, Silent

(***************************************************************************)
(* The keyboard                                                            *)
(***************************************************************************)

Made(key, value, with) == [key |-> key, value |-> value, with |-> with]

\* What an event makes of the modifiers and the keys that are down.
Tells(e) ==
  /\ modDown' \subseteq Modifiers /\ keyDown' \subseteq Keys
  /\ repeating' \in Keys \cup Modifiers \cup {"none"}
  /\ ~blurred' => ~blurred /\ modDown' = Knows(modDown, e)
  /\ e.key \notin Modifiers /\ e.value = 1 => e.with = modDown
  /\ \A k : k \notin Modifiers =>
       IF Speaks(e, k) THEN e.value = 1 <=> k \in keyDown' ELSE k \in keyDown <=> k \in keyDown'

\* Every step of the keyboard feeds an event to who reads, which tells this.
LEMMA KeyboardFeeds ==
  ASSUME Types, Keyboard
  PROVE  \E e \in Event : Tells(e) /\ Feed(e.key, e.value, e.with)
<1>. USE DEF Types
<1>0. Keys \cap Modifiers = {}
  BY ProviderAssumption
<1>1. \A key \in Keys \cup Modifiers, value \in 0..2, with \in SUBSET Modifiers :
        LET e == Made(key, value, with)
        IN e \in Event /\ e.key = key /\ e.value = value /\ e.with = with
  BY DEF Event, Made
<1>2. ASSUME NEW m \in Modifiers, PressModifier(m)
      PROVE  Tells(Made(m, 1, {})) /\ Feed(m, 1, {})
  BY <1>0, <1>1, <1>2 DEF PressModifier, Tells, Knows, Track, Speaks, Feed
<1>3. ASSUME NEW m \in Modifiers, ReleaseModifier(m)
      PROVE  Tells(Made(m, 0, {})) /\ Feed(m, 0, {})
  BY <1>0, <1>1, <1>3 DEF ReleaseModifier, Tells, Knows, Track, Speaks, Feed
<1>4. ASSUME NEW k \in Keys, PressKey(k)
      PROVE  Tells(Made(k, 1, modDown)) /\ Feed(k, 1, modDown)
  BY <1>0, <1>1, <1>4 DEF PressKey, Tells, Knows, Speaks, Feed
<1>5. ASSUME NEW k \in Keys, ReleaseKey(k)
      PROVE  Tells(Made(k, 0, {})) /\ Feed(k, 0, {})
  BY <1>0, <1>1, <1>5 DEF ReleaseKey, Tells, Knows, Speaks, Feed
<1>6. ASSUME Autorepeat
      PROVE  /\ Tells(Made(repeating, 2, {})) /\ Feed(repeating, 2, {})
             /\ repeating \in Keys \cup Modifiers
  <2>. DEFINE e == Made(repeating, 2, {})
  <2>1. repeating \in Keys \cup Modifiers /\ UNCHANGED keyboardVars /\ Feed(repeating, 2, {})
    BY <1>6 DEF Autorepeat
  <2>2. e.key = repeating /\ e.value = 2
    BY DEF Made
  <2>3. blurred' = (blurred \/ (2 = 2 /\ repeating \in Modifiers))
    BY <2>1 DEF Feed
  <2>4. ~blurred' => ~blurred /\ modDown' = Knows(modDown, e)
    BY <2>1, <2>2, <2>3 DEF Knows, keyboardVars
  <2>5. \A k : ~Speaks(e, k)
    BY <2>2 DEF Speaks
  <2>. HIDE DEF e
  <2>6. Tells(e)
    BY <2>1, <2>2, <2>4, <2>5 DEF Tells, keyboardVars
  <2>. QED
    BY <2>1, <2>6 DEF e
<1>7. CASE \E m \in Modifiers : PressModifier(m)
  BY <1>1, <1>2, <1>7
<1>8. CASE \E m \in Modifiers : ReleaseModifier(m)
  BY <1>1, <1>3, <1>8
<1>9. CASE \E k \in Keys : PressKey(k)
  BY <1>1, <1>4, <1>9
<1>10. CASE \E k \in Keys : ReleaseKey(k)
  BY <1>1, <1>5, <1>10
<1>11. CASE Autorepeat
  BY <1>1, <1>6, <1>11
<1>. QED
  BY <1>7, <1>8, <1>9, <1>10, <1>11 DEF Keyboard

\* What a fed event does: who reads has it last, and nothing else changes.
LEMMA FeedAppends ==
  ASSUME Types, NEW e \in Event, Feed(e.key, e.value, e.with)
  PROVE  /\ handle' \in [Handles -> Handle] /\ session' \in CaptureSession
         /\ \A h \in Handles :
              /\ h # current => handle'[h] = handle[h]
              /\ handle'[h].at = handle[h].at /\ handle'[h].event = handle[h].event
              /\ handle'[h].fire = handle[h].fire
         /\ current # None => handle'[current].queue = Append(handle[current].queue, e)
         /\ session'.open = session.open /\ session'.mods = session.mods
         /\ session.open => session'.queue = Append(session.queue, e)
<1>0. [key |-> e.key, value |-> e.value, with |-> e.with] = e
  BY DEF Event
<1>1. /\ handle' = IF current = None THEN handle
                   ELSE [handle EXCEPT ![current].queue = Append(@, e)]
      /\ session' = IF ~session.open THEN session
                    ELSE [session EXCEPT !.queue = Append(@, e)]
  BY <1>0 DEF Feed
<1>2. \A queue \in Seq(Event) : Append(queue, e) \in Seq(Event)
  BY AppendProperties
<1>3. current # None => current \in Handles
  BY DEF Types
<1>4. handle \in [Handles -> Handle] /\ session \in CaptureSession
  BY DEF Types
<1>5. CASE current = None
  BY <1>1, <1>2, <1>4, <1>5 DEF CaptureSession
<1>6. CASE current # None
  <2>. DEFINE r == [handle[current] EXCEPT !.queue = Append(@, e)]
  <2>1. /\ r \in Handle /\ r.at = handle[current].at /\ r.event = handle[current].event
        /\ r.fire = handle[current].fire /\ r.queue = Append(handle[current].queue, e)
    BY <1>2, <1>3, <1>4, <1>6 DEF Handle
  <2>2. handle' = [handle EXCEPT ![current] = r]
    BY <1>1, <1>6
  <2>. HIDE DEF r
  <2>. QED
    BY <1>1, <1>2, <1>3, <1>4, <1>6, <2>1, <2>2 DEF CaptureSession
<1>. QED
  BY <1>5, <1>6

\* Who reads is told what happens to the keyboard.
LEMMA KeyboardKeepsInv ==
  ASSUME EvInv, Keyboard
  PROVE  EvInv'
<1>. USE DEF EvInv
<1>1. PICK e \in Event : Tells(e) /\ Feed(e.key, e.value, e.with)
  BY KeyboardFeeds
<1>2. /\ current' = current /\ starts' = starts /\ mods' = mods /\ held' = held
      /\ hotkey' = hotkey /\ chord' = chord /\ captured' = captured /\ ptt' = ptt
      /\ startedBy' = startedBy /\ blurred' \in BOOLEAN
  BY <1>1 DEF Feed, Types, providerVars, recVars
<1>3. /\ handle' \in [Handles -> Handle] /\ session' \in CaptureSession
      /\ \A h \in Handles :
           /\ h # current => handle'[h] = handle[h]
           /\ handle'[h].at = handle[h].at /\ handle'[h].event = handle[h].event
           /\ handle'[h].fire = handle[h].fire
      /\ current # None => handle'[current].queue = Append(handle[current].queue, e)
      /\ session'.open = session.open /\ session'.mods = session.mods
      /\ session.open => session'.queue = Append(session.queue, e)
  BY <1>1, FeedAppends
<1>4. current # None => current \in Handles /\ handle[current].queue \in Seq(Event)
  BY DEF Types, Handle
<1>5. session.queue \in Seq(Event) /\ session.mods \in SUBSET Modifiers
  BY DEF Types, CaptureSession
<1>6. Types'
  BY <1>1, <1>2, <1>3 DEF Types, Tells
<1>7. ReaderInv'
  BY <1>2, <1>3 DEF ReaderInv
<1>8. ASSUME NEW known, NEW queue \in Seq(Event), Leads(known, queue, modDown), ~blurred'
      PROVE  Leads(known, Append(queue, e), modDown')
  BY <1>1, <1>8, AppendLeads DEF Tells, Types
<1>9. KnownInv'
  <2>1. ASSUME current' # None, ~blurred'
        PROVE  ListenerKnows(handle[current])'
    <3>1. ListenerKnows(handle[current]) /\ ~blurred
      BY <1>1, <1>2, <2>1 DEF KnownInv, Tells
    <3>. QED
      BY <1>2, <1>3, <1>4, <1>8, <2>1, <3>1 DEF ListenerKnows
  <2>2. ASSUME session'.open, ~blurred'
        PROVE  Leads(session.mods, session.queue, modDown)'
    <3>1. Leads(session.mods, session.queue, modDown)
      BY <1>1, <1>3, <2>2 DEF KnownInv, Tells
    <3>2. Leads(session.mods, Append(session.queue, e), modDown')
      BY <1>5, <1>8, <2>2, <3>1
    <3>3. Leads(session'.mods, session'.queue, modDown')
      BY <1>3, <2>2, <3>2
    <3>. QED
      BY <3>3 DEF Leads, Steps, Track
  <2>. QED
    BY <2>1, <2>2 DEF KnownInv
<1>10. HotkeyInv'
  BY <1>2 DEF HotkeyInv, Chosen, CaptureIsChord
<1>11. TellInv'
  <2>. SUFFICES ASSUME current # None, NEW k \in Keys
                PROVE  LET h == handle'[current]
                       IN /\ LastTells(h.queue, k, keyDown')
                          /\ h.at = "handle" /\ Speaks(h.event, k) /\ Silent(h.queue, k) =>
                               (h.event.value = 1 <=> k \in keyDown')
    BY <1>2 DEF TellInv, TellsOf, LastTells, Speaks, Silent
  <2>. DEFINE h == handle[current]
              g == handle'[current]
  <2>1. /\ g.at = h.at /\ g.event = h.event /\ g.queue = Append(h.queue, e)
        /\ h.queue \in Seq(Event)
    BY <1>3, <1>4
  <2>2. LastTells(h.queue, k, keyDown)
        /\ (h.at = "handle" /\ Speaks(h.event, k) /\ Silent(h.queue, k) =>
              (h.event.value = 1 <=> k \in keyDown))
    BY DEF TellInv, TellsOf
  <2>3. IF Speaks(e, k) THEN e.value = 1 <=> k \in keyDown' ELSE k \in keyDown <=> k \in keyDown'
    BY <1>1, ProviderAssumption DEF Tells
  <2>4. LastTells(g.queue, k, keyDown')
    BY <2>1, <2>2, <2>3, AppendTells
  <2>5. Silent(g.queue, k) <=> Silent(h.queue, k) /\ ~Speaks(e, k)
    BY <2>1, AppendSilent
  <2>. QED
    BY <2>1, <2>2, <2>3, <2>4, <2>5
<1>12. HoldInv'
  <2>1. startedBy' \in 0..starts' /\ (startedBy' # None => ptt')
    BY <1>2 DEF HoldInv
  <2>2. ASSUME current # None
        PROVE  HoldOf(handle[current])'
    <3>. DEFINE h == handle[current]
                g == handle'[current]
                key == ParseHotkey(hotkey).key
    <3>1. /\ g.at = h.at /\ g.event = h.event /\ g.fire = h.fire /\ g.queue = Append(h.queue, e)
          /\ h.queue \in Seq(Event)
      BY <1>3, <1>4, <2>2
    <3>2. Calls(g) <=> Calls(h)
      BY <3>1 DEF Calls
    <3>3. Silent(g.queue, key) <=> Silent(h.queue, key) /\ ~Speaks(e, key)
      BY <3>1, AppendSilent
    <3>4. IF Speaks(e, key) THEN e.value = 1 <=> key \in keyDown'
          ELSE key \in keyDown <=> key \in keyDown'
      BY <1>1, KeyIsNoModifier DEF Tells, HotkeyInv, Chosen
    <3>5. HoldOf(h)
      BY <2>2 DEF HoldInv
    <3>6. Lasts(h) => Lasts(handle[current])'
      BY <1>2, <3>1, <3>2, <3>3, <3>4 DEF Lasts, Silent, Speaks, Calls
    <3>. QED
      BY <1>2, <3>1, <3>2, <3>5, <3>6 DEF HoldOf, Calls
  <2>. QED
    BY <1>2, <2>1, <2>2 DEF HoldInv
<1>. QED
  BY <1>6, <1>7, <1>9, <1>10, <1>11, <1>12

(***************************************************************************)
(* The listeners                                                           *)
(***************************************************************************)

\* Of the handles only h's changes, and becomes r.
Becomes(h, r) ==
  /\ handle' \in [Handles -> Handle] /\ handle'[h] = r
  /\ \A g \in Handles \ {h} : handle'[g] = handle[g]

\* What no listener changes.
Frame ==
  UNCHANGED <<modDown, keyDown, repeating, current, starts, hotkey, chord, session, captured,
              ptt, blurred>>

\* A listener that has an event in hand, and the event.
LEMMA InHand ==
  ASSUME EvInv, NEW h \in Handles, handle[h].at = "handle"
  PROVE  handle[h] \in Handle /\ handle[h].event \in Event /\ (current = None \/ h = current)
BY DEF EvInv, Types, ReaderInv

\* ReadOne takes the first event in hand.
LEMMA ReadOneDoes ==
  ASSUME EvInv, NEW h \in Handles, ReadOne(h)
  PROVE  /\ \E r \in Handle :
              /\ Becomes(h, r) /\ r.at = "handle" /\ r.fire = handle[h].fire
              /\ r.queue = Tail(handle[h].queue) /\ r.event = Head(handle[h].queue)
         /\ handle[h].queue \in Seq(Event) /\ handle[h].queue # <<>>
         /\ Head(handle[h].queue) \in Event /\ Tail(handle[h].queue) \in Seq(Event)
<1>1. handle \in [Handles -> Handle] /\ handle[h] \in Handle /\ handle[h].queue # <<>>
  BY DEF EvInv, Types, ReadOne
<1>2. /\ handle[h].queue \in Seq(Event)
      /\ Head(handle[h].queue) \in Event /\ Tail(handle[h].queue) \in Seq(Event)
  BY <1>1, HeadTailProperties DEF Handle
<1>. DEFINE e == Head(handle[h].queue)
            rest == Tail(handle[h].queue)
            r == [handle[h] EXCEPT !.at = "handle", !.event = e, !.queue = rest]
<1>3. handle' = [handle EXCEPT ![h] = r]
  BY DEF ReadOne
<1>. HIDE DEF e, rest
<1>4. /\ r \in Handle /\ r.at = "handle" /\ r.fire = handle[h].fire /\ r.queue = rest
      /\ r.event = e
  BY <1>1, <1>2 DEF Handle, e, rest
<1>. HIDE DEF r
<1>5. Becomes(h, r)
  BY <1>1, <1>3, <1>4 DEF Becomes
<1>. QED
  BY <1>1, <1>2, <1>4, <1>5 DEF e, rest

\* After an event the listener reads on.
LEMMA HandledDoes ==
  ASSUME EvInv, NEW h \in Handles, Handled(h)
  PROVE  \E r \in Handle :
           /\ Becomes(h, r) /\ r.at = "read" /\ r.fire = handle[h].fire
           /\ r.queue = handle[h].queue
<1>. DEFINE r == [handle[h] EXCEPT !.at = "read", !.event = NoEvent]
<1>1. handle \in [Handles -> Handle] /\ handle[h] \in Handle
  BY DEF EvInv, Types
<1>2. handle' = [handle EXCEPT ![h] = r]
  BY DEF Handled
<1>3. r \in Handle /\ r.at = "read" /\ r.fire = handle[h].fire /\ r.queue = handle[h].queue
  BY <1>1 DEF Handle
<1>. HIDE DEF r
<1>4. Becomes(h, r)
  BY <1>1, <1>2, <1>3 DEF Becomes
<1>. QED
  BY <1>3, <1>4

\* FireHotkeys leaves callbacks to run for the event.
LEMMA FireHotkeysDoes ==
  ASSUME EvInv, NEW h \in Handles, FireHotkeys(h)
  PROVE  \E r \in Handle :
           /\ Becomes(h, r) /\ r.at = "call" /\ r.queue = handle[h].queue
           /\ r.event = handle[h].event
           /\ r.fire = {Callback(parts) : parts \in Firing(handle[h].event)}
<1>. DEFINE fire == {Callback(parts) : parts \in Firing(handle[h].event)}
            r == [handle[h] EXCEPT !.at = "call", !.fire = fire]
<1>1. handle \in [Handles -> Handle] /\ handle[h] \in Handle
  BY DEF EvInv, Types
<1>2. fire \in SUBSET {"rec", "act"}
  BY DEF Callback
<1>3. handle' = [handle EXCEPT ![h] = r]
  BY DEF FireHotkeys
<1>. HIDE DEF fire
<1>4. /\ r \in Handle /\ r.at = "call" /\ r.queue = handle[h].queue /\ r.event = handle[h].event
      /\ r.fire = fire
  BY <1>1, <1>2 DEF Handle
<1>. HIDE DEF r
<1>5. Becomes(h, r)
  BY <1>1, <1>3, <1>4 DEF Becomes
<1>. QED
  BY <1>4, <1>5 DEF fire

\* After a callback the next one is to run, or the next event to be read.
CallDone(h, callback, r) ==
  /\ Becomes(h, r) /\ r.queue = handle[h].queue /\ r.fire = handle[h].fire \ {callback}
  /\ \/ r.fire # {} /\ r.at = "call" /\ r.event = handle[h].event
     \/ r.fire = {} /\ r.at = "read" /\ r.event = NoEvent

\* Called runs one callback.
LEMMA CalledDoes ==
  ASSUME EvInv, NEW h \in Handles, handle[h].at = "call", NEW callback, Called(h, callback)
  PROVE  \E r \in Handle : CallDone(h, callback, r)
<1>. DEFINE left == handle[h].fire \ {callback}
            r == IF left = {} THEN [handle[h] EXCEPT !.at = "read", !.event = NoEvent, !.fire = {}]
                              ELSE [handle[h] EXCEPT !.fire = left]
<1>1. handle \in [Handles -> Handle] /\ handle[h] \in Handle
  BY DEF EvInv, Types
<1>2. left \in SUBSET {"rec", "act"}
  BY <1>1 DEF Handle
<1>3. handle' = [handle EXCEPT ![h] = r]
  BY DEF Called
<1>. HIDE DEF left
<1>4. /\ r \in Handle /\ r.queue = handle[h].queue /\ r.fire = left
      /\ \/ r.fire # {} /\ r.at = "call" /\ r.event = handle[h].event
         \/ r.fire = {} /\ r.at = "read" /\ r.event = NoEvent
  <2>1. CASE left = {}
    BY <1>1, <2>1 DEF Handle
  <2>2. CASE left # {}
    BY <1>1, <1>2, <2>2 DEF Handle
  <2>. QED
    BY <2>1, <2>2
<1>. HIDE DEF r
<1>5. Becomes(h, r)
  BY <1>1, <1>3, <1>4 DEF Becomes
<1>. QED
  BY <1>4, <1>5 DEF left, CallDone

\* A listener that exits has nothing left.
LEMMA ListenerExitsDoes ==
  ASSUME EvInv, NEW h \in Handles, ListenerExits(h)
  PROVE  Becomes(h, Idle("gone"))
<1>1. handle \in [Handles -> Handle]
  BY DEF EvInv, Types
<1>2. Idle("gone") \in Handle
  BY EmptySeq DEF Idle, Handle
<1>. QED
  BY <1>1, <1>2 DEF ListenerExits, Becomes

(***************************************************************************)
(* A listener whose handle is not the open one                             *)
(***************************************************************************)

\* What it does not change: what the listener of the open handle knows and holds.
Elsewhere(h) ==
  /\ Frame /\ h # current
  /\ \E r \in Handle : Becomes(h, r) /\ r.at # "handle"
  /\ handle[h].at # "unused"
  /\ mods' \subseteq Modifiers
  /\ current # None => mods' = mods /\ held' = held
  /\ startedBy' \in {startedBy, h, None} /\ (startedBy' # None => ptt \/ startedBy' = startedBy)

\* So such a step keeps the invariant.
LEMMA ElsewhereKeepsInv ==
  ASSUME EvInv, NEW h \in Handles, Elsewhere(h)
  PROVE  EvInv'
<1>. USE DEF EvInv, Elsewhere, Frame
<1>1. PICK r \in Handle : Becomes(h, r) /\ r.at # "handle"
  OBVIOUS
<1>2. current # None => current \in Handles \ {h}
  BY DEF Types
<1>3. Types'
  BY <1>1 DEF Types, Becomes
<1>4. h \in 0..starts
  BY DEF ReaderInv, Types, Handles, None
<1>5. ReaderInv'
  <2>1. \A g \in Handles : g # h => handle'[g] = handle[g]
    BY <1>1 DEF Becomes
  <2>2. handle'[h].at # "handle" /\ ~(h > starts)
    BY <1>1 DEF Becomes, ReaderInv
  <2>. QED
    BY <2>1, <2>2 DEF ReaderInv
<1>6. KnownInv'
  <2>1. current # None => handle'[current] = handle[current] /\ mods' = mods
    BY <1>1, <1>2 DEF Becomes
  <2>2. \A known, queue : Leads(known, queue, modDown) => Leads(known, queue, modDown)'
    BY DEF Leads, Steps, Track
  <2>3. ASSUME current # None, ~blurred PROVE ListenerKnows(handle[current])'
    BY <2>1, <2>2, <2>3 DEF KnownInv, ListenerKnows, Knows, Track
  <2>. QED
    BY <2>2, <2>3 DEF KnownInv
<1>7. HotkeyInv'
  BY DEF HotkeyInv, Chosen, CaptureIsChord
<1>8. TellInv'
  BY <1>1, <1>2 DEF TellInv, TellsOf, Becomes, LastTells, Silent, Speaks
<1>9. HoldInv'
  <2>1. startedBy' \in 0..starts /\ (startedBy' # None => ptt)
    BY <1>4, ProviderAssumption DEF HoldInv, None, Types, Handles
  <2>2. ASSUME current # None PROVE HoldOf(handle[current])'
    <3>1. handle'[current] = handle[current] /\ (startedBy' = current => startedBy = current)
      BY <1>1, <1>2, <2>2 DEF Becomes
    <3>. QED
      BY <2>2, <3>1 DEF HoldInv, HoldOf, Lasts, Calls, Silent, Speaks
  <2>. QED
    BY <2>1, <2>2 DEF HoldInv
<1>. QED
  BY <1>3, <1>5, <1>6, <1>7, <1>8, <1>9

\* Every step of such a listener is one: it handles what it has in hand only when no
\* handle is open, and the recording that it starts is its own.
LEMMA OtherListenersKeepInv ==
  ASSUME EvInv, NEW h \in Handles, Listener(h), h # current
  PROVE  EvInv'
<1>. USE DEF keyboardVars, providerVars, captureVars, recVars, Frame
<1>0. mods \subseteq Modifiers
  BY DEF EvInv, Types
<1>1. CASE ReadOne(h)
  BY <1>1 DEF ReadOne
<1>2. CASE TrackModifier(h)
  <2>1. handle[h].at = "handle" /\ current = None
    BY <1>2, InHand DEF TrackModifier, Handling
  <2>2. mods' \subseteq Modifiers
    BY <1>0, <1>2, TrackTypes DEF TrackModifier
  <2>3. \E r \in Handle : Becomes(h, r) /\ r.at # "handle"
    BY <1>2, HandledDoes DEF TrackModifier
  <2>4. Elsewhere(h)
    BY <1>2, <2>1, <2>2, <2>3 DEF TrackModifier, Elsewhere
  <2>. QED
    BY <2>4, ElsewhereKeepsInv
<1>3. CASE SkipEvent(h)
  <2>1. handle[h].at = "handle"
    BY <1>3 DEF SkipEvent, Handling
  <2>2. \E r \in Handle : Becomes(h, r) /\ r.at # "handle"
    BY <1>3, HandledDoes DEF SkipEvent
  <2>3. Elsewhere(h)
    BY <1>0, <1>3, <2>1, <2>2 DEF SkipEvent, Elsewhere
  <2>. QED
    BY <2>3, ElsewhereKeepsInv
<1>4. CASE FireHotkeys(h)
  <2>1. handle[h].at = "handle" /\ current = None
    BY <1>4, InHand DEF FireHotkeys, Handling
  <2>2. \E r \in Handle : Becomes(h, r) /\ r.at # "handle"
    BY <1>4, FireHotkeysDoes
  <2>3. Elsewhere(h)
    BY <1>0, <1>4, <2>1, <2>2 DEF FireHotkeys, Elsewhere
  <2>. QED
    BY <2>3, ElsewhereKeepsInv
<1>5. CASE RecordingHotkey(h)
  <2>1. handle[h].at = "call" /\ Called(h, "rec")
    BY <1>5 DEF RecordingHotkey
  <2>2. \E r \in Handle : Becomes(h, r) /\ r.at # "handle"
    BY <2>1, CalledDoes DEF CallDone
  <2>3. /\ startedBy' \in {startedBy, h, None}
        /\ startedBy' # None => ptt \/ startedBy' = startedBy
    BY <1>5 DEF RecordingHotkey, StartRecording, StopRecording
  <2>4. Elsewhere(h)
    BY <1>0, <1>5, <2>1, <2>2, <2>3 DEF RecordingHotkey, Elsewhere
  <2>. QED
    BY <2>4, ElsewhereKeepsInv
<1>6. CASE ActionHotkey(h)
  <2>1. handle[h].at = "call" /\ Called(h, "act")
    BY <1>6 DEF ActionHotkey
  <2>2. \E r \in Handle : Becomes(h, r) /\ r.at # "handle"
    BY <2>1, CalledDoes DEF CallDone
  <2>3. Elsewhere(h)
    BY <1>0, <1>6, <2>1, <2>2 DEF ActionHotkey, Elsewhere
  <2>. QED
    BY <2>3, ElsewhereKeepsInv
<1>7. CASE ListenerExits(h)
  <2>1. Idle("gone").at # "handle" /\ handle[h].at # "unused"
    BY <1>7 DEF ListenerExits, Idle
  <2>2. \E r \in Handle : Becomes(h, r) /\ r.at # "handle"
    BY <1>7, <2>1, ListenerExitsDoes DEF Becomes
  <2>3. Elsewhere(h)
    BY <1>0, <1>7, <2>1, <2>2 DEF ListenerExits, Elsewhere
  <2>. QED
    BY <2>3, ElsewhereKeepsInv
<1>. QED
  BY <1>1, <1>2, <1>3, <1>4, <1>5, <1>6, <1>7 DEF Listener

(***************************************************************************)
(* The listener of the open handle                                         *)
(***************************************************************************)

\* Its step leaves the keyboard and the hotkeys; it may have read an event.
Here(h, r) ==
  /\ Frame /\ h = current /\ Becomes(h, r) /\ handle[h].at # "unused"
  /\ r.at = "handle" => r.event \in Event
  /\ r.at # "unused"
  /\ mods' \subseteq Modifiers

\* It keeps the invariant if the listener then knows what is down and what a
\* hold is to do.
LEMMA HereKeepsInv ==
  ASSUME EvInv, NEW h \in Handles, NEW r \in Handle, Here(h, r),
         ~blurred => ListenerKnows(handle[current])',
         TellsOf(handle[current])', HoldOf(handle[current])',
         startedBy' \in {startedBy, h, None}, startedBy' # None => ptt
  PROVE  EvInv'
<1>. USE DEF EvInv, Here, Frame
<1>1. handle'[h] = r /\ \A g \in Handles \ {h} : handle'[g] = handle[g]
  BY DEF Becomes
<1>2. Types'
  BY DEF Types, Becomes
<1>3. h \in 0..starts
  BY DEF ReaderInv, Types, Handles, None
<1>4. ReaderInv'
  <2>1. \A g \in Handles : handle'[g].at = "handle" => handle'[g].event \in Event
    BY <1>1 DEF ReaderInv
  <2>2. \A g \in Handles : handle'[g].at = "handle" => g = h
    BY <1>1, ProviderAssumption DEF ReaderInv, None, Handles
  <2>3. \A g \in Handles : g > starts => handle'[g].at = "unused"
    BY <1>1 DEF ReaderInv
  <2>. QED
    BY <2>1, <2>2, <2>3 DEF ReaderInv
<1>5. KnownInv'
  <2>1. ~session.open
    BY ProviderAssumption DEF ReaderInv, None, Handles
  <2>. QED
    BY <2>1 DEF KnownInv
<1>6. HotkeyInv'
  BY DEF HotkeyInv, Chosen, CaptureIsChord
<1>7. TellInv'
  BY DEF TellInv
<1>8. HoldInv'
  BY <1>3, ProviderAssumption DEF HoldInv, None, Types, Handles
<1>. QED
  BY <1>2, <1>4, <1>5, <1>6, <1>7, <1>8

\* Of the open handle the invariant tells this.
LEMMA OpenHandle ==
  ASSUME EvInv, NEW h \in Handles, h = current
  PROVE  /\ handle[h] \in Handle /\ handle[h].queue \in Seq(Event)
         /\ current # None /\ ~session.open
         /\ ~blurred => ListenerKnows(handle[h])
         /\ TellsOf(handle[h]) /\ HoldOf(handle[h])
         /\ ParseHotkey(hotkey).key \notin Modifiers
         /\ startedBy # None => ptt
         /\ startedBy \in 0..starts
<1>1. current # None
  BY ProviderAssumption DEF None, Handles
<1>2. ParseHotkey(hotkey).key \notin Modifiers
  BY KeyIsNoModifier DEF EvInv, HotkeyInv, Chosen
<1>. QED
  BY <1>1, <1>2 DEF EvInv, Types, Handle, ReaderInv, KnownInv, TellInv, HoldInv

\* The event that is read is the next one.
LEMMA ReadOneKeepsInv ==
  ASSUME EvInv, NEW h \in Handles, ReadOne(h)
  PROVE  EvInv'
<1>. USE DEF Frame, keyboardVars, providerVars, captureVars, recVars
<1>. DEFINE g == handle[h]
            e == Head(g.queue)
            key == ParseHotkey(hotkey).key
<1>1. /\ h = current /\ g.at = "read" /\ Frame /\ mods' = mods /\ held' = held
      /\ startedBy' = startedBy
  BY DEF ReadOne
<1>2. PICK r \in Handle : /\ Becomes(h, r) /\ r.at = "handle" /\ r.fire = g.fire
                          /\ r.queue = Tail(g.queue) /\ r.event = e
  BY ReadOneDoes
<1>3. g.queue \in Seq(Event) /\ g.queue # <<>> /\ e \in Event
  BY ReadOneDoes
<1>4. handle'[h] = r
  BY <1>2 DEF Becomes
<1>5. /\ ~blurred => ListenerKnows(g)
      /\ TellsOf(g) /\ HoldOf(g) /\ key \notin Modifiers /\ (startedBy # None => ptt)
  BY <1>1, OpenHandle
<1>6. mods \in SUBSET Modifiers
  BY DEF EvInv, Types
<1>7. Here(h, r)
  BY <1>1, <1>2, <1>3, <1>6 DEF Here
<1>. HIDE DEF e
<1>8. ASSUME ~blurred PROVE ListenerKnows(handle[current])'
  <2>1. Leads(mods, g.queue, modDown)
    BY <1>1, <1>5, <1>8 DEF ListenerKnows
  <2>2. /\ Leads(Knows(mods, e), r.queue, modDown)
        /\ e.key \notin Modifiers /\ e.value = 1 => e.with = mods
    BY <1>2, <1>3, <1>6, <2>1, HeadLeads DEF e
  <2>. QED
    BY <1>1, <1>2, <1>4, <2>2 DEF ListenerKnows
<1>9. TellsOf(handle[current])'
  <2>1. ASSUME NEW k \in Keys
        PROVE  /\ LastTells(r.queue, k, keyDown)
               /\ Speaks(e, k) /\ Silent(r.queue, k) => (e.value = 1 <=> k \in keyDown)
    BY <1>2, <1>3, <1>5, TailTells DEF TellsOf, e
  <2>. QED
    BY <1>1, <1>2, <1>4, <2>1 DEF TellsOf, LastTells, Silent, Speaks
<1>10. HoldOf(handle[current])'
  <2>1. Silent(g.queue, key) <=> Silent(r.queue, key) /\ ~Speaks(e, key)
    BY <1>2, <1>3, TailSilent DEF e
  <2>2. ~Calls(g) /\ ~Calls(r)
    BY <1>1, <1>2 DEF Calls
  <2>. QED
    BY <1>1, <1>2, <1>4, <1>5, <2>1, <2>2 DEF HoldOf, Lasts, Calls, Silent, Speaks
<1>. QED
  BY <1>1, <1>2, <1>5, <1>7, <1>8, <1>9, <1>10, HereKeepsInv

\* The listener knows of a modifier what its event says.
LEMMA TrackModifierKeepsInv ==
  ASSUME EvInv, NEW h \in Handles, h = current, TrackModifier(h)
  PROVE  EvInv'
<1>. USE DEF Frame, keyboardVars, providerVars, captureVars, recVars
<1>. DEFINE g == handle[h]
            key == ParseHotkey(hotkey).key
<1>1. /\ g.at = "handle" /\ g.event.key \in Modifiers /\ Frame /\ mods' = Track(mods, g.event)
      /\ held' = held /\ startedBy' = startedBy
  BY DEF TrackModifier, Handling
<1>2. PICK r \in Handle : Becomes(h, r) /\ r.at = "read" /\ r.fire = g.fire /\ r.queue = g.queue
  BY HandledDoes DEF TrackModifier
<1>3. handle'[h] = r
  BY <1>2 DEF Becomes
<1>4. /\ ~blurred => ListenerKnows(g)
      /\ TellsOf(g) /\ HoldOf(g) /\ key \notin Modifiers /\ (startedBy # None => ptt)
  BY OpenHandle
<1>5. mods \in SUBSET Modifiers /\ mods' \in SUBSET Modifiers
  BY <1>1, TrackTypes DEF EvInv, Types
<1>6. Here(h, r)
  BY <1>1, <1>2, <1>5 DEF Here
<1>7. ASSUME ~blurred PROVE ListenerKnows(handle[current])'
  <2>1. Leads(mods', g.queue, modDown)
    BY <1>1, <1>4, <1>7 DEF ListenerKnows, Knows
  <2>. QED
    BY <1>1, <1>2, <1>3, <2>1 DEF ListenerKnows
<1>8. TellsOf(handle[current])'
  BY <1>1, <1>2, <1>3, <1>4 DEF TellsOf, LastTells, Silent, Speaks
<1>9. HoldOf(handle[current])'
  BY <1>1, <1>2, <1>3, <1>4 DEF HoldOf, Lasts, Calls, Silent, Speaks
<1>. QED
  BY <1>1, <1>4, <1>6, <1>7, <1>8, <1>9, HereKeepsInv

\* What an event in hand of another key tells: its press tells the modifiers;
\* and it is the last of its key, if the queue is silent.
LEMMA EventInHand ==
  ASSUME EvInv, NEW h \in Handles, h = current, handle[h].at = "handle",
         handle[h].event.key \notin Modifiers
  PROVE  /\ handle[h].event \in Event
         /\ ~blurred => Leads(mods, handle[h].queue, modDown)
         /\ \A k : Speaks(handle[h].event, k) /\ Silent(handle[h].queue, k) =>
              (handle[h].event.value = 1 <=> k \in keyDown)
<1>1. handle[h].event \in Event
  BY InHand
<1>2. \A k : Speaks(handle[h].event, k) => k \in Keys
  BY <1>1 DEF Speaks, Event
<1>. QED
  BY <1>1, <1>2, OpenHandle DEF ListenerKnows, TellsOf, Knows

\* An event that fires nothing is no release of a hold that is noted.
LEMMA SkipEventKeepsInv ==
  ASSUME EvInv, NEW h \in Handles, h = current, SkipEvent(h)
  PROVE  EvInv'
<1>. USE DEF Frame, keyboardVars, providerVars, captureVars, recVars
<1>. DEFINE g == handle[h]
            key == ParseHotkey(hotkey).key
<1>1. /\ g.at = "handle" /\ g.event.key \notin Modifiers /\ Firing(g.event) = {} /\ Frame
      /\ mods' = mods /\ held' = held /\ startedBy' = startedBy
  BY DEF SkipEvent, Handling
<1>2. PICK r \in Handle : Becomes(h, r) /\ r.at = "read" /\ r.fire = g.fire /\ r.queue = g.queue
  BY HandledDoes DEF SkipEvent
<1>3. handle'[h] = r
  BY <1>2 DEF Becomes
<1>4. TellsOf(g) /\ HoldOf(g) /\ (startedBy # None => ptt)
  BY OpenHandle
<1>5. mods \in SUBSET Modifiers
  BY DEF EvInv, Types
<1>6. Here(h, r)
  BY <1>1, <1>2, <1>5 DEF Here
<1>7. /\ g.event \in Event /\ (~blurred => Leads(mods, g.queue, modDown))
      /\ Speaks(g.event, key) /\ Silent(g.queue, key) => (g.event.value = 1 <=> key \in keyDown)
  BY <1>1, EventInHand
<1>8. ASSUME ~blurred PROVE ListenerKnows(handle[current])'
  BY <1>1, <1>2, <1>3, <1>7, <1>8 DEF ListenerKnows
<1>9. TellsOf(handle[current])'
  BY <1>1, <1>2, <1>3, <1>4 DEF TellsOf, LastTells, Silent, Speaks
<1>10. ASSUME Lasts(g) PROVE Lasts(r)
  <2>1. hotkey # ActHotkey /\ hotkey \in held
        /\ (Silent(g.queue, key) /\ ~Speaks(g.event, key) => key \in keyDown)
    BY <1>1, <1>10 DEF Lasts, Calls
  <2>2. ~Fires(hotkey, g.event)
    BY <1>1 DEF Firing
  <2>3. Speaks(g.event, key) => g.event.value = 1
    BY <1>7, <2>1, <2>2 DEF Fires, Speaks, Event
  <2>. QED
    BY <1>2, <1>7, <2>1, <2>3 DEF Lasts
<1>11. HoldOf(handle[current])'
  <2>1. ~Calls(g) /\ ~Calls(r)
    BY <1>1, <1>2 DEF Calls
  <2>2. Lasts(g) => Lasts(handle[current])'
    BY <1>1, <1>3, <1>10 DEF Lasts, Calls, Silent, Speaks
  <2>. QED
    BY <1>1, <1>3, <1>4, <2>1, <2>2 DEF HoldOf, Calls
<1>. QED
  BY <1>1, <1>4, <1>6, <1>8, <1>9, <1>11, HereKeepsInv

\* A press is noted, and its key is down or is yet to be let go; the release of
\* a hold that is noted fires.
LEMMA FireHotkeysKeepsInv ==
  ASSUME EvInv, NEW h \in Handles, h = current, FireHotkeys(h)
  PROVE  EvInv'
<1>. USE DEF Frame, keyboardVars, providerVars, captureVars, recVars
<1>. DEFINE g == handle[h]
            e == g.event
            key == ParseHotkey(hotkey).key
            firing == Firing(e)
<1>1. /\ g.at = "handle" /\ e.key \notin Modifiers /\ Frame
      /\ held' = IF e.value = 1 THEN held \cup firing ELSE held \ firing
      /\ mods' = mods /\ startedBy' = startedBy
  BY DEF FireHotkeys, Handling
<1>2. PICK r \in Handle : /\ Becomes(h, r) /\ r.at = "call" /\ r.queue = g.queue /\ r.event = e
                          /\ r.fire = {Callback(parts) : parts \in firing}
  BY FireHotkeysDoes
<1>3. handle'[h] = r
  BY <1>2 DEF Becomes
<1>4. TellsOf(g) /\ HoldOf(g) /\ (startedBy # None => ptt)
  BY OpenHandle
<1>5. mods \in SUBSET Modifiers
  BY DEF EvInv, Types
<1>6. Here(h, r)
  BY <1>1, <1>2, <1>5 DEF Here
<1>7. /\ e \in Event /\ (~blurred => Leads(mods, g.queue, modDown))
      /\ Speaks(e, key) /\ Silent(g.queue, key) => (e.value = 1 <=> key \in keyDown)
  BY <1>1, EventInHand
<1>8. ASSUME ~blurred PROVE ListenerKnows(handle[current])'
  BY <1>1, <1>2, <1>3, <1>7, <1>8 DEF ListenerKnows
<1>9. TellsOf(handle[current])'
  BY <1>1, <1>2, <1>3, <1>4 DEF TellsOf, LastTells, Silent, Speaks
<1>10. \A parts \in firing : parts \in {hotkey, ActHotkey} /\ Fires(parts, e)
  BY DEF Firing
<1>11. Calls(r) <=> hotkey # ActHotkey /\ hotkey \in firing
  BY <1>2, <1>10 DEF Calls, Callback
<1>12. Calls(r) => e.key = key /\ e.value \in {0, 1}
  BY <1>7, <1>10, <1>11 DEF Fires, Event
<1>13. ASSUME startedBy = current \/ (Calls(r) /\ e.value = 1)
       PROVE  Lasts(handle[current])'
  <2>1. hotkey # ActHotkey
        /\ \/ Calls(r)
           \/ hotkey \in held /\ (Silent(g.queue, key) /\ ~Speaks(e, key) => key \in keyDown)
    BY <1>1, <1>4, <1>11, <1>13 DEF HoldOf, Lasts, Calls
  <2>2. CASE e.key = key /\ e.value = 0
    <3>1. hotkey \in firing
      BY <1>11, <2>1, <2>2 DEF Firing, Fires
    <3>2. Calls(r) /\ r.event.value = 0
      BY <1>2, <1>11, <2>1, <2>2, <3>1
    <3>. QED
      BY <1>1, <1>3, <2>1, <3>2 DEF Lasts, Calls
  <2>3. CASE ~(e.key = key /\ e.value = 0)
    <3>1. hotkey \in held'
      BY <1>1, <1>7, <1>10, <1>11, <1>12, <2>1, <2>3 DEF Fires, Event
    <3>2. Silent(r.queue, key) => key \in keyDown
      <4>1. Calls(r) => Speaks(e, key)
        BY <1>12 DEF Speaks
      <4>2. Speaks(e, key) => e.value = 1
        BY <1>7, <2>3 DEF Speaks, Event
      <4>. QED
        BY <1>2, <1>7, <2>1, <4>1, <4>2
    <3>. QED
      BY <1>1, <1>2, <1>3, <2>1, <3>1, <3>2 DEF Lasts, Silent, Speaks
  <2>. QED
    BY <2>2, <2>3
<1>14. HoldOf(handle[current])'
  BY <1>1, <1>2, <1>3, <1>11, <1>12, <1>13 DEF HoldOf, Calls
<1>. QED
  BY <1>1, <1>4, <1>6, <1>8, <1>9, <1>14, HereKeepsInv

\* When a callback is run, the rest of the event is as before.
LEMMA CalledHere ==
  ASSUME EvInv, NEW h \in Handles, h = current, handle[h].at = "call",
         NEW callback, Called(h, callback), Frame, mods' = mods, held' = held,
         NEW r \in Handle, CallDone(h, callback, r)
  PROVE  /\ Here(h, r) /\ (~blurred => ListenerKnows(handle[current])') /\ TellsOf(handle[current])'
<1>. USE DEF Frame, CallDone
<1>1. handle'[h] = r /\ r.at \in {"call", "read"}
  BY DEF Becomes
<1>2. (~blurred => ListenerKnows(handle[h])) /\ TellsOf(handle[h])
  BY OpenHandle
<1>3. mods \subseteq Modifiers
  BY DEF EvInv, Types
<1>4. Here(h, r)
  BY <1>1, <1>3 DEF Here
<1>5. ASSUME ~blurred PROVE ListenerKnows(handle[current])'
  <2>1. Leads(mods, handle[h].queue, modDown)
    BY <1>2, <1>5 DEF ListenerKnows
  <2>. QED
    BY <1>1, <2>1 DEF ListenerKnows
<1>6. TellsOf(handle[current])'
  BY <1>1, <1>2 DEF TellsOf, LastTells, Silent, Speaks
<1>. QED
  BY <1>4, <1>5, <1>6

\* The recording starts while the hold lasts, and stops with its release.
LEMMA RecordingHotkeyKeepsInv ==
  ASSUME EvInv, NEW h \in Handles, h = current, RecordingHotkey(h)
  PROVE  EvInv'
<1>. USE DEF CallDone, Frame, keyboardVars, providerVars, captureVars, recVars
<1>. DEFINE g == handle[h]
            key == ParseHotkey(hotkey).key
<1>1. Calls(g) /\ g.at = "call" /\ Frame /\ mods' = mods /\ held' = held /\ Called(h, "rec")
  BY DEF RecordingHotkey, Calls
<1>2. PICK r \in Handle : CallDone(h, "rec", r)
  <2>. HIDE DEF CallDone
  <2>. QED
    BY <1>1, CalledDoes
<1>3. handle'[h] = r /\ ~Calls(r)
  BY <1>2 DEF Becomes, Calls
<1>4. Here(h, r) /\ (~blurred => ListenerKnows(handle[current])') /\ TellsOf(handle[current])'
  <2>. HIDE DEF CallDone
  <2>. QED
    BY <1>1, <1>2, CalledHere
<1>5. HoldOf(g) /\ (startedBy # None => ptt) /\ current # None /\ startedBy \in 0..starts
  BY OpenHandle
<1>6. /\ startedBy' \in {startedBy, h, None} /\ (startedBy' # None => ptt)
      /\ startedBy' = current =>
           (g.event.value = 1 \/ ~ptt) /\ (startedBy = current \/ g.event.value = 1)
  BY <1>5 DEF RecordingHotkey, StartRecording, StopRecording
<1>7. startedBy' = current => Lasts(handle[current])'
  <2>. SUFFICES ASSUME startedBy' = current PROVE Lasts(handle[current])'
    OBVIOUS
  <2>1. g.event.value = 1
    BY <1>5, <1>6
  <2>2. Lasts(g)
    BY <1>1, <1>5, <2>1 DEF HoldOf
  <2>3. /\ hotkey # ActHotkey /\ hotkey \in held
        /\ Silent(g.queue, key) => key \in keyDown
    BY <1>1, <2>1, <2>2 DEF Lasts
  <2>. QED
    BY <1>1, <1>2, <1>3, <2>3 DEF Lasts, Silent, Speaks
<1>8. HoldOf(handle[current])'
  BY <1>1, <1>3, <1>7 DEF HoldOf, Calls
<1>. QED
  BY <1>4, <1>6, <1>8, HereKeepsInv

\* The callback of an action leaves that of the recording.
LEMMA ActionHotkeyKeepsInv ==
  ASSUME EvInv, NEW h \in Handles, h = current, ActionHotkey(h)
  PROVE  EvInv'
<1>. USE DEF CallDone, Frame, keyboardVars, providerVars, captureVars, recVars
<1>. DEFINE g == handle[h]
            key == ParseHotkey(hotkey).key
<1>1. /\ g.at = "call" /\ Frame /\ mods' = mods /\ held' = held /\ Called(h, "act")
      /\ startedBy' = startedBy
  BY DEF ActionHotkey
<1>2. PICK r \in Handle : CallDone(h, "act", r)
  <2>. HIDE DEF CallDone
  <2>. QED
    BY <1>1, CalledDoes
<1>3. handle'[h] = r
  BY <1>2 DEF Becomes
<1>4. Here(h, r) /\ (~blurred => ListenerKnows(handle[current])') /\ TellsOf(handle[current])'
  <2>. HIDE DEF CallDone
  <2>. QED
    BY <1>1, <1>2, CalledHere
<1>5. HoldOf(g) /\ (startedBy # None => ptt) /\ current # None
  BY OpenHandle
<1>6. (Calls(r) <=> Calls(g)) /\ (Calls(g) => r.event = g.event)
  BY <1>1, <1>2 DEF Calls
<1>7. Lasts(g) => Lasts(handle[current])'
  BY <1>1, <1>2, <1>3, <1>6 DEF Lasts, Silent, Speaks, Calls
<1>8. HoldOf(handle[current])'
  BY <1>1, <1>3, <1>5, <1>6, <1>7 DEF HoldOf, Calls
<1>. QED
  BY <1>1, <1>4, <1>5, <1>8, HereKeepsInv

\* Every step of a listener.
LEMMA ListenerKeepsInv ==
  ASSUME EvInv, NEW h \in Handles, Listener(h)
  PROVE  EvInv'
<1>1. CASE h # current
  BY <1>1, OtherListenersKeepInv
<1>2. CASE h = current
  <2>1. ~ListenerExits(h)
    BY <1>2 DEF ListenerExits
  <2>. QED
    BY <1>2, <2>1, ReadOneKeepsInv, TrackModifierKeepsInv, SkipEventKeepsInv,
       FireHotkeysKeepsInv, RecordingHotkeyKeepsInv, ActionHotkeyKeepsInv DEF Listener
<1>. QED
  BY <1>1, <1>2

(***************************************************************************)
(* Start and Stop                                                          *)
(***************************************************************************)

\* A listener starts with what the provider knew when the last one stopped.
LEMMA StartKeepsInv ==
  ASSUME EvInv, Start
  PROVE  EvInv'
<1>. USE DEF EvInv
<1>1. /\ current = None /\ ~session.open /\ starts < MaxStarts /\ starts' = starts + 1
      /\ current' = starts + 1 /\ handle' = [handle EXCEPT ![starts + 1] = Idle("read")]
      /\ blurred' = (mods # modDown)
      /\ UNCHANGED <<keyboardVars, mods, held, hotkey, chord, session, captured, ptt, startedBy>>
      /\ \A h \in Handles : handle[h].at # "handle"
  BY DEF Start, captureVars, recVars, NoneHandles
<1>2. starts \in 0..MaxStarts /\ starts + 1 \in Handles /\ MaxStarts \in Nat
  BY <1>1, ProviderAssumption DEF Types, None, Handles
<1>3. /\ Idle("read") \in Handle /\ Idle("read").at = "read" /\ Idle("read").queue = <<>>
      /\ Idle("read").fire = {}
  BY EmptySeq DEF Idle, Handle
<1>4. /\ handle' \in [Handles -> Handle] /\ handle'[starts + 1] = Idle("read")
      /\ \A h \in Handles \ {starts + 1} : handle'[h] = handle[h]
  BY <1>1, <1>2, <1>3 DEF Types
<1>5. Types'
  BY <1>1, <1>2, <1>4 DEF Types, keyboardVars
<1>6. ReaderInv'
  <2>1. \A h \in Handles : handle'[h].at # "handle"
    BY <1>1, <1>3, <1>4
  <2>2. \A h \in Handles : h > starts + 1 => handle'[h].at = "unused"
    BY <1>2, <1>4 DEF ReaderInv, Handles
  <2>. QED
    BY <1>1, <2>1, <2>2 DEF ReaderInv
<1>7. KnownInv'
  <2>1. ASSUME ~blurred' PROVE Leads(mods', handle'[current'].queue, modDown')
    <3>1. mods = modDown /\ mods \in SUBSET Modifiers
      BY <1>1, <2>1 DEF Types
    <3>2. Leads(mods, <<>>, modDown)
      BY <3>1, NothingLeads
    <3>. QED
      BY <1>1, <1>3, <1>4, <3>2 DEF keyboardVars
  <2>2. handle'[current'].at = "read"
    BY <1>1, <1>3, <1>4
  <2>. QED
    BY <1>1, <2>1, <2>2 DEF KnownInv, ListenerKnows
<1>8. HotkeyInv'
  BY <1>1 DEF HotkeyInv, Chosen, CaptureIsChord
<1>9. TellInv'
  <2>1. handle'[current'].at = "read" /\ handle'[current'].queue = <<>>
    BY <1>1, <1>3, <1>4
  <2>2. \A k \in Keys : LastTells(<<>>, k, keyDown')
    BY NothingTells
  <2>. QED
    BY <2>1, <2>2 DEF TellInv, TellsOf
<1>10. HoldInv'
  <2>1. handle'[current'].at = "read"
    BY <1>1, <1>3, <1>4
  <2>2. startedBy' \in 0..starts' /\ startedBy' # current' /\ (startedBy' # None => ptt')
    BY <1>1, <1>2 DEF HoldInv
  <2>. QED
    BY <2>1, <2>2 DEF HoldInv, HoldOf, Calls
<1>. QED
  BY <1>5, <1>6, <1>7, <1>8, <1>9, <1>10

\* Nobody is left to know anything.
LEMMA StopKeepsInv ==
  ASSUME EvInv, Stop
  PROVE  EvInv'
<1>. USE DEF EvInv
<1>1. /\ current # None /\ current' = None
      /\ handle' = [handle EXCEPT ![current].queue = <<>>]
      /\ UNCHANGED <<keyboardVars, mods, held, starts, hotkey, chord, session, captured, ptt,
                     startedBy, blurred>>
  BY DEF Stop, captureVars, recVars
<1>2. current \in Handles /\ handle \in [Handles -> Handle]
  BY <1>1 DEF Types
<1>. DEFINE r == [handle[current] EXCEPT !.queue = <<>>]
<1>3. r \in Handle /\ r.at = handle[current].at /\ r.event = handle[current].event
  BY <1>2, EmptySeq DEF Handle
<1>4. handle' = [handle EXCEPT ![current] = r]
  BY <1>1
<1>. HIDE DEF r
<1>5. /\ handle' \in [Handles -> Handle]
      /\ \A h \in Handles : handle'[h].at = handle[h].at /\ handle'[h].event = handle[h].event
  BY <1>2, <1>3, <1>4
<1>6. Types'
  BY <1>1, <1>5 DEF Types, keyboardVars
<1>7. ReaderInv'
  BY <1>1, <1>5 DEF ReaderInv
<1>8. ~session.open
  BY <1>1 DEF ReaderInv
<1>9. KnownInv' /\ TellInv'
  BY <1>1, <1>8 DEF KnownInv, TellInv
<1>10. HotkeyInv'
  BY <1>1 DEF HotkeyInv, Chosen, CaptureIsChord
<1>11. HoldInv'
  BY <1>1 DEF HoldInv
<1>. QED
  BY <1>6, <1>7, <1>9, <1>10, <1>11

(***************************************************************************)
(* Captures                                                                *)
(***************************************************************************)

\* Steps of which no listener takes note: the keyboard, the handles, and the
\* recording stay; while a handle is open, also what its listener knows.
Aside ==
  /\ UNCHANGED <<keyboardVars, current, starts, handle, ptt, startedBy>>
  /\ current # None => UNCHANGED <<mods, held, hotkey, chord, blurred>>
  /\ mods' \subseteq Modifiers /\ blurred' \in BOOLEAN

\* They keep the invariant if the capture session knows what is down, and what
\* is chosen or captured is a hotkey with its modifiers.
LEMMA AsideKeepsInv ==
  ASSUME EvInv, Aside, session' \in CaptureSession, session'.open => current = None,
         session'.open /\ ~blurred' => Leads(session'.mods, session'.queue, modDown),
         HotkeyInv'
  PROVE  EvInv'
<1>. USE DEF EvInv, Aside, keyboardVars
<1>1. Types'
  BY DEF Types
<1>2. ReaderInv'
  BY DEF ReaderInv
<1>3. KnownInv'
  <2>1. ASSUME current # None, ~blurred'
        PROVE  ListenerKnows(handle[current])'
    BY <2>1 DEF KnownInv, ListenerKnows
  <2>. QED
    BY <2>1 DEF KnownInv
<1>4. TellInv'
  BY DEF TellInv, TellsOf, LastTells, Silent, Speaks
<1>5. HoldInv'
  BY DEF HoldInv, HoldOf, Lasts, Calls, Silent, Speaks
<1>. QED
  BY <1>1, <1>2, <1>3, <1>4, <1>5

\* The mutex is free again.
LEMMA StopReturnsKeepsInv ==
  ASSUME EvInv, StopReturns
  PROVE  EvInv'
<1>1. /\ Aside
      /\ UNCHANGED <<session, captured, hotkey, chord, blurred>>
  BY DEF StopReturns, Aside, captureVars, recVars, EvInv, Types
<1>2. HotkeyInv'
  BY <1>1 DEF EvInv, HotkeyInv, Chosen, CaptureIsChord
<1>. QED
  BY <1>1, <1>2, AsideKeepsInv DEF EvInv, Types, ReaderInv, KnownInv

\* A capture session begins with nothing held, or it is blurred.
LEMMA CaptureOnceKeepsInv ==
  ASSUME EvInv, CaptureOnce
  PROVE  EvInv'
<1>1. /\ current = None /\ session' = [NoSession EXCEPT !.open = TRUE]
      /\ blurred' = (modDown # {})
      /\ UNCHANGED <<keyboardVars, current, starts, handle, mods, held, hotkey, chord, captured,
                     ptt, startedBy>>
  BY DEF CaptureOnce, providerVars, recVars
<1>2. session' = [open |-> TRUE, queue |-> <<>>, mods |-> {}]
  BY <1>1 DEF NoSession
<1>3. session' \in CaptureSession
  BY <1>2, EmptySeq DEF CaptureSession
<1>4. ~blurred' => Leads(session'.mods, session'.queue, modDown)
  <2>1. {} \in SUBSET Modifiers
    OBVIOUS
  <2>2. Leads({}, <<>>, {})
    BY <2>1, NothingLeads
  <2>. QED
    <3>1. ~blurred' => modDown = {}
      BY <1>1
    <3>2. session'.mods = {} /\ session'.queue = <<>>
      BY <1>2
    <3>. QED
      BY <2>2, <3>1, <3>2, Zenon
<1>5. HotkeyInv'
  BY <1>1 DEF EvInv, HotkeyInv, Chosen, CaptureIsChord
<1>6. Aside
  BY <1>1 DEF Aside, EvInv, Types
<1>. QED
  BY <1>1, <1>3, <1>4, <1>5, <1>6, AsideKeepsInv

\* What is captured names the modifiers that the session knows, and without a
\* blur these are the ones that the key was pressed with.
LEMMA ProcessKeyEventKeepsInv ==
  ASSUME EvInv, ProcessKeyEvent
  PROVE  EvInv'
<1>. DEFINE e == Head(session.queue)
            rest == Tail(session.queue)
            combo == BuildHotkeyString(BuildModifierState(session.mods), e.key)
<1>1. /\ session.open /\ session.queue # <<>>
      /\ UNCHANGED <<keyboardVars, current, starts, handle, mods, held, hotkey, chord, ptt,
                     startedBy, blurred>>
  BY DEF ProcessKeyEvent, providerVars, recVars
<1>2. Aside
  BY <1>1 DEF Aside, EvInv, Types
<1>3. /\ session \in CaptureSession /\ session.queue \in Seq(Event)
      /\ session.mods \in SUBSET Modifiers /\ current = None /\ HotkeyInv
      /\ ~blurred => Leads(session.mods, session.queue, modDown)
  BY <1>1 DEF EvInv, Types, CaptureSession, ReaderInv, KnownInv
<1>4. e \in Event /\ rest \in Seq(Event)
  BY <1>1, <1>3, HeadTailProperties
<1>5. ~blurred => /\ Leads(Knows(session.mods, e), rest, modDown)
                  /\ e.key \notin Modifiers /\ e.value = 1 => e.with = session.mods
  BY <1>1, <1>3, HeadLeads
<1>6. NoSession \in CaptureSession /\ ~NoSession.open
  BY EmptySeq DEF NoSession, CaptureSession
<1>7. captured' = captured => HotkeyInv'
  BY <1>1, <1>3 DEF HotkeyInv, Chosen, CaptureIsChord
<1>8. \/ /\ e.key \in Modifiers
         /\ session' = [session EXCEPT !.queue = rest, !.mods = Track(session.mods, e)]
         /\ captured' = captured
      \/ /\ e.key \notin Modifiers /\ session' = [session EXCEPT !.queue = rest]
         /\ captured' = captured
      \/ session' = NoSession /\ captured' = captured
      \/ /\ e.key \notin Modifiers /\ e.value = 1 /\ ValidateHotkey(combo) /\ session' = NoSession
         /\ captured' = [hotkey |-> combo, chord |-> IF blurred THEN session.mods ELSE e.with]
  BY <1>3 DEF ProcessKeyEvent, CaptureSession
<1>. HIDE DEF e, rest, combo
<1>9. CASE /\ e.key \in Modifiers
           /\ session' = [session EXCEPT !.queue = rest, !.mods = Track(session.mods, e)]
           /\ captured' = captured
  <2>1. /\ Track(session.mods, e) \in SUBSET Modifiers
        /\ Knows(session.mods, e) = Track(session.mods, e)
    BY <1>3, <1>9, TrackTypes DEF Knows
  <2>2. /\ session' \in CaptureSession /\ session'.queue = rest
        /\ session'.mods = Track(session.mods, e)
    BY <1>3, <1>4, <1>9, <2>1 DEF CaptureSession
  <2>. QED
    BY <1>1, <1>2, <1>3, <1>5, <1>7, <1>9, <2>1, <2>2, AsideKeepsInv
<1>10. CASE /\ e.key \notin Modifiers /\ session' = [session EXCEPT !.queue = rest]
            /\ captured' = captured
  <2>1. Knows(session.mods, e) = session.mods
    BY <1>10 DEF Knows
  <2>2. session' \in CaptureSession /\ session'.queue = rest /\ session'.mods = session.mods
    BY <1>3, <1>4, <1>10 DEF CaptureSession
  <2>. QED
    BY <1>1, <1>2, <1>3, <1>5, <1>7, <1>10, <2>1, <2>2, AsideKeepsInv
<1>11. CASE session' = NoSession /\ captured' = captured
  BY <1>1, <1>2, <1>6, <1>7, <1>11, AsideKeepsInv
<1>12. CASE /\ e.key \notin Modifiers /\ e.value = 1 /\ ValidateHotkey(combo) /\ session' = NoSession
            /\ captured' = [hotkey |-> combo, chord |-> IF blurred THEN session.mods ELSE e.with]
  <2>1. captured'.hotkey = combo /\ captured'.chord = session.mods
    BY <1>5, <1>12
  <2>2. e.key \in Keys
    BY <1>4, <1>12 DEF Event
  <2>3. LET named == UNION {KeysOf(mod) : mod \in ParseHotkey(combo).modifiers}
        IN /\ ChordOf(combo, session.mods)
           /\ \A pair \in Pairs : pair \cap named # {} <=> pair \cap session.mods # {}
           /\ combo = NormalizeHotkey(combo)
    BY <1>3, <2>2, CaptureNames DEF combo
  <2>4. Chosen(captured'.hotkey, captured'.chord)
    BY <1>3, <1>12, <2>1, <2>3 DEF Chosen
  <2>5. CaptureIsChord'
    BY <2>1, <2>3 DEF CaptureIsChord
  <2>6. HotkeyInv'
    BY <1>1, <1>3, <2>4, <2>5 DEF HotkeyInv, Chosen
  <2>. QED
    BY <1>1, <1>2, <1>6, <1>12, <2>6, AsideKeepsInv
<1>. QED
  BY <1>8, <1>9, <1>10, <1>11, <1>12

\* A capture that times out leaves nothing.
LEMMA CaptureTimesOutKeepsInv ==
  ASSUME EvInv, CaptureTimesOut
  PROVE  EvInv'
<1>1. /\ Aside /\ session' = NoSession
      /\ UNCHANGED <<captured, hotkey, chord>>
  BY DEF CaptureTimesOut, Aside, providerVars, recVars, EvInv, Types
<1>2. NoSession \in CaptureSession /\ ~NoSession.open
  BY EmptySeq DEF NoSession, CaptureSession
<1>3. HotkeyInv'
  BY <1>1 DEF EvInv, HotkeyInv, Chosen, CaptureIsChord
<1>. QED
  BY <1>1, <1>2, <1>3, AsideKeepsInv

\* A new provider knows nothing, and registers what was captured.
LEMMA RebindKeepsInv ==
  ASSUME EvInv, Rebind
  PROVE  EvInv'
<1>1. /\ captured # NoHotkey /\ current = None
      /\ hotkey' = captured.hotkey /\ chord' = captured.chord /\ captured' = NoHotkey
      /\ mods' = {} /\ UNCHANGED <<keyboardVars, current, starts, handle, session, ptt, startedBy,
                                   blurred>>
  BY DEF Rebind, recVars
<1>2. Aside
  BY <1>1 DEF Aside, EvInv, Types
<1>3. HotkeyInv'
  BY <1>1 DEF EvInv, HotkeyInv, Chosen, CaptureIsChord
<1>. QED
  BY <1>1, <1>2, <1>3, AsideKeepsInv DEF EvInv, Types, ReaderInv, KnownInv

\* What was captured is forgotten.
LEMMA RebindFailsKeepsInv ==
  ASSUME EvInv, RebindFails
  PROVE  EvInv'
<1>1. Aside /\ captured' = NoHotkey /\ UNCHANGED <<session, hotkey, chord, blurred>>
  BY DEF RebindFails, Aside, providerVars, recVars, EvInv, Types
<1>2. HotkeyInv'
  BY <1>1 DEF EvInv, HotkeyInv, Chosen, CaptureIsChord
<1>. QED
  BY <1>1, <1>2, AsideKeepsInv DEF EvInv, Types, ReaderInv, KnownInv

(***************************************************************************)
(* The theorems                                                            *)
(***************************************************************************)

\* Nothing has been read, captured, or recorded.
LEMMA InitInv ==
  ASSUME Init
  PROVE  EvInv
<1>1. /\ Idle("unused") \in Handle /\ Idle("unused").at = "unused"
      /\ NoSession \in CaptureSession /\ ~NoSession.open
  BY EmptySeq DEF Idle, Handle, NoSession, CaptureSession
<1>2. /\ handle \in [Handles -> Handle] /\ \A h \in Handles : handle[h].at = "unused"
      /\ session \in CaptureSession /\ ~session.open /\ current = None
  BY <1>1 DEF Init
<1>3. Types /\ ReaderInv
  BY <1>2 DEF Init, Types, ReaderInv
<1>4. KnownInv /\ TellInv /\ HoldInv
  BY <1>2 DEF Init, KnownInv, TellInv, HoldInv, None
<1>5. HotkeyInv
  BY RecChordAssumption, ProviderAssumption DEF Init, HotkeyInv, Chosen, CaptureIsChord
<1>. QED
  BY <1>3, <1>4, <1>5 DEF EvInv

\* Nothing happens.
LEMMA StutterKeepsInv ==
  ASSUME EvInv, UNCHANGED vars
  PROVE  EvInv'
<1>1. /\ Aside
      /\ UNCHANGED <<session, captured, hotkey, chord, blurred>>
  BY DEF vars, Aside, keyboardVars, providerVars, captureVars, recVars, EvInv, Types
<1>2. HotkeyInv'
  BY <1>1 DEF EvInv, HotkeyInv, Chosen, CaptureIsChord
<1>. QED
  BY <1>1, <1>2, AsideKeepsInv DEF EvInv, Types, ReaderInv, KnownInv

\* Every reachable state of the provider satisfies the invariant: what each
\* reader knows, with what it has yet to read, is what the keyboard holds.
THEOREM ProviderSafety == Spec => []EvInv
<1>1. Init => EvInv
  BY InitInv
<1>2. EvInv /\ [Next]_vars => EvInv'
  <2>. SUFFICES ASSUME EvInv, [Next]_vars PROVE EvInv'
    OBVIOUS
  <2>1. ASSUME Keyboard PROVE EvInv'
    BY <2>1, KeyboardKeepsInv
  <2>2. ASSUME Start PROVE EvInv'
    BY <2>2, StartKeepsInv
  <2>3. ASSUME Stop PROVE EvInv'
    BY <2>3, StopKeepsInv
  <2>4. ASSUME StopReturns PROVE EvInv'
    BY <2>4, StopReturnsKeepsInv
  <2>5. ASSUME Capture PROVE EvInv'
    BY <2>5, CaptureOnceKeepsInv, ProcessKeyEventKeepsInv, CaptureTimesOutKeepsInv,
       RebindKeepsInv, RebindFailsKeepsInv DEF Capture
  <2>6. ASSUME NEW h \in Handles, Listener(h) PROVE EvInv'
    BY <2>6, ListenerKeepsInv
  <2>7. ASSUME UNCHANGED vars PROVE EvInv'
    BY <2>7, StutterKeepsInv
  <2>. QED
    BY <2>1, <2>2, <2>3, <2>4, <2>5, <2>6, <2>7 DEF Next
<1>. QED
  BY <1>1, <1>2, PTL DEF Spec

\* Push-to-talk: a recording that a hold started goes on no longer than the hold,
\* whatever is let go first and whatever repeats, as long as its listener is not
\* stopped under it (handleKeyEvent's releases need no modifiers).
THEOREM HoldsEnd == Spec => []HoldEnds
<1>1. EvInv => HoldEnds
  <2>. SUFFICES ASSUME EvInv, NEW h \in Handles, Quiet(h), startedBy = h
                PROVE  ParseHotkey(hotkey).key \in keyDown
    BY DEF HoldEnds
  <2>. DEFINE key == ParseHotkey(hotkey).key
  <2>1. h = current /\ handle[h].at = "read" /\ handle[h].queue = <<>>
    BY DEF Quiet
  <2>2. Lasts(handle[h])
    BY <2>1, OpenHandle DEF HoldOf
  <2>3. Silent(handle[h].queue, key)
    BY <2>1, NothingTells
  <2>. QED
    BY <2>1, <2>2, <2>3 DEF Lasts, Calls
<1>. QED
  BY <1>1, ProviderSafety, PTL

\* What a capture returns names the modifiers that were held, all and no other,
\* and is normalized, as long as none was held from before the capture or had
\* repeated (processKeyEvent, BuildModifierState, NormalizeHotkey).
THEOREM CapturesAreChords == Spec => []CaptureIsChord
<1>1. EvInv => CaptureIsChord
  BY DEF EvInv, HotkeyInv
<1>. QED
  BY <1>1, ProviderSafety, PTL

\* The recording hotkey fires when its key is pressed with the modifiers it was
\* chosen with, and not without one of them on either side, as long as the
\* listener knows the modifiers (handleKeyEvent, IsModifierPressed).
THEOREM ChordsFire == Spec => []ChordFires
<1>1. EvInv => ChordFires
  <2>. SUFFICES ASSUME EvInv, NEW h \in Handles, h = current, handle[h].at = "handle", ~blurred,
                       handle[h].event.value = 1,
                       handle[h].event.key = ParseHotkey(hotkey).key
                PROVE  LET e == handle[h].event
                       IN /\ chord \subseteq e.with => Fires(hotkey, e)
                          /\ Fires(hotkey, e) =>
                               \A pair \in Pairs : pair \cap chord # {} => pair \cap e.with # {}
    BY DEF ChordFires
  <2>. DEFINE e == handle[h].event
              modifiers == ParseHotkey(hotkey).modifiers
  <2>1. e.with = mods
    BY OpenHandle DEF ListenerKnows
  <2>2. /\ \A mod \in modifiers : KeysOf(mod) \cap chord # {}
        /\ \A pair \in Pairs :
             pair \cap chord # {} => \E mod \in modifiers : KeysOf(mod) \subseteq pair
    BY DEF EvInv, HotkeyInv, Chosen, ChordOf
  <2>3. Fires(hotkey, e) <=> \A mod \in modifiers : KeysOf(mod) \cap mods # {}
    BY DEF Fires, AllModifiersPressed, IsModifierPressed
  <2>4. chord \subseteq mods => Fires(hotkey, e)
    BY <2>2, <2>3
  <2>5. Fires(hotkey, e) => \A pair \in Pairs : pair \cap chord # {} => pair \cap mods # {}
    BY <2>2, <2>3
  <2>. QED
    BY <2>1, <2>4, <2>5
<1>. QED
  BY <1>1, ProviderSafety, PTL

\* What the types add to the invariant: what has no reader is empty, and every
\* handle up to the latest has been used.
QueueInv ==
  \A h \in Handles : /\ Len(handle[h].queue) <= MaxQueue
                     /\ h # current => handle[h].queue = <<>>
                     /\ handle[h].at = "unused" <=> h > starts

FlagInv == stopping \in BOOLEAN /\ rec \in BOOLEAN /\ held \subseteq {hotkey, ActHotkey}

\* The flags keep their types.
LEMMA FlagStep ==
  ASSUME FlagInv, [Next]_vars
  PROVE  FlagInv'
<1>. USE DEF FlagInv, keyboardVars, providerVars, captureVars, recVars
<1>1. CASE Keyboard
  BY <1>1 DEF Keyboard, PressModifier, ReleaseModifier, PressKey, ReleaseKey, Autorepeat, Feed
<1>2. CASE Start \/ Stop \/ StopReturns
  BY <1>2 DEF Start, Stop, StopReturns
<1>3. CASE Capture
  BY <1>3 DEF Capture, CaptureOnce, ProcessKeyEvent, CaptureTimesOut, Rebind, RebindFails
<1>4. ASSUME NEW h \in Handles, Listener(h) PROVE FlagInv'
  <2>1. CASE FireHotkeys(h)
    BY <2>1 DEF FireHotkeys, Firing
  <2>2. CASE RecordingHotkey(h)
    BY <2>2 DEF RecordingHotkey, StartRecording, StopRecording
  <2>3. CASE ReadOne(h) \/ TrackModifier(h) \/ SkipEvent(h) \/ ActionHotkey(h) \/ ListenerExits(h)
    BY <2>3 DEF ReadOne, TrackModifier, SkipEvent, ActionHotkey, ListenerExits
  <2>. QED
    BY <1>4, <2>1, <2>2, <2>3 DEF Listener
<1>. QED
  BY <1>1, <1>2, <1>3, <1>4 DEF Next, vars

\* A step that changes one used handle and leaves it so keeps QueueInv.
LEMMA BecomesKeepsQueues ==
  ASSUME EvInv, QueueInv, NEW h \in Handles, NEW r, Becomes(h, r), handle[h].at # "unused",
         r.at # "unused", UNCHANGED <<current, starts>>,
         r.queue = handle[h].queue \/ r.queue = <<>>
           \/ (h = current /\ handle[h].queue # <<>> /\ r.queue = Tail(handle[h].queue))
  PROVE  QueueInv'
<1>1. handle'[h] = r /\ \A g \in Handles \ {h} : handle'[g] = handle[g]
  BY DEF Becomes
<1>2. MaxQueue \in Nat /\ Len(<<>>) = 0
  BY ProviderAssumption
<1>3. handle[h].queue \in Seq(Event)
  BY DEF EvInv, Types, Handle
<1>4. /\ Len(r.queue) <= MaxQueue
      /\ h # current => r.queue = <<>>
  <2>1. CASE r.queue = handle[h].queue
    BY <2>1 DEF QueueInv
  <2>2. CASE r.queue = <<>>
    BY <1>2, <2>2
  <2>3. CASE h = current /\ handle[h].queue # <<>> /\ r.queue = Tail(handle[h].queue)
    <3>1. Len(r.queue) = Len(handle[h].queue) - 1 /\ Len(handle[h].queue) \in Nat
      BY <1>3, <2>3, HeadTailProperties, LenProperties
    <3>. QED
      BY <1>2, <2>3, <3>1 DEF QueueInv
  <2>. QED
    BY <2>1, <2>2, <2>3
<1>. QED
  BY <1>1, <1>4 DEF QueueInv

\* The listeners keep it.
LEMMA ListenerKeepsQueues ==
  ASSUME EvInv, QueueInv, NEW h \in Handles, Listener(h)
  PROVE  QueueInv'
<1>. USE DEF providerVars
<1>1. CASE ReadOne(h)
  <2>1. /\ handle[h].at # "unused" /\ UNCHANGED <<current, starts>>
        /\ h = current /\ handle[h].queue # <<>>
    BY <1>1 DEF ReadOne
  <2>2. PICK r \in Handle : Becomes(h, r) /\ r.at = "handle" /\ r.queue = Tail(handle[h].queue)
    BY <1>1, ReadOneDoes
  <2>. QED
    BY <2>1, <2>2, BecomesKeepsQueues
<1>2. CASE TrackModifier(h) \/ SkipEvent(h)
  <2>1. handle[h].at # "unused" /\ UNCHANGED <<current, starts>> /\ Handled(h)
    BY <1>2 DEF TrackModifier, SkipEvent, Handling
  <2>2. PICK r \in Handle : Becomes(h, r) /\ r.at = "read" /\ r.queue = handle[h].queue
    BY <2>1, HandledDoes
  <2>. QED
    BY <2>1, <2>2, BecomesKeepsQueues
<1>3. CASE FireHotkeys(h)
  <2>1. handle[h].at # "unused" /\ UNCHANGED <<current, starts>>
    BY <1>3 DEF FireHotkeys, Handling
  <2>2. PICK r \in Handle : Becomes(h, r) /\ r.at = "call" /\ r.queue = handle[h].queue
    BY <1>3, FireHotkeysDoes
  <2>. QED
    BY <2>1, <2>2, BecomesKeepsQueues
<1>4. CASE RecordingHotkey(h) \/ ActionHotkey(h)
  <2>1. PICK callback \in {"rec", "act"} :
          handle[h].at = "call" /\ UNCHANGED <<current, starts>> /\ Called(h, callback)
    BY <1>4 DEF RecordingHotkey, ActionHotkey
  <2>2. PICK r \in Handle : CallDone(h, callback, r)
    BY <2>1, CalledDoes
  <2>3. Becomes(h, r) /\ r.at # "unused" /\ r.queue = handle[h].queue
    BY <2>2 DEF CallDone
  <2>. QED
    BY <2>1, <2>3, BecomesKeepsQueues
<1>5. CASE ListenerExits(h)
  <2>1. handle[h].at # "unused" /\ UNCHANGED <<current, starts>>
    BY <1>5 DEF ListenerExits
  <2>2. Becomes(h, Idle("gone")) /\ Idle("gone").at = "gone" /\ Idle("gone").queue = <<>>
    BY <1>5, ListenerExitsDoes DEF Idle
  <2>. QED
    BY <2>1, <2>2, BecomesKeepsQueues
<1>. QED
  BY <1>1, <1>2, <1>3, <1>4, <1>5 DEF Listener

\* And so do all steps: only the keyboard fills a queue, and only up to its bound.
LEMMA QueueStep ==
  ASSUME EvInv, QueueInv, [Next]_vars
  PROVE  QueueInv'
<1>. USE DEF providerVars
<1>0. /\ current # None => current \in Handles
      /\ handle \in [Handles -> Handle] /\ MaxQueue \in Nat /\ Len(<<>>) = 0
  BY ProviderAssumption DEF EvInv, Types
<1>1. CASE Keyboard
  <2>1. PICK e \in Event : Feed(e.key, e.value, e.with)
    BY <1>1, KeyboardFeeds DEF EvInv
  <2>2. /\ \A h \in Handles : /\ h # current => handle'[h] = handle[h]
                              /\ handle'[h].at = handle[h].at
        /\ current # None => handle'[current].queue = Append(handle[current].queue, e)
    BY <2>1, FeedAppends DEF EvInv
  <2>3. /\ UNCHANGED <<current, starts>>
        /\ current # None => Len(handle[current].queue) < MaxQueue
    BY <2>1 DEF Feed
  <2>4. current # None => Len(handle'[current].queue) <= MaxQueue
    <3>. SUFFICES ASSUME current # None PROVE Len(handle'[current].queue) <= MaxQueue
      OBVIOUS
    <3>1. handle[current].queue \in Seq(Event)
      BY <1>0 DEF Handle
    <3>2. Len(handle'[current].queue) = Len(handle[current].queue) + 1
          /\ Len(handle[current].queue) \in Nat
      BY <2>2, <3>1, AppendProperties, LenProperties
    <3>. QED
      BY <1>0, <2>3, <3>2
  <2>5. ASSUME NEW h \in Handles
        PROVE  /\ Len(handle'[h].queue) <= MaxQueue
               /\ h # current => handle'[h].queue = <<>>
               /\ handle'[h].at = "unused" <=> h > starts
    <3>1. CASE h = current
      BY <2>2, <2>4, <3>1, ProviderAssumption DEF QueueInv, None, Handles
    <3>2. CASE h # current
      BY <2>2, <3>2 DEF QueueInv
    <3>. QED
      BY <3>1, <3>2
  <2>. QED
    BY <2>3, <2>5 DEF QueueInv
<1>2. CASE Start
  <2>1. /\ starts' = starts + 1 /\ current' = starts + 1 /\ current = None
        /\ handle' = [handle EXCEPT ![starts + 1] = Idle("read")]
        /\ starts + 1 \in Handles /\ starts \in Nat
    BY <1>2, ProviderAssumption DEF Start, EvInv, Types, None, Handles
  <2>2. Idle("read").at = "read" /\ Idle("read").queue = <<>>
    BY DEF Idle
  <2>3. ASSUME NEW h \in Handles
        PROVE  /\ Len(handle'[h].queue) <= MaxQueue
               /\ h # starts + 1 => handle'[h].queue = <<>>
               /\ handle'[h].at = "unused" <=> h > starts + 1
    <3>1. CASE h = starts + 1
      BY <1>0, <2>1, <2>2, <3>1
    <3>2. CASE h # starts + 1
      <4>1. handle'[h] = handle[h] /\ h # current
        BY <1>0, <2>1, <3>2, ProviderAssumption DEF Handles, None
      <4>. QED
        BY <2>1, <3>2, <4>1 DEF QueueInv, Handles
    <3>. QED
      BY <3>1, <3>2
  <2>. QED
    BY <2>1, <2>3 DEF QueueInv
<1>3. CASE Stop
  <2>1. /\ current # None /\ current' = None /\ starts' = starts
        /\ handle' = [handle EXCEPT ![current].queue = <<>>]
    BY <1>3 DEF Stop
  <2>2. \A h \in Handles : /\ handle'[h].at = handle[h].at
                           /\ h = current => handle'[h].queue = <<>>
                           /\ h # current => handle'[h].queue = handle[h].queue
    BY <1>0, <2>1 DEF Handle
  <2>. QED
    BY <1>0, <2>1, <2>2 DEF QueueInv
<1>4. CASE StopReturns \/ Capture \/ UNCHANGED vars
  <2>1. UNCHANGED <<current, starts, handle>>
    BY <1>4 DEF StopReturns, Capture, CaptureOnce, ProcessKeyEvent, CaptureTimesOut, Rebind,
                RebindFails, vars
  <2>. QED
    BY <2>1 DEF QueueInv
<1>. QED
  BY <1>1, <1>2, <1>3, <1>4, ListenerKeepsQueues DEF Next

\* Every variable keeps its type; the open handle is the latest, nothing is left
\* to read in a closed one, no more than MaxQueue events wait in the open one, and
\* nobody listens during a capture.
THEOREM ProviderTypes == Spec => []TypeOK
<1>1. Init => QueueInv /\ FlagInv
  <2>1. Idle("unused").at = "unused" /\ Idle("unused").queue = <<>> /\ Len(<<>>) = 0
    BY DEF Idle
  <2>2. Init => FlagInv
    BY DEF Init, FlagInv
  <2>3. \A h \in Handles : h > None /\ 0 <= MaxQueue
    BY ProviderAssumption DEF Handles, None
  <2>4. Init => starts = None /\ \A h \in Handles : handle[h] = Idle("unused")
    BY DEF Init
  <2>5. Init => QueueInv
    BY <2>1, <2>3, <2>4 DEF QueueInv
  <2>. QED
    BY <2>2, <2>5
<1>2. EvInv /\ QueueInv /\ FlagInv /\ [Next]_vars => QueueInv' /\ FlagInv'
  BY QueueStep, FlagStep
<1>3. EvInv /\ QueueInv /\ FlagInv => TypeOK
  <2>. SUFFICES ASSUME EvInv, QueueInv, FlagInv PROVE TypeOK
    OBVIOUS
  <2>1. chord \subseteq Modifiers /\ captured.chord \subseteq Modifiers
    BY DEF EvInv, HotkeyInv, Chosen, NoHotkey
  <2>2. startedBy \in Handles \cup {None}
    BY ProviderAssumption DEF EvInv, Types, HoldInv, Handles, None
  <2>. QED
    BY <2>1, <2>2 DEF TypeOK, EvInv, Types, ReaderInv, QueueInv, FlagInv, CaptureSession
<1>. QED
  BY <1>1, <1>2, <1>3, ProviderSafety, PTL DEF Spec
=============================================================================
