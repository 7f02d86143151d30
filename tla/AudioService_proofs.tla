------------------------ MODULE AudioService_proofs ------------------------
(***************************************************************************)
(* Theorems about AudioService, for every set of clients and every bound,  *)
(* and that it implements RecordingSession.                                *)
(***************************************************************************)
EXTENDS AudioService, TLAPS

USE DEF Recordings, NoRec, NoProc, NoFile, NoAudio, Paths, NoText, NoCh, Texts, Engines,
        vars, recorderVars, processVars, fileVars, ioVars, clientVars, taskVars, engineVars,
        sessionVars, appVars

(***************************************************************************)
(* What the operations of Recorder do to RecorderTypeOK                    *)
(***************************************************************************)

\* The recorder starts well-typed.
LEMMA RecorderInitType == RecorderInit => RecorderTypeOK
  BY MaxRecAssumption DEF RecorderInit, RecorderTypeOK

\* A step that leaves the recorder alone keeps its type.
LEMMA RecorderUnchanged == RecorderTypeOK /\ UNCHANGED recorderVars => RecorderTypeOK'
  BY DEF RecorderTypeOK

\* A StartRecording attempt takes the next number and a legal path.
LEMMA AttemptType ==
  ASSUME RecorderTypeOK, NEW p \in NameChoices, Attempt(p)
  PROVE  /\ nrec' \in 0..MaxRec /\ lastSec' \in 0..MaxRec /\ outFile' \in Paths
         /\ pathOf' \in [Recordings -> Paths \cup {NoFile}]
         /\ files' \in SUBSET Paths
         /\ audio' \in [Paths -> Recordings \cup {NoAudio}]
         /\ NextRec \in Recordings
<1>1. p \in Paths
  BY DEF NameChoices
<1>2. NextRec \in Recordings
  BY MaxRecAssumption DEF Attempt, NextRec, RecorderTypeOK
<1>3. nrec' \in 0..MaxRec
  BY <1>2, MaxRecAssumption DEF Attempt
<1>4. lastSec' \in 0..MaxRec /\ outFile' \in Paths
  BY <1>1, MaxRecAssumption DEF Attempt, CreateTempWav
<1>5. pathOf' \in [Recordings -> Paths \cup {NoFile}]
  BY <1>1, <1>2 DEF Attempt, RecorderTypeOK
<1>6. files' \in SUBSET Paths
  BY <1>1 DEF Attempt, CreateTempWav, RecorderTypeOK
<1>7. audio' \in [Paths -> Recordings \cup {NoAudio}]
  BY <1>1 DEF Attempt, CreateTempWav, RecorderTypeOK
<1>. QED  BY <1>1, <1>2, <1>3, <1>4, <1>5, <1>6, <1>7

\* All four outcomes of StartRecording keep the recorder's type.
LEMMA StartType ==
  ASSUME RecorderTypeOK, NEW h \in Recordings \cup {NoProc}, NEW f \in Paths \cup {NoFile},
         StartSucceeds(h) \/ StartFailsLate(h) \/ StartFailsEarly(h, f)
  PROVE  RecorderTypeOK'
<1>1. CASE StartSucceeds(h)
  BY <1>1, AttemptType DEF StartSucceeds, RecorderTypeOK
<1>2. CASE StartFailsLate(h)
  BY <1>2, AttemptType DEF StartFailsLate, RecorderTypeOK
<1>3. CASE StartFailsEarly(h, f)
  BY <1>3 DEF StartFailsEarly, RecorderTypeOK
<1>. QED  BY <1>1, <1>2, <1>3

\* Removing files keeps the type of the file system.
LEMMA FilesType ==
  ASSUME RecorderTypeOK, UNCHANGED processVars, NEW p, RemoveFile(p) \/ CleanupAll
  PROVE  RecorderTypeOK'
  BY DEF RemoveFile, CleanupAll, RecorderTypeOK

\* StopRecording's reaping keeps the recorder's type.
LEMMA ReapType ==
  ASSUME RecorderTypeOK, ReapProcess, UNCHANGED fileVars \/ CleanupFile
  PROVE  RecorderTypeOK'
  BY DEF ReapProcess, CleanupFile, RemoveFile, RecorderTypeOK

\* So do the writes and the death of the capture process.
LEMMA CaptureType ==
  ASSUME RecorderTypeOK, NEW r \in Recordings, ProcessWrites(r) \/ ProcessDies(r)
  PROVE  RecorderTypeOK'
  BY DEF ProcessWrites, ProcessDies, RecorderTypeOK

(***************************************************************************)
(* What the operations of IOSession do to IOTypeOK                         *)
(***************************************************************************)

\* The rendezvous starts well-typed.
LEMMA IOInitType == IOInit => IOTypeOK
  BY MaxRecAssumption DEF IOInit, IOTypeOK, Buffers

\* A step that leaves the rendezvous alone keeps its type.
LEMMA IOUnchanged == IOTypeOK /\ UNCHANGED ioVars => IOTypeOK'
  BY DEF IOTypeOK

\* BeginTranscription makes an empty channel.
LEMMA BeginType ==
  ASSUME IOTypeOK, NEW r \in Recordings, BeginTranscription(r) PROVE IOTypeOK'
  BY DEF BeginTranscription, IOTypeOK, Buffers

\* CompleteTranscription never sends into a full channel.
LEMMA CompleteType ==
  ASSUME IOTypeOK, NEW t \in Texts, CompleteTranscription(t) PROVE IOTypeOK'
  BY DEF CompleteTranscription, IOTypeOK, Buffers

\* Receiving empties the channel.
LEMMA ReceiveType ==
  ASSUME IOTypeOK, NEW k \in Recordings \cup {NoCh}, Receive(k) PROVE IOTypeOK'
  BY DEF Receive, IOTypeOK, Buffers

\* A timeout only clears the flag.
LEMMA TimeoutType == IOTypeOK /\ WaitTimesOut => IOTypeOK'
  BY DEF WaitTimesOut, IOTypeOK

(***************************************************************************)
(* Places and the types of the service                                     *)
(***************************************************************************)

\* Where a client holds a captured recording, and where it holds an engine.
Holding   == {"begin", "spawn", "syncCheck", "syncWait"}
Switching == {"load", "lock", "swap", "close"}

PlaceInv ==
  \A c \in Clients : /\ sess[c] # NoRec <=> pc[c] \in Holding
                     /\ pc[c] \in Switching => c \in Switchers

\* A connection's retry counter stays within maxRetries.
LEMMA RetryType ==
  ASSUME ServiceTypeOK, NEW c \in Clients, RetryOrFail(c) \/ Succeed(c)
  PROVE  /\ pc' \in [Clients -> PC]
         /\ retries' \in [Clients -> 0..MaxRetries]
<1>1. retries[c] \in 0..MaxRetries /\ MaxRetries \in Nat
  BY ClientsAssumption DEF ServiceTypeOK
<1>2. AfterStart(c) \in PC
  BY DEF AfterStart, PC
<1>3. CASE Succeed(c)
  BY <1>1, <1>2, <1>3 DEF Succeed, Goto, ServiceTypeOK
<1>4. CASE ~Succeed(c)
  <2>1. retries[c] < MaxRetries /\ retries' = [retries EXCEPT ![c] = @ + 1] /\ UNCHANGED pc
    BY <1>4 DEF RetryOrFail
  <2>2. retries[c] + 1 \in 0..MaxRetries
    BY <1>1, <2>1
  <2>. QED  BY <2>1, <2>2 DEF ServiceTypeOK
<1>. QED  BY <1>3, <1>4

\* The triggers keep the service's own variables typed.
LEMMA TriggerTypes ==
  ASSUME TypeOK, NEW c \in Clients, Trigger(c)
  PROVE  ServiceTypeOK'
  BY DEF Trigger, ToggleRecording, PressHotkey, ReleaseHotkey, RequestStart, RequestStop,
         UpdateRecordingMethod, SwitchModel, Call, Move, Goto, TypeOK, ServiceTypeOK, PC

\* So do the handlers ...
LEMMA HandlerTypes ==
  ASSUME TypeOK, PlaceInv, NEW c \in Clients, Handler(c)
  PROVE  ServiceTypeOK'
<1>. USE DEF TypeOK, ServiceTypeOK, PC
<1>1. CASE StartIgnored(c) \/ HandleStartRecording(c) \/ StartFails(c) \/ StartWithoutModel(c)
  <2>1. /\ pc' \in [Clients -> PC]
        /\ retries' \in [Clients -> 0..MaxRetries]
    BY <1>1, RetryType DEF StartIgnored, HandleStartRecording, StartFails, StartWithoutModel
  <2>2. CASE StartIgnored(c) \/ StartWithoutModel(c)
    BY <2>1, <2>2 DEF StartIgnored, StartWithoutModel
  <2>3. CASE HandleStartRecording(c) \/ StartFails(c)
    BY <2>1, <2>3 DEF HandleStartRecording, StartFails, SetRecordingState
  <2>. QED  BY <1>1, <2>2, <2>3
<1>2. CASE StopCaptures(c)
  <2>1. cmd \in Recordings \cup {NoRec}
    BY DEF RecorderTypeOK
  <2>. QED  BY <1>2, <2>1 DEF StopCaptures, Goto, SetRecordingState
<1>10. CASE StopNotRecording(c) \/ StopTooShort(c)
  BY <1>10 DEF StopNotRecording, StopTooShort, Move, Goto, AfterEmptyStop, SetRecordingState
<1>3. CASE StopFails(c)
  BY <1>3 DEF StopFails, Goto, AfterEmptyStop, SetRecordingState
<1>4. CASE SkipTranscription(c) \/ BeginSession(c) \/ SpawnTask(c) \/ TranscribeSync(c)
  BY <1>4 DEF SkipTranscription, BeginSession, SpawnTask, TranscribeSync, Goto, AfterStop
<1>5. CASE ReplyAtOnce(c) \/ StartWaiting(c) \/ ReplyTranscript(c) \/ ReplyTimeout(c)
  BY <1>5 DEF ReplyAtOnce, StartWaiting, ReplyTranscript, ReplyTimeout, Move, Goto, IOTypeOK
<1>6. CASE ReturnSync(c)
  <2>1. sess[c] \in Recordings
    BY <1>6 DEF ReturnSync, PlaceInv, Holding, At
  <2>2. lastTranscript' \in Texts
    BY <1>6, <2>1 DEF ReturnSync
  <2>. QED  BY <1>6, <2>2 DEF ReturnSync, Goto
<1>7. CASE LoadEngine(c)
  <2>1. nEng + 1 \in Engines
    BY <1>7, ClientsAssumption DEF LoadEngine
  <2>. QED  BY <1>7, <2>1 DEF LoadEngine, Goto
<1>8. CASE ClearSession(c) \/ LoadEngineFails(c) \/ LockForSwap(c)
  BY <1>8 DEF ClearSession, LoadEngineFails, LockForSwap, Move, Goto
<1>9. CASE RejectSwap(c) \/ CloseOldEngine(c)
  BY <1>9 DEF RejectSwap, CloseOldEngine, Goto
<1>11. CASE SwapEngine(c)
  BY <1>11 DEF SwapEngine, Goto
<1>. QED  BY <1>1, <1>2, <1>3, <1>4, <1>5, <1>6, <1>7, <1>8, <1>9,
          <1>10, <1>11 DEF Handler

\* ... the transcription goroutines and the capture process ...
LEMMA GoroutineTypes ==
  ASSUME TypeOK, NEW r \in Recordings, EngineCall(r) \/ Task(r) \/ Capture(r)
  PROVE  ServiceTypeOK'
<1>. USE DEF TypeOK, ServiceTypeOK
<1>1. CASE EngineCall(r)
  <2>1. CASE LoadAudio(r)
    BY <2>1 DEF LoadAudio, Readable, RecorderTypeOK
  <2>2. CASE LoadFails(r) \/ EngineReturns(r)
    BY <2>2 DEF LoadFails, EngineReturns, Results
  <2>. QED  BY <1>1, <2>1, <2>2 DEF EngineCall
<1>2. CASE Task(r)
  BY <1>2 DEF Task, TakeResult, HandleTranscriptionError, StoreTranscript,
              HandleEmptyTranscript, OutputSucceeds, OutputFails,
              HandleTranscriptionCancellation
<1>3. CASE Capture(r)
  BY <1>3 DEF Capture
<1>. QED  BY <1>1, <1>2, <1>3

\* ... and the shutdown sequence.
LEMMA ShutdownTypes ==
  ASSUME TypeOK, Shutdown
  PROVE  ServiceTypeOK'
  BY DEF Shutdown, StopIPC, CancelAudio, AudioShutdownReturns, StopUIAndIO, StopHotkeys,
         CleanupAndExit, Advance, UnchangedByShutdown, TypeOK, ServiceTypeOK, Stages

\* Every step keeps the recorder's type.
LEMMA RecorderTypes ==
  ASSUME TypeOK, [Next]_vars
  PROVE  RecorderTypeOK'
<1>. USE RecorderUnchanged DEF TypeOK
<1>1. CASE UNCHANGED vars
  BY <1>1
<1>2. ASSUME NEW c \in Clients, Trigger(c) PROVE RecorderTypeOK'
  BY <1>2 DEF Trigger, ToggleRecording, PressHotkey, ReleaseHotkey, RequestStart, RequestStop,
         UpdateRecordingMethod, SwitchModel, Call, Move
<1>3. ASSUME NEW c \in Clients, Handler(c) PROVE RecorderTypeOK'
  <2>1. CASE HandleStartRecording(c) \/ StartFails(c)
    <3>1. HeldProcess \in Recordings \cup {NoProc} /\ HeldFile \in Paths \cup {NoFile}
      BY DEF HeldProcess, HeldFile, RecorderTypeOK
    <3>. QED  BY <2>1, <3>1, StartType DEF HandleStartRecording, StartFails
  <2>2. CASE StopCaptures(c) \/ StopTooShort(c) \/ StopFails(c)
    BY <2>2, ReapType DEF StopCaptures, StopTooShort, StopFails
  <2>3. CASE ReturnSync(c) \/ ClearSession(c)
    BY <2>3, FilesType DEF ReturnSync, ClearSession, CleanupFile
  <2>4. CASE UNCHANGED recorderVars
    BY <2>4
  <2>. QED
    BY <1>3, <2>1, <2>2, <2>3, <2>4
    DEF Handler, StartIgnored, StartWithoutModel, StopNotRecording, SkipTranscription,
        BeginSession, SpawnTask, ReplyAtOnce, StartWaiting, ReplyTranscript, ReplyTimeout,
        TranscribeSync, LoadEngine, LoadEngineFails, LockForSwap, RejectSwap, SwapEngine,
        CloseOldEngine, Move
<1>4. ASSUME NEW r \in Recordings, EngineCall(r) \/ Task(r) \/ Capture(r)
      PROVE  RecorderTypeOK'
  <2>1. CASE TakeResult(r) \/ HandleTranscriptionError(r)
    BY <2>1, FilesType DEF TakeResult, HandleTranscriptionError
  <2>2. CASE Capture(r)
    BY <2>2, CaptureType DEF Capture
  <2>3. CASE UNCHANGED recorderVars
    BY <2>3
  <2>. QED
    BY <1>4, <2>1, <2>2, <2>3
    DEF EngineCall, LoadAudio, LoadFails, EngineReturns, Task, StoreTranscript,
        HandleEmptyTranscript, OutputSucceeds, OutputFails, HandleTranscriptionCancellation
<1>5. ASSUME NEW p \in Paths, CleanupOldFile(p) PROVE RecorderTypeOK'
  BY <1>5, FilesType DEF CleanupOldFile
<1>6. CASE Shutdown
  BY <1>6, FilesType, ReapType
  DEF Shutdown, StopIPC, CancelAudio, AudioShutdownReturns, StopUIAndIO, StopHotkeys,
      CleanupAndExit
<1>. QED  BY <1>1, <1>2, <1>3, <1>4, <1>5, <1>6 DEF Next

\* Every step keeps the rendezvous' type.
LEMMA IOTypes ==
  ASSUME TypeOK, PlaceInv, [Next]_vars
  PROVE  IOTypeOK'
<1>. USE IOUnchanged DEF TypeOK
<1>1. CASE UNCHANGED vars
  BY <1>1
<1>2. ASSUME NEW c \in Clients, Trigger(c) PROVE IOTypeOK'
  BY <1>2 DEF Trigger, ToggleRecording, PressHotkey, ReleaseHotkey, RequestStart, RequestStop,
         UpdateRecordingMethod, SwitchModel, Call, Move
<1>3. ASSUME NEW c \in Clients, Handler(c) PROVE IOTypeOK'
  <2>1. CASE BeginSession(c)
    <3>1. sess[c] \in Recordings
      BY <2>1 DEF BeginSession, PlaceInv, Holding, At, ServiceTypeOK
    <3>. QED  BY <2>1, <3>1, BeginType DEF BeginSession
  <2>2. CASE ReplyTranscript(c) \/ ReplyTimeout(c)
    BY <2>2, ReceiveType, TimeoutType DEF ReplyTranscript, ReplyTimeout, ServiceTypeOK
  <2>3. CASE UNCHANGED ioVars
    BY <2>3
  <2>. QED
    BY <1>3, <2>1, <2>2, <2>3
    DEF Handler, StartIgnored, HandleStartRecording, StartFails, StartWithoutModel,
        StopNotRecording, StopCaptures, StopTooShort, StopFails, SkipTranscription,
        SpawnTask, ReplyAtOnce, StartWaiting, TranscribeSync, ReturnSync, ClearSession,
        LoadEngine, LoadEngineFails, LockForSwap, RejectSwap, SwapEngine, CloseOldEngine, Move
<1>4. ASSUME NEW r \in Recordings, EngineCall(r) \/ Task(r) \/ Capture(r)
      PROVE  IOTypeOK'
  <2>1. heard[r] \in Texts /\ NoText \in Texts
    BY DEF ServiceTypeOK
  <2>2. CASE \/ HandleTranscriptionError(r) \/ OutputSucceeds(r)
             \/ HandleTranscriptionCancellation(r)
    BY <2>1, <2>2, CompleteType
    DEF HandleTranscriptionError, OutputSucceeds, HandleTranscriptionCancellation
  <2>3. CASE UNCHANGED ioVars
    BY <2>3
  <2>. QED
    BY <1>4, <2>2, <2>3
    DEF EngineCall, LoadAudio, LoadFails, EngineReturns, Task, TakeResult, StoreTranscript,
        HandleEmptyTranscript, OutputFails, Capture
<1>5. ASSUME NEW p \in Paths, CleanupOldFile(p) PROVE IOTypeOK'
  BY <1>5 DEF CleanupOldFile
<1>6. CASE Shutdown
  BY <1>6 DEF Shutdown, StopIPC, CancelAudio, AudioShutdownReturns, StopUIAndIO, StopHotkeys,
              CleanupAndExit, UnchangedByShutdown
<1>. QED  BY <1>1, <1>2, <1>3, <1>4, <1>5, <1>6 DEF Next

\* A recording is in a client's hands exactly at the places between the stop
\* that captured it and the step that passes it on.
LEMMA PlaceStep ==
  ASSUME TypeOK, PlaceInv, [Next]_vars
  PROVE  PlaceInv'
<1>. USE DEF PlaceInv, Holding, Switching, TypeOK, ServiceTypeOK
<1>1. CASE UNCHANGED <<pc, sess>>
  BY <1>1
<1>2. ASSUME NEW c \in Clients, Trigger(c) PROVE PlaceInv'
  BY <1>2 DEF Trigger, ToggleRecording, PressHotkey, ReleaseHotkey, RequestStart, RequestStop,
              UpdateRecordingMethod, SwitchModel, Call, Idle, At, Move, Goto
<1>3. ASSUME NEW c \in Clients, Handler(c) PROVE PlaceInv'
  <2>1. CASE StartIgnored(c) \/ HandleStartRecording(c) \/ StartFails(c) \/ StartWithoutModel(c)
    BY <2>1 DEF StartIgnored, HandleStartRecording, StartFails, StartWithoutModel, Succeed,
                RetryOrFail, AfterStart, At, Goto
  <2>2. CASE StopCaptures(c)
    BY <2>2 DEF StopCaptures, HasAudio, StopErrors, Stopping, At, Goto
  <2>3. CASE StopNotRecording(c) \/ StopTooShort(c) \/ StopFails(c)
    BY <2>3 DEF StopNotRecording, StopTooShort, StopFails, AfterEmptyStop, Stopping, At,
                Move, Goto
  <2>4. CASE SkipTranscription(c) \/ BeginSession(c) \/ SpawnTask(c)
    BY <2>4 DEF SkipTranscription, BeginSession, SpawnTask, AfterStop, At, Goto
  <2>5. CASE TranscribeSync(c) \/ ReturnSync(c)
    BY <2>5 DEF TranscribeSync, ReturnSync, At, Goto
  <2>6. CASE ReplyAtOnce(c) \/ StartWaiting(c) \/ ReplyTranscript(c) \/ ReplyTimeout(c)
    BY <2>6 DEF ReplyAtOnce, StartWaiting, ReplyTranscript, ReplyTimeout, At, Move, Goto
  <2>7. CASE ClearSession(c) \/ LoadEngine(c) \/ LoadEngineFails(c) \/ LockForSwap(c)
    BY <2>7 DEF ClearSession, LoadEngine, LoadEngineFails, LockForSwap, At, Move, Goto
  <2>8. CASE RejectSwap(c) \/ SwapEngine(c) \/ CloseOldEngine(c)
    BY <2>8 DEF RejectSwap, SwapEngine, CloseOldEngine, At, Goto
  <2>. QED  BY <1>3, <2>1, <2>2, <2>3, <2>4, <2>5, <2>6, <2>7, <2>8 DEF Handler
<1>4. ASSUME NEW r \in Recordings, EngineCall(r) \/ Task(r) \/ Capture(r)
      PROVE  UNCHANGED <<pc, sess>>
  BY <1>4 DEF EngineCall, LoadAudio, LoadFails, EngineReturns, Task, TakeResult,
              HandleTranscriptionError, StoreTranscript, HandleEmptyTranscript,
              OutputSucceeds, OutputFails, HandleTranscriptionCancellation, Capture
<1>5. ASSUME NEW p \in Paths, CleanupOldFile(p) PROVE UNCHANGED <<pc, sess>>
  BY <1>5 DEF CleanupOldFile
<1>6. Shutdown => UNCHANGED <<pc, sess>>
  BY DEF Shutdown, StopIPC, CancelAudio, AudioShutdownReturns, StopUIAndIO, StopHotkeys,
         CleanupAndExit, UnchangedByShutdown
<1>7. UNCHANGED vars => UNCHANGED <<pc, sess>>
  OBVIOUS
<1>. QED  BY <1>1, <1>2, <1>3, <1>4, <1>5, <1>6, <1>7 DEF Next

\* The initial states are well-typed.
LEMMA InitTypes == Init => TypeOK /\ PlaceInv
<1>. SUFFICES ASSUME Init PROVE TypeOK /\ PlaceInv
  OBVIOUS
<1>1. RecorderTypeOK /\ IOTypeOK
  BY RecorderInitType, IOInitType DEF Init
<1>2. ServiceTypeOK
  <2>1. MaxRetries \in Nat /\ MaxEngines \in Nat \ {0}
    BY ClientsAssumption
  <2>2. 0 \in 0..MaxRetries /\ 1 \in Engines
    BY <2>1
  <2>3. open \in SUBSET Engines /\ held \in [Clients -> Engines] /\ using \in [Recordings -> Engines]
    BY <2>2 DEF Init
  <2>. QED
    BY <2>2, <2>3 DEF Init, ServiceTypeOK, PC, Stages
<1>3. PlaceInv
  BY DEF Init, PlaceInv, Holding, Switching
<1>. QED  BY <1>1, <1>2, <1>3 DEF TypeOK

\* The type invariant with PlaceInv is inductive.
LEMMA TypeStep ==
  ASSUME TypeOK, PlaceInv, [Next]_vars
  PROVE  TypeOK' /\ PlaceInv'
<1>1. ServiceTypeOK'
  <2>1. CASE UNCHANGED vars
    BY <2>1 DEF TypeOK, ServiceTypeOK
  <2>2. ASSUME NEW p \in Paths, CleanupOldFile(p) PROVE ServiceTypeOK'
    BY <2>2 DEF CleanupOldFile, TypeOK, ServiceTypeOK
  <2>. QED
    BY <2>1, <2>2, TriggerTypes, HandlerTypes, GoroutineTypes, ShutdownTypes DEF Next
<1>. QED  BY <1>1, RecorderTypes, IOTypes, PlaceStep DEF TypeOK

\* Whatever the callers, goroutines and failures do, every variable keeps its
\* type; a client holds a recording exactly in the places between stopping it
\* and passing it on, which is what makes the type invariant inductive.
THEOREM TypesHold == Spec => [](TypeOK /\ PlaceInv)
<1>. USE DEF Spec
<1>. QED  BY InitTypes, TypeStep, PTL

\* The type invariant by itself: no call, message or failure takes a variable
\* out of the values its counterpart in the service can hold.
THEOREM TypeCorrect == Spec => []TypeOK
  BY TypesHold, PTL

(***************************************************************************)
(* Sessions and processes                                                  *)
(***************************************************************************)

\* Every step keeps a session and its process together.
LEMMA ProcessStep ==
  ASSUME TypeOK, SessionOwnsProcess, [Next]_vars
  PROVE  SessionOwnsProcess'
<1>. USE DEF SessionOwnsProcess, TypeOK, RecorderTypeOK
<1>1. CASE UNCHANGED <<isRecording, cmd, alive>>
  BY <1>1
<1>2. ASSUME NEW c \in Clients, Handler(c) PROVE SessionOwnsProcess'
  <2>1. CASE HandleStartRecording(c)
    <3>1. NextRec # NoProc /\ alive = {}
      BY <2>1 DEF HandleStartRecording, NextRec
    <3>. QED  BY <2>1, <3>1 DEF HandleStartRecording, StartSucceeds
  <2>2. CASE StartFails(c)
    BY <2>2 DEF StartFails, StartFailsLate, StartFailsEarly, HeldProcess
  <2>3. CASE StopCaptures(c) \/ StopTooShort(c) \/ StopFails(c)
    BY <2>3 DEF StopCaptures, StopTooShort, StopFails, ReapProcess
  <2>4. CASE UNCHANGED <<isRecording, cmd, alive>>
    BY <2>4
  <2>. QED
    BY <1>2, <2>1, <2>2, <2>3, <2>4
    DEF Handler, StartIgnored, StartWithoutModel, StopNotRecording, SkipTranscription,
        BeginSession, SpawnTask, ReplyAtOnce, StartWaiting, ReplyTranscript, ReplyTimeout,
        TranscribeSync, ReturnSync, ClearSession, LoadEngine, LoadEngineFails, LockForSwap,
        RejectSwap, SwapEngine, CloseOldEngine, Move
<1>3. ASSUME NEW c \in Clients, Trigger(c) PROVE UNCHANGED <<isRecording, cmd, alive>>
  BY <1>3 DEF Trigger, ToggleRecording, PressHotkey, ReleaseHotkey, RequestStart, RequestStop,
              UpdateRecordingMethod, SwitchModel, Call, Move
<1>4. ASSUME NEW r \in Recordings, EngineCall(r) \/ Task(r)
      PROVE  UNCHANGED <<isRecording, cmd, alive>>
  BY <1>4 DEF EngineCall, LoadAudio, LoadFails, EngineReturns, Task, TakeResult,
              HandleTranscriptionError, StoreTranscript, HandleEmptyTranscript,
              OutputSucceeds, OutputFails, HandleTranscriptionCancellation
<1>5. ASSUME NEW r \in Recordings, Capture(r) PROVE SessionOwnsProcess'
  BY <1>5 DEF Capture, ProcessWrites, ProcessDies
<1>6. ASSUME NEW p \in Paths, CleanupOldFile(p) PROVE UNCHANGED <<isRecording, cmd, alive>>
  BY <1>6 DEF CleanupOldFile
<1>7. CASE Shutdown
  <2>1. CASE CancelAudio
    <3>1. CASE isRecording
      BY <2>1, <3>1 DEF CancelAudio, ReapProcess
    <3>2. CASE ~isRecording
      BY <2>1, <3>2 DEF CancelAudio
    <3>. QED  BY <3>1, <3>2
  <2>2. CASE ~CancelAudio
    <3>1. UNCHANGED <<isRecording, cmd, alive>>
      BY <1>7, <2>2 DEF Shutdown, StopIPC, AudioShutdownReturns, StopUIAndIO, StopHotkeys,
                        CleanupAndExit
    <3>. QED  BY <3>1
  <2>. QED  BY <2>1, <2>2
<1>8. UNCHANGED vars => UNCHANGED <<isRecording, cmd, alive>>
  OBVIOUS
<1>. QED  BY <1>1, <1>2, <1>3, <1>4, <1>5, <1>6, <1>7, <1>8 DEF Next

\* A session and its capture process come and go together, however many
\* callers start and stop recordings, change the method or shut down.
THEOREM SessionProcess == Spec => []SessionOwnsProcess
<1>1. Init => SessionOwnsProcess
  BY DEF Init, RecorderInit, SessionOwnsProcess
<1>. QED  BY <1>1, ProcessStep, TypeCorrect, PTL DEF Spec

\* Every step keeps tray and flag in agreement.
LEMMA TrayStep ==
  ASSUME TrayShowsRecording, [Next]_vars
  PROVE  TrayShowsRecording'
<1>. USE DEF TrayShowsRecording
<1>1. CASE UNCHANGED <<tray, isRecording, stage>>
  BY <1>1
<1>2. ASSUME NEW c \in Clients, Handler(c) PROVE TrayShowsRecording'
  <2>1. CASE HandleStartRecording(c) \/ StopCaptures(c) \/ StopTooShort(c) \/ StopFails(c)
    BY <2>1 DEF HandleStartRecording, StopCaptures, StopTooShort, StopFails, SetRecordingState
  <2>2. CASE UNCHANGED <<tray, isRecording, stage>>
    BY <2>2
  <2>. QED
    BY <1>2, <2>1, <2>2
    DEF Handler, StartIgnored, StartFails, StartWithoutModel, StopNotRecording,
        SkipTranscription, BeginSession, SpawnTask, ReplyAtOnce, StartWaiting,
        ReplyTranscript, ReplyTimeout, TranscribeSync, ReturnSync, ClearSession, LoadEngine,
        LoadEngineFails, LockForSwap, RejectSwap, SwapEngine, CloseOldEngine, Move
<1>3. ASSUME NEW c \in Clients, Trigger(c) PROVE UNCHANGED <<tray, isRecording, stage>>
  BY <1>3 DEF Trigger, ToggleRecording, PressHotkey, ReleaseHotkey, RequestStart, RequestStop,
              UpdateRecordingMethod, SwitchModel, Call, Move
<1>4. ASSUME NEW r \in Recordings, EngineCall(r) \/ Task(r) \/ Capture(r)
      PROVE  UNCHANGED <<tray, isRecording, stage>>
  BY <1>4 DEF EngineCall, LoadAudio, LoadFails, EngineReturns, Task, TakeResult,
              HandleTranscriptionError, StoreTranscript, HandleEmptyTranscript,
              OutputSucceeds, OutputFails, HandleTranscriptionCancellation, Capture
<1>5. ASSUME NEW p \in Paths, CleanupOldFile(p) PROVE UNCHANGED <<tray, isRecording, stage>>
  BY <1>5 DEF CleanupOldFile
<1>6. CASE Shutdown
  BY <1>6 DEF Shutdown, StopIPC, CancelAudio, AudioShutdownReturns, StopUIAndIO, StopHotkeys,
              CleanupAndExit, Advance, UnchangedByShutdown
<1>7. UNCHANGED vars => UNCHANGED <<tray, isRecording, stage>>
  OBVIOUS
<1>. QED  BY <1>1, <1>2, <1>3, <1>4, <1>5, <1>6, <1>7 DEF Next

\* While the service is up the tray icon agrees with it, on every path a start
\* or a stop can take.
THEOREM TrayAgrees == Spec => []TrayShowsRecording
<1>1. Init => TrayShowsRecording
  BY DEF Init, TrayShowsRecording
<1>. QED  BY <1>1, TrayStep, PTL DEF Spec

(***************************************************************************)
(* Ownership of captured files                                             *)
(***************************************************************************)

\* SingleOwner is not inductive: a recording that is running, or that is still
\* to come, must not have an owner or a transcription either.
OwnerInv ==
  /\ SingleOwner
  /\ cmd <= nrec
  /\ cmd # NoProc => task[cmd] = "none"
  /\ \A r \in Recordings : r > nrec => /\ task[r] = "none"
                                       /\ \A c \in Clients : sess[c] # r

\* Every step keeps the strengthened ownership invariant.
LEMMA OwnerStep ==
  ASSUME TypeOK, PlaceInv, OwnerInv, [Next]_vars
  PROVE  OwnerInv'
<1>. USE DEF OwnerInv, SingleOwner, TypeOK, RecorderTypeOK, ServiceTypeOK
<1>. DEFINE Owners == <<nrec, cmd, sess, task>>
<1>1. CASE UNCHANGED Owners
  BY <1>1
<1>2. ASSUME NEW c \in Clients, Handler(c) PROVE OwnerInv'
  <2>1. CASE HandleStartRecording(c) \/ StartFails(c)
    <3>1. nrec' \in Nat /\ nrec <= nrec' /\ UNCHANGED <<sess, task>>
      <4>1. (nrec' = nrec \/ nrec' = nrec + 1) /\ UNCHANGED <<sess, task>>
        BY <2>1 DEF HandleStartRecording, StartFails, StartSucceeds, StartFailsLate,
                    StartFailsEarly, Attempt, NextRec
      <4>. QED  BY <4>1, MaxRecAssumption
    <3>2. \/ cmd' = NoProc
          \/ cmd' = cmd
          \/ cmd' = nrec + 1 /\ nrec' = nrec + 1 /\ nrec < MaxRec
      BY <2>1 DEF HandleStartRecording, StartFails, StartSucceeds, StartFailsLate,
                  StartFailsEarly, Attempt, NextRec, HeldProcess
    <3>3. CASE cmd' = NoProc \/ cmd' = cmd
      BY <3>1, <3>3, MaxRecAssumption
    <3>4. CASE cmd' = nrec + 1 /\ nrec' = nrec + 1 /\ nrec < MaxRec
      <4>1. nrec + 1 \in Recordings /\ nrec + 1 > nrec
        BY <3>4, MaxRecAssumption
      <4>. QED  BY <3>1, <3>4, <4>1
    <3>. QED  BY <3>2, <3>3, <3>4
  <2>2. CASE StopCaptures(c)
    <3>1. cmd \in Recordings /\ cmd' = NoProc /\ sess' = [sess EXCEPT ![c] = cmd]
          /\ UNCHANGED <<nrec, task>>
      BY <2>2 DEF StopCaptures, HasAudio, StopErrors, ReapProcess
    <3>. QED  BY <3>1
  <2>3. CASE StopTooShort(c) \/ StopFails(c)
    <3>1. cmd' = NoProc /\ UNCHANGED <<nrec, task, sess>>
      BY <2>3 DEF StopTooShort, StopFails, ReapProcess
    <3>. QED  BY <3>1
  <2>4. CASE SkipTranscription(c) \/ ReturnSync(c)
    <3>1. sess' = [sess EXCEPT ![c] = NoRec] /\ UNCHANGED <<nrec, cmd, task>>
      BY <2>4 DEF SkipTranscription, ReturnSync
    <3>. QED  BY <3>1
  <2>5. CASE SpawnTask(c)
    <3>1. sess[c] \in Recordings
      BY <2>5 DEF SpawnTask, PlaceInv, Holding, At
    <3>2. /\ sess' = [sess EXCEPT ![c] = NoRec] /\ task' = [task EXCEPT ![sess[c]] = "wait"]
          /\ UNCHANGED <<nrec, cmd>>
      BY <2>5 DEF SpawnTask
    <3>. QED  BY <3>1, <3>2
  <2>6. CASE UNCHANGED Owners
    BY <2>6
  <2>. QED
    BY <1>2, <2>1, <2>2, <2>3, <2>4, <2>5, <2>6
    DEF Handler, StartIgnored, StartWithoutModel, StopNotRecording, BeginSession, ReplyAtOnce,
        StartWaiting, ReplyTranscript, ReplyTimeout, TranscribeSync, ClearSession, LoadEngine,
        LoadEngineFails, LockForSwap, RejectSwap, SwapEngine, CloseOldEngine, Move
<1>3. ASSUME NEW c \in Clients, Trigger(c) PROVE UNCHANGED Owners
  BY <1>3 DEF Trigger, ToggleRecording, PressHotkey, ReleaseHotkey, RequestStart, RequestStop,
              UpdateRecordingMethod, SwitchModel, Call, Move
<1>4. ASSUME NEW r \in Recordings, EngineCall(r) PROVE UNCHANGED Owners
  BY <1>4 DEF EngineCall, LoadAudio, LoadFails, EngineReturns
<1>5. ASSUME NEW r \in Recordings, Task(r) PROVE OwnerInv'
  <2>1. /\ task[r] # "none" /\ UNCHANGED <<nrec, cmd, sess>>
        /\ \E st \in {"got", "output", "done"} : task' = [task EXCEPT ![r] = st]
    BY <1>5 DEF Task, TakeResult, HandleTranscriptionError, StoreTranscript,
                HandleEmptyTranscript, OutputSucceeds, OutputFails,
                HandleTranscriptionCancellation, TaskIn
  <2>. QED  BY <2>1
<1>6. ASSUME NEW r \in Recordings, Capture(r) PROVE UNCHANGED Owners
  BY <1>6 DEF Capture, ProcessWrites, ProcessDies
<1>7. ASSUME NEW p \in Paths, CleanupOldFile(p) PROVE UNCHANGED Owners
  BY <1>7 DEF CleanupOldFile
<1>8. CASE Shutdown
  <2>1. (cmd' = cmd \/ cmd' = NoProc) /\ UNCHANGED <<nrec, sess, task>>
    BY <1>8 DEF Shutdown, StopIPC, CancelAudio, AudioShutdownReturns, StopUIAndIO,
                StopHotkeys, CleanupAndExit, UnchangedByShutdown, ReapProcess
  <2>. QED  BY <2>1
<1>9. UNCHANGED vars => UNCHANGED Owners
  OBVIOUS
<1>. QED  BY <1>1, <1>2, <1>3, <1>4, <1>5, <1>6, <1>7, <1>8, <1>9 DEF Next

LEMMA OwnerStarts == Init => OwnerInv
  BY MaxRecAssumption DEF Init, RecorderInit, OwnerInv, SingleOwner

\* Of all the callers that race to stop a recording at most one has its file,
\* and not after it handed the file to a transcription.
THEOREM SingleOwnership == Spec => []SingleOwner
<1>1. OwnerInv => SingleOwner
  BY DEF OwnerInv
<1>. QED  BY <1>1, OwnerStarts, OwnerStep, TypesHold, PTL DEF Spec

(***************************************************************************)
(* Silence after the shutdown                                              *)
(***************************************************************************)

\* What is output has been transcribed.
OutputIsText == \A r \in Recordings : task[r] = "output" => inner[r] = "text"

\* No transcription under way has a text, and none will get one: the context
\* is cancelled, and a synchronous stop keeps its text to itself.
Mute(r) == ctxDone /\ task[r] # "output" /\ (inner[r] = "text" => task[r] = "none")

\* How a step changes a transcription: not at all, or as one of the goroutines does.
LEMMA TaskSteps ==
  ASSUME TypeOK, PlaceInv, OwnerInv, [Next]_vars, NEW r \in Recordings
  PROVE  \/ task'[r] = task[r] /\ inner'[r] = inner[r]
         \/ task'[r] # "output" /\ inner'[r] = "ready"
         \/ task'[r] = task[r] /\ inner[r] # "text"
            /\ (inner'[r] = "text" => ~Cancelled(r))
         \/ inner'[r] = inner[r] /\ task[r] # "none" /\ task'[r] # "none"
            /\ (task'[r] = "output" => inner[r] = "text")
<1>. USE DEF TypeOK, ServiceTypeOK
<1>1. CASE UNCHANGED <<task, inner>>
  BY <1>1
<1>2. ASSUME NEW c \in Clients, Handler(c), ~UNCHANGED <<task, inner>>
      PROVE  \/ task'[r] = task[r] /\ inner'[r] = inner[r]
             \/ task'[r] # "output" /\ inner'[r] = "ready"
  <2>1. CASE SpawnTask(c)
    BY <2>1 DEF SpawnTask
  <2>2. CASE TranscribeSync(c)
    <3>1. sess[c] \in Recordings
      BY <2>2 DEF TranscribeSync, PlaceInv, Holding, At
    <3>2. task[sess[c]] = "none"
      BY <3>1 DEF OwnerInv, SingleOwner, Recordings, NoRec
    <3>. QED  BY <2>2, <3>2 DEF TranscribeSync
  <2>. QED  BY <1>2, <2>1, <2>2
    DEF Handler, StartIgnored, HandleStartRecording, StartFails, StartWithoutModel, StopNotRecording,
        StopCaptures, StopTooShort, StopFails, SkipTranscription, BeginSession, ReplyAtOnce,
        StartWaiting, ReplyTranscript, ReplyTimeout, ReturnSync, ClearSession, LoadEngine,
        LoadEngineFails, LockForSwap, RejectSwap, SwapEngine, CloseOldEngine, Move, taskVars
<1>3. ASSUME NEW c \in Clients, Trigger(c) PROVE UNCHANGED <<task, inner>>
  BY <1>3 DEF Trigger, ToggleRecording, PressHotkey, ReleaseHotkey, RequestStart, RequestStop,
              UpdateRecordingMethod, SwitchModel, Call, Move, taskVars
<1>4. ASSUME NEW q \in Recordings, EngineCall(q)
      PROVE  /\ task' = task
             /\ \/ inner'[r] = inner[r]
                \/ inner[r] # "text" /\ (inner'[r] = "text" => ~Cancelled(r))
  <2>1. CASE LoadAudio(q) \/ LoadFails(q)
    BY <2>1 DEF LoadAudio, LoadFails
  <2>2. CASE EngineReturns(q)
    BY <2>2 DEF EngineReturns
  <2>. QED  BY <1>4, <2>1, <2>2 DEF EngineCall
<1>5. ASSUME NEW q \in Recordings, Task(q)
      PROVE  /\ inner' = inner
             /\ \/ task'[r] = task[r]
                \/ task[r] # "none" /\ task'[r] # "none" /\ (task'[r] = "output" => inner[r] = "text")
  BY <1>5 DEF Task, TakeResult, HandleTranscriptionError, StoreTranscript,
              HandleEmptyTranscript, OutputSucceeds, OutputFails,
              HandleTranscriptionCancellation, TaskIn
<1>6. ASSUME NEW q \in Recordings, Capture(q) PROVE UNCHANGED <<task, inner>>
  BY <1>6 DEF Capture, taskVars
<1>7. ASSUME NEW p \in Paths, CleanupOldFile(p) PROVE UNCHANGED <<task, inner>>
  BY <1>7 DEF CleanupOldFile, taskVars
<1>8. CASE Shutdown
  BY <1>8 DEF Shutdown, StopIPC, CancelAudio, AudioShutdownReturns, StopUIAndIO,
              StopHotkeys, CleanupAndExit, UnchangedByShutdown, taskVars
<1>9. UNCHANGED vars => UNCHANGED <<task, inner>>
  BY DEF vars, taskVars
<1>. QED  BY <1>1, <1>2, <1>3, <1>4, <1>5, <1>6, <1>7, <1>8, <1>9 DEF Next

\* The context stays cancelled.
LEMMA CancelledForGood == [Next]_vars /\ ctxDone => ctxDone'
<1>. SUFFICES ASSUME [Next]_vars, ctxDone PROVE ctxDone'
  OBVIOUS
<1>1. ASSUME NEW c \in Clients, Handler(c) PROVE ctxDone' = ctxDone
  BY <1>1
    DEF Handler, StartIgnored, HandleStartRecording, StartFails, StartWithoutModel, StopNotRecording,
        StopCaptures, StopTooShort, StopFails, SkipTranscription, BeginSession, SpawnTask, ReplyAtOnce,
        StartWaiting, ReplyTranscript, ReplyTimeout, TranscribeSync, ReturnSync, ClearSession, LoadEngine,
        LoadEngineFails, LockForSwap, RejectSwap, SwapEngine, CloseOldEngine, Move, appVars
<1>2. ASSUME NEW c \in Clients, Trigger(c) PROVE ctxDone' = ctxDone
  BY <1>2 DEF Trigger, ToggleRecording, PressHotkey, ReleaseHotkey, RequestStart, RequestStop,
              UpdateRecordingMethod, SwitchModel, Call, Move, appVars
<1>3. ASSUME NEW r \in Recordings, EngineCall(r) \/ Task(r) \/ Capture(r) PROVE ctxDone' = ctxDone
  BY <1>3 DEF EngineCall, LoadAudio, LoadFails, EngineReturns, Task, TakeResult,
              HandleTranscriptionError, StoreTranscript, HandleEmptyTranscript, OutputSucceeds,
              OutputFails, HandleTranscriptionCancellation, Capture, appVars
<1>4. ASSUME NEW p \in Paths, CleanupOldFile(p) PROVE ctxDone' = ctxDone
  BY <1>4 DEF CleanupOldFile, appVars
<1>5. CASE Shutdown
  BY <1>5 DEF Shutdown, StopIPC, CancelAudio, AudioShutdownReturns, StopUIAndIO,
              StopHotkeys, CleanupAndExit, UnchangedByShutdown
<1>6. CASE UNCHANGED vars
  BY <1>6 DEF vars, appVars
<1>. QED  BY <1>1, <1>2, <1>3, <1>4, <1>5, <1>6 DEF Next

LEMMA OutputStep ==
  ASSUME TypeOK, PlaceInv, OwnerInv, OutputIsText, [Next]_vars
  PROVE  OutputIsText'
BY TaskSteps DEF OutputIsText

LEMMA MuteStep ==
  ASSUME TypeOK, PlaceInv, OwnerInv, [Next]_vars, NEW r \in Recordings, Mute(r)
  PROVE  Mute(r)'
<1>1. ctxDone /\ ctxDone'
  BY CancelledForGood DEF Mute
<1>. QED  BY <1>1, TaskSteps DEF Mute, Cancelled

\* Once the shutdown has cancelled the context, a transcription that has no text
\* yet will never output one, whenever it was started.  (transcribeAsync)
THEOREM Silence == Spec => CancelledStaysSilent
<1>. SUFFICES ASSUME NEW r \in Recordings
              PROVE  Spec => [](ctxDone /\ inner[r] # "text" => [](task[r] # "output"))
  BY DEF CancelledStaysSilent
<1>1. Init => OwnerInv /\ OutputIsText
  <2>. Init => OutputIsText
    BY DEF Init, OutputIsText
  <2>. QED  BY OwnerStarts
<1>2. OutputIsText /\ ctxDone /\ inner[r] # "text" => Mute(r)
  BY DEF OutputIsText, Mute
<1>3. Mute(r) => task[r] # "output"
  BY DEF Mute
<1>4. TypeOK /\ PlaceInv /\ OwnerInv /\ OutputIsText /\ [Next]_vars => OwnerInv' /\ OutputIsText'
  BY OwnerStep, OutputStep
<1>5. TypeOK /\ PlaceInv /\ OwnerInv /\ Mute(r) /\ [Next]_vars => Mute(r)'
  BY MuteStep
<1>. QED  BY <1>1, <1>2, <1>3, <1>4, <1>5, TypesHold, PTL DEF Spec

(***************************************************************************)
(* Engines                                                                 *)
(***************************************************************************)

\* The switches that have an engine in their hands.
Swapping == {s \in Switchers : pc[s] \in {"lock", "swap", "close"}}

\* The two engine properties are not inductive: a switch must also hold an
\* engine of its own, which is not the current one, and a new engine must be new.
EngineInv ==
  /\ EngineInUseIsOpen /\ NoEngineLeaked
  /\ engine <= nEng
  /\ \A s \in Swapping : held[s] # engine /\ held[s] <= nEng
  /\ \A s, t \in Swapping : held[s] = held[t] => s = t

\* No engine is loaded, swapped or closed, and no transcription begins.
EnginesRest ==
  /\ UNCHANGED <<engine, nEng, open, held, using>>
  /\ Swapping' = Swapping
  /\ Readers' \subseteq Readers

\* A step that leaves the engines and their readers alone keeps EngineInv.
LEMMA EnginesAtRest == EngineInv /\ EnginesRest => EngineInv'
  BY DEF EngineInv, EnginesRest, EngineInUseIsOpen, NoEngineLeaked, Swapping

\* What the holders of engines have between them when one of them gets an
\* engine, gives its engine away, or exchanges it.
LEMMA HolderGains ==
  ASSUME NEW H, NEW c, NEW f, NEW g, \A s \in H : g[s] = f[s]
  PROVE  {g[s] : s \in H \cup {c}} = {f[s] : s \in H} \cup {g[c]}
  OBVIOUS

LEMMA HolderLoses ==
  ASSUME NEW H, NEW c \in H, NEW f, \A s, t \in H : f[s] = f[t] => s = t
  PROVE  {f[s] : s \in H \ {c}} = {f[s] : s \in H} \ {f[c]}
  OBVIOUS

LEMMA HolderExchanges ==
  ASSUME NEW H, NEW c \in H, NEW f, NEW g, \A s \in H \ {c} : g[s] = f[s]
  PROVE  {f[c]} \cup {g[s] : s \in H} = {g[c]} \cup {f[s] : s \in H}
  OBVIOUS

\* Every step keeps the strengthened engine invariant.
LEMMA EngineStep ==
  ASSUME TypeOK, PlaceInv, EngineInv, [Next]_vars
  PROVE  EngineInv'
<1>. USE EnginesAtRest DEF TypeOK, ServiceTypeOK
<1>. DEFINE Kept == UNCHANGED <<engine, nEng, open, held, using>> /\ UNCHANGED inner
<1>1. CASE UNCHANGED vars
  BY <1>1 DEF EnginesRest, Swapping, Readers
<1>2. ASSUME NEW c \in Clients, Trigger(c) PROVE EnginesRest
  <2>1. Kept /\ \E l \in PC \ {"lock", "swap", "close"} :
                   pc' = [pc EXCEPT ![c] = l] /\ pc[c] \notin {"lock", "swap", "close"}
    BY <1>2 DEF Trigger, ToggleRecording, PressHotkey, ReleaseHotkey, RequestStart,
                RequestStop, UpdateRecordingMethod, SwitchModel, Call, Idle, At, Move, Goto, PC
  <2>. QED  BY <2>1 DEF EnginesRest, Swapping, Readers
<1>3. ASSUME NEW c \in Clients, Handler(c) PROVE EngineInv'
  <2>a. open = {engine} \cup {held[s] : s \in Swapping}
    BY DEF EngineInv, NoEngineLeaked, Swapping
  <2>b. /\ \A s \in Swapping : held[s] # engine
        /\ \A s, t \in Swapping : held[s] = held[t] => s = t
    BY DEF EngineInv
  <2>1. CASE StartIgnored(c) \/ HandleStartRecording(c) \/ StartFails(c) \/ StartWithoutModel(c)
    <3>1. Kept /\ pc[c] = "start" /\ \E l \in {"start", "idle", "held"} :
                                        pc' = [pc EXCEPT ![c] = l]
      BY <2>1 DEF StartIgnored, HandleStartRecording, StartFails, StartWithoutModel, Succeed,
                  RetryOrFail, AfterStart, At, Goto
    <3>. QED  BY <3>1 DEF EnginesRest, Swapping, Readers
  <2>2. CASE StopNotRecording(c) \/ StopCaptures(c) \/ StopTooShort(c) \/ StopFails(c)
    <3>1. Kept /\ pc[c] \in {"stop", "syncStop"}
               /\ \E l \in {"idle", "begin", "syncCheck", "wait"} : pc' = [pc EXCEPT ![c] = l]
      BY <2>2 DEF StopNotRecording, StopCaptures, StopTooShort, StopFails, Stopping, At,
                  AfterEmptyStop, Move, Goto
    <3>. QED  BY <3>1 DEF EnginesRest, Swapping, Readers
  <2>3. CASE SkipTranscription(c) \/ BeginSession(c) \/ ReturnSync(c)
    <3>1. Kept /\ pc[c] \in Holding
               /\ \E l \in {"idle", "spawn", "wait"} : pc' = [pc EXCEPT ![c] = l]
      BY <2>3 DEF SkipTranscription, BeginSession, ReturnSync, Holding, At, AfterStop, Goto
    <3>. QED  BY <3>1 DEF EnginesRest, Swapping, Readers, Holding
  <2>4. CASE SpawnTask(c) \/ TranscribeSync(c)
    <3>1. /\ UNCHANGED <<engine, nEng, open, held, using>>
          /\ inner' = [inner EXCEPT ![sess[c]] = "ready"]
          /\ pc[c] \in Holding
          /\ \E l \in {"idle", "syncWait", "wait"} : pc' = [pc EXCEPT ![c] = l]
      BY <2>4 DEF SpawnTask, TranscribeSync, Holding, At, AfterStop, Goto
    <3>2. Readers' \subseteq Readers
      BY <3>1 DEF Readers
    <3>3. Swapping' = Swapping
      BY <3>1 DEF Swapping, Holding
    <3>. QED  BY <3>1, <3>2, <3>3 DEF EnginesRest
  <2>5. CASE ReplyAtOnce(c) \/ StartWaiting(c) \/ ReplyTranscript(c) \/ ReplyTimeout(c)
    <3>1. Kept /\ pc[c] \in {"wait", "recv"}
               /\ \E l \in {"idle", "recv"} : pc' = [pc EXCEPT ![c] = l]
      BY <2>5 DEF ReplyAtOnce, StartWaiting, ReplyTranscript, ReplyTimeout, At, Move, Goto
    <3>. QED  BY <3>1 DEF EnginesRest, Swapping, Readers
  <2>6. CASE ClearSession(c) \/ LoadEngineFails(c)
    <3>1. Kept /\ pc[c] \in {"clear", "load"} /\ pc' = [pc EXCEPT ![c] = "idle"]
      BY <2>6 DEF ClearSession, LoadEngineFails, At, Move, Goto
    <3>. QED  BY <3>1 DEF EnginesRest, Swapping, Readers
  <2>7. CASE LockForSwap(c)
    <3>1. Kept /\ pc[c] = "lock" /\ pc' = [pc EXCEPT ![c] = "swap"]
      BY <2>7 DEF LockForSwap, At, Move, Goto
    <3>. QED  BY <3>1 DEF EnginesRest, Swapping, Readers
  <2>8. CASE LoadEngine(c)
    <3>1. /\ c \in Switchers /\ c \notin Swapping
          /\ nEng' = nEng + 1 /\ open' = open \cup {nEng + 1}
          /\ held' = [held EXCEPT ![c] = nEng + 1]
          /\ UNCHANGED <<engine, using>> /\ Readers' = Readers
          /\ Swapping' = Swapping \cup {c}
      BY <2>8 DEF LoadEngine, PlaceInv, Switching, At, Goto, Swapping, Readers
    <3>2. nEng \in Nat /\ engine \in Nat /\ \A s \in Swapping : s \in Clients /\ held[s] \in Nat
      BY DEF Swapping, Clients
    <3>3. /\ \A s \in Swapping : held'[s] = held[s]
          /\ held'[c] = nEng + 1
      BY <3>1, <3>2
    <3>4. NoEngineLeaked'
      <4>1. {held'[s] : s \in Swapping'} = {held[s] : s \in Swapping} \cup {nEng + 1}
        BY <3>1, <3>3, HolderGains
      <4>2. open' = {engine'} \cup {held'[s] : s \in Swapping'}
        BY <3>1, <4>1, <2>a
      <4>. QED  BY <4>2 DEF NoEngineLeaked, Swapping
    <3>5. EngineInUseIsOpen'
      BY <3>1 DEF EngineInv, EngineInUseIsOpen
    <3>. QED  BY <3>1, <3>2, <3>3, <3>4, <3>5 DEF EngineInv
  <2>9. CASE RejectSwap(c) \/ CloseOldEngine(c)
    <3>1. /\ c \in Swapping
          /\ open' = open \ {held[c]}
          /\ UNCHANGED <<engine, nEng, held, using>> /\ Readers' = Readers
          /\ Swapping' = Swapping \ {c}
      <4>1. /\ pc[c] \in {"lock", "close"} /\ pc' = [pc EXCEPT ![c] = "idle"]
            /\ open' = open \ {held[c]}
            /\ UNCHANGED <<engine, nEng, held, using, inner>>
        BY <2>9 DEF RejectSwap, CloseOldEngine, At, Goto
      <4>2. c \in Switchers
        BY <4>1 DEF PlaceInv, Switching
      <4>. QED  BY <4>1, <4>2 DEF Swapping, Readers, Clients
    <3>2. NoEngineLeaked'
      <4>1. {held[s] : s \in Swapping'} = {held[s] : s \in Swapping} \ {held[c]}
        BY <3>1, <2>b, HolderLoses
      <4>2. open' = {engine'} \cup {held'[s] : s \in Swapping'}
        BY <3>1, <4>1, <2>a, <2>b
      <4>. QED  BY <4>2 DEF NoEngineLeaked, Swapping
    <3>3. EngineInUseIsOpen'
      BY <3>1 DEF EngineInv, EngineInUseIsOpen
    <3>. QED  BY <3>1, <3>2, <3>3 DEF EngineInv
  <2>10. CASE SwapEngine(c)
    <3>1. /\ c \in Swapping /\ c \in Clients /\ Readers = {} /\ Readers' = {}
          /\ engine' = held[c] /\ held' = [held EXCEPT ![c] = engine]
          /\ UNCHANGED <<nEng, open>>
          /\ Swapping' = Swapping
      BY <2>10 DEF SwapEngine, PlaceInv, Switching, At, Goto, Swapping, Readers
    <3>2. held'[c] = engine /\ \A s \in Swapping \ {c} : held'[s] = held[s]
      BY <3>1 DEF Swapping, Clients
    <3>3. NoEngineLeaked'
      <4>1. {held[c]} \cup {held'[s] : s \in Swapping} = {engine} \cup {held[s] : s \in Swapping}
        BY <3>1, <3>2, HolderExchanges
      <4>2. open' = {engine'} \cup {held'[s] : s \in Swapping'}
        BY <3>1, <4>1, <2>a
      <4>. QED  BY <4>2 DEF NoEngineLeaked, Swapping
    <3>4. EngineInUseIsOpen'
      BY <3>1 DEF EngineInUseIsOpen
    <3>. QED  BY <3>1, <3>2, <3>3, <3>4 DEF EngineInv
  <2>. QED
    BY <1>3, <2>1, <2>2, <2>3, <2>4, <2>5, <2>6, <2>7, <2>8, <2>9, <2>10 DEF Handler
<1>4. ASSUME NEW r \in Recordings, LoadAudio(r) PROVE EngineInv'
  <2>1. /\ UNCHANGED <<engine, nEng, open, held>> /\ Swapping' = Swapping
        /\ using' = [using EXCEPT ![r] = engine] /\ Readers' = Readers \cup {r}
    BY <1>4 DEF LoadAudio, Swapping, Readers
  <2>2. EngineInUseIsOpen' /\ NoEngineLeaked'
    BY <2>1 DEF EngineInv, EngineInUseIsOpen, NoEngineLeaked, Swapping
  <2>. QED  BY <2>1, <2>2 DEF EngineInv
<1>5. ASSUME NEW r \in Recordings, LoadFails(r) \/ EngineReturns(r) PROVE EnginesRest
  BY <1>5 DEF LoadFails, EngineReturns, Results, EnginesRest, Swapping, Readers
<1>6. ASSUME NEW r \in Recordings, Task(r) \/ Capture(r) PROVE EnginesRest
  BY <1>6 DEF Task, TakeResult, HandleTranscriptionError, StoreTranscript,
              HandleEmptyTranscript, OutputSucceeds, OutputFails,
              HandleTranscriptionCancellation, Capture, EnginesRest, Swapping, Readers
<1>7. ASSUME NEW p \in Paths, CleanupOldFile(p) PROVE EnginesRest
  BY <1>7 DEF CleanupOldFile, EnginesRest, Swapping, Readers
<1>8. Shutdown => EnginesRest
  BY DEF Shutdown, StopIPC, CancelAudio, AudioShutdownReturns, StopUIAndIO, StopHotkeys,
         CleanupAndExit, UnchangedByShutdown, EnginesRest, Swapping, Readers
<1>. QED  BY <1>1, <1>2, <1>3, <1>4, <1>5, <1>6, <1>7, <1>8 DEF Next, EngineCall

\* No engine is closed under a transcription that runs on it, and no loaded
\* engine is forgotten, however many switches and transcriptions interleave.
THEOREM EngineSafety == Spec => [](EngineInUseIsOpen /\ NoEngineLeaked)
<1>1. Init => EngineInv
  BY DEF Init, EngineInv, EngineInUseIsOpen, NoEngineLeaked, Swapping, Readers, Clients
<1>2. EngineInv => EngineInUseIsOpen /\ NoEngineLeaked
  BY DEF EngineInv
<1>. QED  BY <1>1, <1>2, EngineStep, TypesHold, PTL DEF Spec

\* Every loaded engine is the one in use or in the hands of a switch, which will
\* close it or install it: no refused, failed or overtaken switch forgets one
\* (SwitchModel).
THEOREM NoEngineLost == Spec => []NoEngineLeaked
  BY EngineSafety, PTL

(***************************************************************************)
(* The audio of captured recordings                                        *)
(***************************************************************************)

\* What the theorems above have shown of every state.
Known == TypeOK /\ PlaceInv /\ SessionOwnsProcess /\ OwnerInv

\* A running attempt writes the file of its name, and a file holds the audio
\* of an attempt of that name, if any.
NameInv ==
  /\ cmd # NoProc => outFile = pathOf[cmd]
  /\ \A r \in Recordings : IF r <= nrec THEN pathOf[r] \in Paths ELSE pathOf[r] = NoFile
  /\ \A p \in Paths : audio[p] # NoAudio => audio[p] \in Recordings /\ pathOf[audio[p]] = p

\* A recording is not transcribed before its caller says so.
UntouchedInv ==
  /\ \A c \in Clients : pc[c] \in {"begin", "spawn", "syncCheck"} => inner[sess[c]] = "none"
  /\ \A r \in Recordings : r = cmd \/ r > nrec => inner[r] = "none"
  /\ \A c \in Clients : pc[c] = "clear" => c \in Setters

\* How a step changes names and files: a process is started, or tried to; one
\* writes; or files may be removed and the process be given up.
LEMMA NameSteps ==
  ASSUME Known, [Next]_vars
  PROVE  \/ /\ \E p \in NameChoices : Attempt(p)
            /\ cmd' \in {NoProc, nrec + 1}
         \/ /\ cmd # NoProc /\ ProcessWrites(cmd)
         \/ /\ UNCHANGED <<nrec, lastSec, pathOf, audio>> /\ files' \subseteq files
            /\ cmd' = NoProc \/ UNCHANGED <<cmd, outFile>>
<1>. DEFINE Rest == /\ UNCHANGED <<nrec, lastSec, pathOf, audio>> /\ files' \subseteq files
                    /\ cmd' = NoProc \/ UNCHANGED <<cmd, outFile>>
            Start == /\ \E p \in NameChoices : Attempt(p)
                     /\ cmd' \in {NoProc, nrec + 1}
<1>1. ASSUME NEW c \in Clients, HandleStartRecording(c) \/ StartFails(c) PROVE Start \/ Rest
  <2>1. cmd = NoProc /\ HeldProcess = NoProc
    BY <1>1 DEF Known, SessionOwnsProcess, HandleStartRecording, StartFails, HeldProcess
  <2>. QED  BY <1>1, <2>1 DEF HandleStartRecording, StartFails, StartSucceeds, StartFailsLate,
                              StartFailsEarly, NextRec
<1>2. ASSUME NEW c \in Clients, StopCaptures(c) \/ StopTooShort(c) \/ StopFails(c) \/ ClearSession(c)
                                \/ ReturnSync(c)
      PROVE Rest
  BY <1>2 DEF StopCaptures, StopTooShort, StopFails, ClearSession, ReturnSync, ReapProcess,
              CleanupFile, RemoveFile
<1>3. ASSUME NEW c \in Clients, Trigger(c) PROVE Rest
  BY <1>3 DEF Trigger, ToggleRecording, PressHotkey, ReleaseHotkey, RequestStart, RequestStop,
              UpdateRecordingMethod, SwitchModel, Call, Move
<1>4. ASSUME NEW c \in Clients, Handler(c) PROVE Start \/ Rest
  <2>. CASE ~(\/ HandleStartRecording(c) \/ StartFails(c) \/ StopCaptures(c) \/ StopTooShort(c)
              \/ StopFails(c) \/ ClearSession(c) \/ ReturnSync(c))
    <3>1. UNCHANGED recorderVars
      BY <1>4 DEF Handler, StartIgnored, StartWithoutModel, StopNotRecording, SkipTranscription,
                  BeginSession, SpawnTask, ReplyAtOnce, StartWaiting, ReplyTranscript, ReplyTimeout,
                  TranscribeSync, LoadEngine, LoadEngineFails, LockForSwap, RejectSwap, SwapEngine,
                  CloseOldEngine, Move
    <3>. QED  BY <3>1
  <2>. QED  BY <1>1, <1>2
<1>5. ASSUME NEW r \in Recordings, EngineCall(r) \/ Task(r) PROVE Rest
  BY <1>5 DEF EngineCall, LoadAudio, LoadFails, EngineReturns, Task, TakeResult, RemoveFile,
              HandleTranscriptionError, StoreTranscript, HandleEmptyTranscript, OutputSucceeds,
              OutputFails, HandleTranscriptionCancellation
<1>6. ASSUME NEW r \in Recordings, Capture(r) PROVE (cmd # NoProc /\ ProcessWrites(cmd)) \/ Rest
  <2>1. r \in alive => r = cmd /\ cmd # NoProc
    BY DEF Known, SessionOwnsProcess
  <2>. QED  BY <1>6, <2>1 DEF Capture, ProcessWrites, ProcessDies
<1>7. ASSUME NEW p \in Paths, CleanupOldFile(p) PROVE Rest
  BY <1>7 DEF CleanupOldFile, RemoveFile
<1>8. CASE Shutdown
  <2>1. Rest
    BY <1>8 DEF Shutdown, StopIPC, CancelAudio, AudioShutdownReturns, StopUIAndIO, StopHotkeys,
                CleanupAndExit, CleanupAll, UnchangedByShutdown, ReapProcess
  <2>. QED  BY <2>1
<1>9. UNCHANGED vars => Rest
  OBVIOUS
<1>. QED  BY <1>3, <1>4, <1>5, <1>6, <1>7, <1>8, <1>9 DEF Next

\* Files keep to the attempts of their name.
LEMMA NameStep ==
  ASSUME Known, NameInv, [Next]_vars
  PROVE  NameInv'
<1>. USE DEF Known, TypeOK, RecorderTypeOK
<1>0. NoFile \notin Paths /\ NoAudio \notin Recordings
  BY DEF NoFile, NoAudio, Paths, Recordings
<1>1. ASSUME NEW p \in NameChoices, Attempt(p), cmd' \in {NoProc, nrec + 1} PROVE NameInv'
  <2>1. /\ p \in Paths /\ nrec + 1 \in Recordings
        /\ nrec' = nrec + 1 /\ pathOf' = [pathOf EXCEPT ![nrec + 1] = p] /\ outFile' = p
    BY <1>1, MaxRecAssumption DEF NameChoices, Attempt, NextRec
  <2>2. audio' = audio \/ audio' = [audio EXCEPT ![p] = NoAudio]
    BY <1>1 DEF Attempt, CreateTempWav
  <2>3. cmd' # NoProc => outFile' = pathOf'[cmd']
    BY <1>1, <2>1
  <2>4. \A r \in Recordings : IF r <= nrec' THEN pathOf'[r] \in Paths ELSE pathOf'[r] = NoFile
    BY <2>1, MaxRecAssumption DEF NameInv
  <2>5. pathOf[nrec + 1] = NoFile
    BY <2>1, MaxRecAssumption DEF NameInv
  <2>6. ASSUME NEW q \in Paths, audio'[q] # NoAudio
        PROVE  audio'[q] \in Recordings /\ pathOf'[audio'[q]] = q
    <3>1. audio'[q] = audio[q]
      BY <2>2, <2>6
    <3>2. audio[q] \in Recordings /\ pathOf[audio[q]] = q
      BY <2>6, <3>1 DEF NameInv
    <3>3. audio[q] # nrec + 1
      BY <1>0, <2>5, <3>2
    <3>. QED  BY <2>1, <3>1, <3>2, <3>3
  <2>. QED  BY <2>3, <2>4, <2>6 DEF NameInv
<1>2. CASE cmd # NoProc /\ ProcessWrites(cmd)
  <2>1. /\ cmd \in Recordings /\ pathOf[cmd] \in Paths
        /\ audio' = [audio EXCEPT ![pathOf[cmd]] = cmd]
        /\ UNCHANGED <<nrec, cmd, outFile, pathOf>>
    BY <1>2 DEF ProcessWrites, NameInv
  <2>. QED  BY <2>1 DEF NameInv
<1>3. CASE /\ UNCHANGED <<nrec, lastSec, pathOf, audio>> /\ files' \subseteq files
           /\ cmd' = NoProc \/ UNCHANGED <<cmd, outFile>>
  BY <1>3 DEF NameInv
<1>. QED  BY <1>1, <1>2, <1>3, NameSteps

\* Every step leaves what is not to be transcribed untouched.
LEMMA UntouchedStep ==
  ASSUME Known, UntouchedInv, [Next]_vars
  PROVE  UntouchedInv'
<1>. USE DEF Known, TypeOK, RecorderTypeOK, ServiceTypeOK
<1>. DEFINE Seen == <<nrec, cmd, pc, sess, inner>>
            Places == {"begin", "spawn", "syncCheck"}
<1>1. CASE UNCHANGED Seen
  BY <1>1 DEF UntouchedInv
\* A client moves between places where it has nothing to transcribe.
<1>2. ASSUME NEW c \in Clients, UNCHANGED <<nrec, cmd, inner>>,
             sess' = sess \/ sess' = [sess EXCEPT ![c] = NoRec],
             NEW l \in PC \ Places, pc' = [pc EXCEPT ![c] = l], l = "clear" => c \in Setters
      PROVE  UntouchedInv'
  BY <1>2 DEF UntouchedInv
<1>3. ASSUME NEW c \in Clients, Trigger(c) PROVE UntouchedInv'
  <2>1. /\ UNCHANGED <<nrec, cmd, inner, sess>>
        /\ \E l \in PC \ Places : Goto(c, l) /\ (l = "clear" => c \in Setters)
    BY <1>3 DEF Trigger, ToggleRecording, PressHotkey, ReleaseHotkey, RequestStart, RequestStop,
                UpdateRecordingMethod, SwitchModel, Call, Idle, At, Move, PC
  <2>. QED  BY <1>2, <2>1 DEF Goto
<1>4. ASSUME NEW c \in Clients, Handler(c) PROVE UntouchedInv'
  <2>1. CASE HandleStartRecording(c) \/ StartFails(c)
    <3>1. /\ UNCHANGED <<sess, inner>> /\ (nrec' = nrec \/ nrec' = nrec + 1)
          /\ cmd' \in {NoProc, cmd} \/ (cmd' = nrec + 1 /\ nrec' = nrec + 1)
      BY <2>1 DEF HandleStartRecording, StartFails, StartSucceeds, StartFailsLate,
                  StartFailsEarly, Attempt, NextRec, HeldProcess
    <3>2. pc' = pc \/ pc' = [pc EXCEPT ![c] = AfterStart(c)]
      BY <2>1 DEF HandleStartRecording, StartFails, RetryOrFail, Succeed, Goto
    <3>3. AfterStart(c) \in {"held", "idle"}
      BY DEF AfterStart
    <3>4. \A r \in Recordings : r = cmd' \/ r > nrec' => r = cmd \/ r > nrec
      BY <3>1, MaxRecAssumption
    <3>. QED  BY <3>1, <3>2, <3>3, <3>4 DEF UntouchedInv
  <2>2. CASE StopCaptures(c)
    <3>1. /\ cmd \in Recordings /\ cmd' = NoProc /\ UNCHANGED <<nrec, inner>>
          /\ sess' = [sess EXCEPT ![c] = cmd]
      BY <2>2 DEF StopCaptures, HasAudio, StopErrors, ReapProcess
    <3>2. \E l \in Places : pc' = [pc EXCEPT ![c] = l]
      BY <2>2 DEF StopCaptures, Goto
    <3>. QED  BY <3>1, <3>2 DEF UntouchedInv
  <2>3. CASE StopTooShort(c) \/ StopFails(c)
    <3>1. cmd' = NoProc /\ UNCHANGED <<nrec, sess, inner>>
      BY <2>3 DEF StopTooShort, StopFails, ReapProcess
    <3>2. pc' = [pc EXCEPT ![c] = AfterEmptyStop(c)] /\ AfterEmptyStop(c) \in {"wait", "idle"}
      BY <2>3 DEF StopTooShort, StopFails, AfterEmptyStop, Goto
    <3>. QED  BY <3>1, <3>2 DEF UntouchedInv
  <2>4. CASE BeginSession(c)
    <3>1. pc[c] = "begin" /\ pc' = [pc EXCEPT ![c] = "spawn"] /\ UNCHANGED <<nrec, cmd, sess, inner>>
      BY <2>4 DEF BeginSession, At, Goto
    <3>. QED  BY <3>1 DEF UntouchedInv
  <2>5. CASE SpawnTask(c) \/ TranscribeSync(c)
    <3>1. /\ sess[c] \in Recordings /\ sess[c] # cmd /\ ~(sess[c] > nrec)
          /\ \A d \in Clients : sess[d] = sess[c] => d = c
      BY <2>5 DEF SpawnTask, TranscribeSync, At, PlaceInv, Holding, OwnerInv, SingleOwner
    <3>2. /\ UNCHANGED <<nrec, cmd>> /\ inner' = [inner EXCEPT ![sess[c]] = "ready"]
          /\ \A d \in Clients \ {c} : pc'[d] = pc[d] /\ sess'[d] = sess[d]
      BY <2>5 DEF SpawnTask, TranscribeSync, Goto
    <3>3. pc'[c] \in {"wait", "idle", "syncWait"}
      BY <2>5 DEF SpawnTask, TranscribeSync, Goto, AfterStop
    <3>4. ASSUME NEW d \in Clients, pc'[d] \in Places PROVE inner'[sess'[d]] = "none"
      <4>1. d # c /\ sess[d] \in Recordings /\ sess[d] # sess[c]
        BY <3>1, <3>2, <3>3, <3>4 DEF PlaceInv, Holding
      <4>. QED  BY <3>2, <3>4, <4>1 DEF UntouchedInv
    <3>5. \A r \in Recordings : r = cmd' \/ r > nrec' => inner'[r] = "none"
      BY <3>1, <3>2 DEF UntouchedInv
    <3>6. \A d \in Clients : pc'[d] = "clear" => d \in Setters
      BY <3>2, <3>3 DEF UntouchedInv
    <3>. QED  BY <3>4, <3>5, <3>6 DEF UntouchedInv
  <2>6. CASE ~(\/ HandleStartRecording(c) \/ StartFails(c) \/ StopCaptures(c) \/ StopTooShort(c)
               \/ StopFails(c) \/ BeginSession(c) \/ SpawnTask(c) \/ TranscribeSync(c))
    <3>1. /\ UNCHANGED <<nrec, cmd, inner>> /\ (sess' = sess \/ sess' = [sess EXCEPT ![c] = NoRec])
          /\ \/ pc' = pc /\ sess' = sess
             \/ \E l \in {"idle", "held", "wait", "recv", "lock", "swap", "close"} : pc' = [pc EXCEPT ![c] = l]
      BY <1>4, <2>6 DEF Handler, StartIgnored, StartWithoutModel, Succeed, RetryOrFail, AfterStart,
                  StopNotRecording, SkipTranscription, AfterStop,
                  ReplyAtOnce, StartWaiting, ReplyTranscript, ReplyTimeout,
                  ReturnSync, ClearSession, LoadEngine, LoadEngineFails, LockForSwap, RejectSwap,
                  SwapEngine, CloseOldEngine, Move, Goto
    <3>2. CASE pc' = pc /\ sess' = sess
      BY <3>1, <3>2 DEF UntouchedInv
    <3>3. CASE ~(pc' = pc /\ sess' = sess)
      BY <1>2, <3>1, <3>3 DEF PC
    <3>. QED  BY <3>2, <3>3
  <2>. QED  BY <2>1, <2>2, <2>3, <2>4, <2>5, <2>6
<1>5. ASSUME NEW r \in Recordings, EngineCall(r) PROVE UntouchedInv'
  <2>1. /\ inner[r] # "none" /\ UNCHANGED <<nrec, cmd, pc, sess>>
        /\ \E x : inner' = [inner EXCEPT ![r] = x]
    BY <1>5 DEF EngineCall, LoadAudio, LoadFails, EngineReturns
  <2>. QED  BY <2>1 DEF UntouchedInv
<1>6. ASSUME NEW r \in Recordings, Task(r) \/ Capture(r) PROVE UNCHANGED Seen
  BY <1>6 DEF Task, TakeResult, HandleTranscriptionError, StoreTranscript, HandleEmptyTranscript,
              OutputSucceeds, OutputFails, HandleTranscriptionCancellation, Capture, ProcessWrites,
              ProcessDies
<1>7. ASSUME NEW p \in Paths, CleanupOldFile(p) PROVE UNCHANGED Seen
  BY <1>7 DEF CleanupOldFile
<1>8. CASE Shutdown
  <2>1. cmd' \in {cmd, NoProc} /\ UNCHANGED <<nrec, pc, sess, inner>>
    BY <1>8 DEF Shutdown, StopIPC, CancelAudio, AudioShutdownReturns, StopUIAndIO, StopHotkeys,
                CleanupAndExit, UnchangedByShutdown, ReapProcess
  <2>. QED  BY <2>1 DEF UntouchedInv
<1>9. UNCHANGED vars => UNCHANGED Seen
  OBVIOUS
<1>. QED  BY <1>1, <1>3, <1>4, <1>5, <1>6, <1>7, <1>8, <1>9 DEF Next

\* A recording is captured with its audio, if no other one has its name.
LEMMA CaptureIntact ==
  ASSUME Known, NameInv, NEW c \in Clients, StopCaptures(c), NEW r \in Recordings, r = cmd,
         ~NameShared(r)'
  PROVE  AudioIntact(r)'
<1>. USE DEF Known, TypeOK, RecorderTypeOK
<1>1. cmd \in Recordings /\ outFile \in files /\ audio[outFile] # NoAudio
  BY DEF StopCaptures, HasAudio, StopErrors
<1>2. outFile = pathOf[cmd] /\ outFile \in Paths
  BY <1>1 DEF NameInv, NoProc, Recordings
<1>3. audio[outFile] \in Recordings /\ pathOf[audio[outFile]] = outFile
  BY <1>1, <1>2 DEF NameInv
<1>4. pathOf' = pathOf /\ files' = files /\ audio' = audio
  BY DEF StopCaptures, ReapProcess
<1>5. audio[outFile] = cmd
  BY <1>2, <1>3, <1>4 DEF NameShared
<1>. QED  BY <1>1, <1>2, <1>4, <1>5 DEF AudioIntact

\* It becomes pending then, and at no other time.
LEMMA PendingBefore ==
  ASSUME Known, UntouchedInv, [Next]_vars, NEW r \in Recordings, Pending(r)'
  PROVE  Pending(r) \/ \E c \in Clients : StopCaptures(c) /\ r = cmd
<1>. USE DEF Known, TypeOK, RecorderTypeOK, ServiceTypeOK
<1>. DEFINE Seen == <<pc, sess, inner, task, ctxDone>>
            Places == {"begin", "spawn", "syncCheck"}
<1>0. Pending(r) <=> \/ \E c \in Clients : sess[c] = r /\ pc[c] \in Places
                     \/ inner[r] = "ready" /\ ~Cancelled(r)
  BY DEF Pending
<1>1. CASE UNCHANGED Seen
  BY <1>1 DEF Pending, Cancelled
<1>10. ASSUME NEW c \in Clients, StopCaptures(c), r # cmd PROVE Pending(r)
  <2>1. /\ UNCHANGED <<inner, task, ctxDone>> /\ sess' = [sess EXCEPT ![c] = cmd]
        /\ \A d \in Clients \ {c} : pc'[d] = pc[d]
    BY <1>10 DEF StopCaptures, Goto
  <2>. QED  BY <1>10, <2>1 DEF Pending, Cancelled
<1>2. ASSUME NEW c \in Clients, Handler(c), ~StopCaptures(c) PROVE Pending(r)
  <2>1. CASE SpawnTask(c) \/ TranscribeSync(c)
    <3>1. sess[c] \in Recordings /\ pc[c] \in Places /\ UNCHANGED ctxDone
      BY <2>1 DEF SpawnTask, TranscribeSync, At, PlaceInv, Holding
    <3>2. CASE r = sess[c]
      BY <3>1, <3>2 DEF Pending
    <3>3. CASE r # sess[c]
      <4>1. inner'[r] = inner[r] /\ task'[r] = task[r] /\ pc'[c] \notin Places
            /\ \A d \in Clients \ {c} : pc'[d] = pc[d] /\ sess'[d] = sess[d]
        BY <2>1, <3>1, <3>3 DEF SpawnTask, TranscribeSync, Goto, AfterStop
      <4>. QED  BY <4>1, <3>1 DEF Pending, Cancelled
    <3>. QED  BY <3>2, <3>3
  <2>2. CASE BeginSession(c)
    <3>1. pc[c] = "begin" /\ pc' = [pc EXCEPT ![c] = "spawn"] /\ UNCHANGED <<sess, inner, task, ctxDone>>
      BY <2>2 DEF BeginSession, At, Goto
    <3>. QED  BY <3>1 DEF Pending, Cancelled
  <2>3. CASE ~(SpawnTask(c) \/ TranscribeSync(c) \/ BeginSession(c))
    <3>1. /\ UNCHANGED <<inner, task, ctxDone>>
          /\ \A d \in Clients \ {c} : pc'[d] = pc[d] /\ sess'[d] = sess[d]
          /\ pc'[c] \notin Places \/ (pc'[c] = pc[c] /\ sess'[c] = sess[c])
      BY <1>2, <2>3 DEF Handler, StartIgnored, HandleStartRecording, StartFails, StartWithoutModel,
                  Succeed, RetryOrFail, AfterStart, StopTooShort, StopFails, AfterEmptyStop,
                  StopNotRecording, SkipTranscription, AfterStop,
                  ReplyAtOnce, StartWaiting, ReplyTranscript, ReplyTimeout,
                  ReturnSync, ClearSession, LoadEngine, LoadEngineFails, LockForSwap, RejectSwap,
                  SwapEngine, CloseOldEngine, Move, Goto
    <3>. QED  BY <3>1 DEF Pending, Cancelled
  <2>. QED  BY <2>1, <2>2, <2>3
<1>3. ASSUME NEW c \in Clients, Trigger(c) PROVE Pending(r)
  <2>1. /\ UNCHANGED <<inner, task, ctxDone, sess>>
        /\ \E l \in PC \ Places : Goto(c, l)
    BY <1>3 DEF Trigger, ToggleRecording, PressHotkey, ReleaseHotkey, RequestStart, RequestStop,
                UpdateRecordingMethod, SwitchModel, Call, Idle, At, Move, PC
  <2>. QED  BY <2>1 DEF Goto, Pending, Cancelled
<1>4. ASSUME NEW q \in Recordings, EngineCall(q) PROVE Pending(r)
  <2>1. /\ UNCHANGED <<pc, sess, task, ctxDone>>
        /\ \E x : inner' = [inner EXCEPT ![q] = x] /\ x # "ready"
    BY <1>4 DEF EngineCall, LoadAudio, LoadFails, EngineReturns, Results
  <2>. QED  BY <2>1 DEF Pending, Cancelled
<1>5. ASSUME NEW q \in Recordings, Task(q) PROVE Pending(r)
  <2>1. /\ UNCHANGED <<pc, sess, inner, ctxDone>> /\ task[q] \notin {"none", "done"}
        /\ \E x \in {"got", "output", "done"} : task' = [task EXCEPT ![q] = x]
    BY <1>5 DEF Task, TakeResult, HandleTranscriptionError, StoreTranscript, HandleEmptyTranscript,
              OutputSucceeds, OutputFails, HandleTranscriptionCancellation, TaskIn
  <2>2. Cancelled(r) => Cancelled(r)'
    BY <2>1 DEF Cancelled
  <2>. QED  BY <2>1, <2>2 DEF Pending
<1>6. ASSUME NEW q \in Recordings, Capture(q) PROVE UNCHANGED Seen
  BY <1>6 DEF Capture
<1>7. ASSUME NEW p \in Paths, CleanupOldFile(p) PROVE UNCHANGED Seen
  BY <1>7 DEF CleanupOldFile
<1>8. CASE Shutdown
  <2>1. (ctxDone => ctxDone') /\ UNCHANGED <<pc, sess, inner, task>>
    BY <1>8 DEF Shutdown, StopIPC, CancelAudio, AudioShutdownReturns, StopUIAndIO, StopHotkeys,
                CleanupAndExit, UnchangedByShutdown
  <2>. QED  BY <2>1 DEF Pending, Cancelled
<1>9. UNCHANGED vars => UNCHANGED Seen
  OBVIOUS
<1>. QED  BY <1>1, <1>2, <1>3, <1>4, <1>5, <1>6, <1>7, <1>8, <1>9, <1>10 DEF Next

\* What is pending has been recorded, and is not running any more.
LEMMA PendingIsOver ==
  ASSUME Known, UntouchedInv, NEW r \in Recordings, Pending(r)
  PROVE  r <= nrec /\ r # cmd
<1>. USE DEF Known, TypeOK, RecorderTypeOK, ServiceTypeOK
<1>1. ASSUME inner[r] = "ready" PROVE r <= nrec /\ r # cmd
  BY <1>1, MaxRecAssumption DEF UntouchedInv
<1>2. ASSUME NEW c \in Clients, sess[c] = r PROVE r <= nrec /\ r # cmd
  BY <1>2, MaxRecAssumption DEF OwnerInv, SingleOwner
<1>. QED  BY <1>1, <1>2 DEF Pending

\* Its audio stays, whatever is removed and written, as long as it is pending,
\* alone in having its name, and the session is not cleared.
LEMMA IntactStep ==
  ASSUME Known, NameInv, UntouchedInv, [Next]_vars,
         NEW r \in Recordings, Pending(r), Pending(r)', AudioIntact(r), stage' # "exited",
         ~NameShared(r)', ~\E c \in Setters : ClearSession(c)
  PROVE  AudioIntact(r)'
<1>. USE DEF Known, TypeOK, RecorderTypeOK, ServiceTypeOK
<1>1. r <= nrec /\ r # cmd
  BY PendingIsOver
\* Another file is removed, or none.
<1>2. ASSUME UNCHANGED <<pathOf, audio>>, NEW p, p # pathOf[r], files' = files \/ files' = files \ {p}
      PROVE  AudioIntact(r)'
  BY <1>2 DEF AudioIntact
<1>3. CASE UNCHANGED <<pathOf, files, audio>>
  BY <1>3 DEF AudioIntact
<1>0. ASSUME UNCHANGED pathOf, NEW q \in Recordings, q # r PROVE pathOf[q] # pathOf[r]
  BY <1>0 DEF NameShared
<1>4. ASSUME NEW c \in Clients, Handler(c) PROVE AudioIntact(r)'
  <2>1. CASE HandleStartRecording(c) \/ StartFails(c)
    <3>1. CASE \E p \in NameChoices : Attempt(p)
      <4>1. PICK p \in NameChoices : Attempt(p)
        BY <3>1
      <4>2. p \in Paths /\ nrec + 1 \in Recordings
        BY <4>1, MaxRecAssumption DEF NameChoices, Attempt
      <4>3. /\ pathOf' = [pathOf EXCEPT ![nrec + 1] = p] /\ files' = files \cup {p}
            /\ audio' = audio \/ audio' = [audio EXCEPT ![p] = NoAudio]
        BY <4>1 DEF Attempt, NextRec, CreateTempWav
      <4>4. r # nrec + 1
        BY <1>1, MaxRecAssumption
      <4>5. pathOf[r] # p
        BY <4>2, <4>3, <4>4 DEF NameShared
      <4>. QED  BY <4>2, <4>3, <4>4, <4>5 DEF AudioIntact
    <3>2. CASE UNCHANGED <<pathOf, files, audio>>
      BY <3>2 DEF AudioIntact
    <3>. QED  BY <2>1, <3>1, <3>2 DEF HandleStartRecording, StartFails, StartSucceeds, StartFailsLate,
                                      StartFailsEarly
  <2>2. CASE StopTooShort(c) \/ StopFails(c)
    <3>1. /\ UNCHANGED <<pathOf, audio>> /\ (files' = files \/ files' = files \ {outFile})
          /\ cmd # NoProc
      BY <2>2 DEF StopTooShort, StopFails, ReapProcess, CleanupFile, RemoveFile, SessionOwnsProcess
    <3>2. cmd \in Recordings /\ outFile = pathOf[cmd]
      BY <3>1 DEF NameInv
    <3>3. outFile # pathOf[r]
      BY <1>0, <1>1, <3>1, <3>2
    <3>. QED  BY <1>2, <3>1, <3>3
  <2>3. CASE ReturnSync(c)
    <3>1. /\ UNCHANGED <<pathOf, audio, inner, task, ctxDone>> /\ files' = files \ {pathOf[sess[c]]}
          /\ pc[c] \in {"syncCheck", "syncWait"} /\ sess[c] \in Recordings
          /\ pc[c] = "syncWait" => inner[sess[c]] # "ready"
          /\ sess' = [sess EXCEPT ![c] = NoRec]
          /\ \A d \in Clients \ {c} : pc'[d] = pc[d]
      BY <2>3 DEF ReturnSync, RemoveFile, At, Goto, PlaceInv, Holding
    <3>2. inner[sess[c]] # "ready"
      BY <3>1 DEF UntouchedInv
    <3>3. sess[c] # r
      BY <3>1, <3>2 DEF Pending, OwnerInv, SingleOwner
    <3>4. pathOf[sess[c]] # pathOf[r]
      BY <1>0, <3>1, <3>3
    <3>. QED  BY <1>2, <3>1, <3>4
  <2>4. ~ClearSession(c)
    BY DEF ClearSession, At, UntouchedInv
  <2>5. CASE ~(\/ HandleStartRecording(c) \/ StartFails(c) \/ StopTooShort(c) \/ StopFails(c)
               \/ ReturnSync(c))
    <3>1. UNCHANGED <<pathOf, files, audio>>
      BY <1>4, <2>4, <2>5
      DEF Handler, StartIgnored, StartWithoutModel, StopNotRecording, StopCaptures, ReapProcess,
          SkipTranscription, BeginSession, SpawnTask, ReplyAtOnce, StartWaiting, ReplyTranscript,
          ReplyTimeout, TranscribeSync, LoadEngine, LoadEngineFails, LockForSwap, RejectSwap,
          SwapEngine, CloseOldEngine, Move
    <3>. QED  BY <1>3, <3>1
  <2>. QED  BY <2>1, <2>2, <2>3, <2>5
<1>5. ASSUME NEW c \in Clients, Trigger(c) PROVE AudioIntact(r)'
  <2>1. UNCHANGED <<pathOf, files, audio>>
    BY <1>5 DEF Trigger, ToggleRecording, PressHotkey, ReleaseHotkey, RequestStart, RequestStop,
                UpdateRecordingMethod, SwitchModel, Call, Move
  <2>. QED  BY <1>3, <2>1
<1>6. ASSUME NEW q \in Recordings, Task(q) PROVE AudioIntact(r)'
  <2>1. CASE TakeResult(q) \/ HandleTranscriptionError(q)
    <3>1. /\ UNCHANGED <<pathOf, audio>> /\ files' = files \ {pathOf[q]}
          /\ inner[q] # "ready" /\ task[q] # "none"
      BY <2>1 DEF TakeResult, HandleTranscriptionError, TaskIn, RemoveFile
    <3>2. q # r
      BY <3>1 DEF Pending, OwnerInv, SingleOwner
    <3>. QED  BY <1>0, <1>2, <3>1, <3>2
  <2>2. CASE ~(TakeResult(q) \/ HandleTranscriptionError(q))
    <3>1. UNCHANGED <<pathOf, files, audio>>
      BY <1>6, <2>2 DEF Task, StoreTranscript, HandleEmptyTranscript, OutputSucceeds, OutputFails,
                        HandleTranscriptionCancellation
    <3>. QED  BY <1>3, <3>1
  <2>. QED  BY <2>1, <2>2
<1>7. ASSUME NEW q \in Recordings, EngineCall(q) PROVE AudioIntact(r)'
  <2>1. UNCHANGED <<pathOf, files, audio>>
    BY <1>7 DEF EngineCall, LoadAudio, LoadFails, EngineReturns
  <2>. QED  BY <1>3, <2>1
<1>8. ASSUME NEW q \in Recordings, Capture(q) PROVE AudioIntact(r)'
  <2>1. CASE ProcessWrites(q)
    <3>1. q = cmd /\ pathOf' = pathOf
      BY <2>1 DEF ProcessWrites, SessionOwnsProcess
    <3>2. pathOf[q] # pathOf[r]
      BY <1>0, <1>1, <3>1
    <3>. QED  BY <2>1, <3>2 DEF ProcessWrites, AudioIntact
  <2>2. CASE ProcessDies(q)
    BY <2>2, <1>3 DEF ProcessDies
  <2>. QED  BY <1>8, <2>1, <2>2 DEF Capture
<1>9. ASSUME NEW p \in Paths, CleanupOldFile(p) PROVE AudioIntact(r)'
  BY <1>2, <1>9 DEF CleanupOldFile, RemoveFile
<1>10. CASE Shutdown
  <2>1. UNCHANGED <<pathOf, files, audio>>
    BY <1>10 DEF Shutdown, StopIPC, CancelAudio, AudioShutdownReturns, StopUIAndIO, StopHotkeys,
                CleanupAndExit, Advance, UnchangedByShutdown, ReapProcess
  <2>. QED  BY <1>3, <2>1
<1>11. CASE UNCHANGED vars
  BY <1>3, <1>11
<1>. QED  BY <1>4, <1>5, <1>6, <1>7, <1>8, <1>9, <1>10, <1>11 DEF Next

\* Names, and what is untouched.
AudioInv == NameInv /\ UntouchedInv

\* A step that leaves a recording pending leaves it its audio.
LEMMA KeptStep ==
  ASSUME Known, AudioInv, [Next]_vars
  PROVE  \A r \in Recordings :
           /\ Pending(r)' /\ stage' # "exited" /\ ~NameShared(r)'
           /\ Pending(r) => AudioIntact(r)
           => AudioIntact(r)' \/ \E c \in Setters : ClearSession(c)
<1>. SUFFICES ASSUME NEW r \in Recordings, Pending(r)', stage' # "exited", ~NameShared(r)',
                     Pending(r) => AudioIntact(r), ~\E c \in Setters : ClearSession(c)
              PROVE  AudioIntact(r)'
  OBVIOUS
<1>1. CASE \E c \in Clients : StopCaptures(c) /\ r = cmd
  BY <1>1, CaptureIntact DEF AudioInv
<1>2. CASE Pending(r)
  BY <1>2, IntactStep DEF AudioInv
<1>. QED  BY <1>1, <1>2, PendingBefore DEF AudioInv

\* A recording is captured with its audio and keeps it on disk until the engine
\* has read it, under every removal by stops, transcriptions and the sweeper;
\* only the clearing of the session and an attempt within the same second may
\* take it away.  (CleanupFile, cleanupRecording, CreateTempWav, cleanupOldFiles)
THEOREM AudioStays == Spec => PendingAudioKept
<1>1. Init => OwnerInv /\ AudioInv
  <2>. SUFFICES ASSUME Init PROVE AudioInv
    BY OwnerStarts
  <2>1. NameInv
    BY MaxRecAssumption DEF Init, RecorderInit, NameInv, Recordings
  <2>2. UntouchedInv
    BY DEF Init, UntouchedInv
  <2>. QED  BY <2>1, <2>2 DEF AudioInv
<1>2. TypeOK /\ PlaceInv /\ OwnerInv /\ [Next]_vars => OwnerInv'
  BY OwnerStep
<1>3. TypeOK /\ PlaceInv /\ SessionOwnsProcess /\ OwnerInv /\ AudioInv /\ [Next]_vars => AudioInv'
  BY NameStep, UntouchedStep DEF AudioInv, Known
<1>4. TypeOK /\ PlaceInv /\ SessionOwnsProcess /\ OwnerInv /\ AudioInv /\ [Next]_vars
      => [\A r \in Recordings :
            /\ Pending(r)' /\ stage' # "exited" /\ ~NameShared(r)'
            /\ Pending(r) => AudioIntact(r)
            => AudioIntact(r)' \/ \E c \in Setters : ClearSession(c)]_vars
  BY KeptStep DEF Known
<1>. QED  BY <1>1, <1>2, <1>3, <1>4, TypesHold, SessionProcess, PTL DEF Spec, PendingAudioKept

(***************************************************************************)
(* AudioService implements RecordingSession.  A step of the service is     *)
(* seen through four sets of recordings: those to come, the one that is    *)
(* running, those in a caller's hands and those in a transcription.        *)
(***************************************************************************)

HIDE DEF NoFile, NoAudio, Paths, NoText, NoCh, Texts, Engines, vars, recorderVars, processVars,
         fileVars, ioVars, clientVars, taskVars, engineVars, sessionVars, appVars

Captured == {r \in Recordings :
               \E c \in Clients : sess[c] = r /\ pc[c] \in {"begin", "spawn", "syncCheck"}}

Transcribing == {r \in Recordings :
                   r \in Tracked \/ \E c \in Clients : sess[c] = r /\ pc[c] = "syncWait"}

View == <<nrec, cmd, Captured, Transcribing>>

\* The refinement mapping.
Abstract == [r \in Recordings |-> Phase(r)]

(***************************************************************************)
(* The mapping                                                             *)
(***************************************************************************)

PhaseIn(r, n, running, captured, transcribing) ==
  IF r > n THEN "new"
  ELSE IF r = running THEN "recording"
  ELSE IF r \in captured THEN "captured"
  ELSE IF r \in transcribing THEN "transcribing"
  ELSE "over"

\* Phase depends on the view alone, before and after a step.
LEMMA PhaseOfView ==
  ASSUME NEW r \in Recordings
  PROVE  /\ Phase(r) = PhaseIn(r, nrec, cmd, Captured, Transcribing)
         /\ Phase(r)' = PhaseIn(r, nrec', cmd', Captured', Transcribing')
  BY DEF Phase, PhaseIn, Captured, Transcribing, Tracked

\* A recording is in one place at a time.
LEMMA Apart ==
  ASSUME Known
  PROVE  /\ nrec \in 0..MaxRec /\ cmd \in 0..nrec
         /\ \A r \in Captured \cup Transcribing : r \in Recordings /\ ~(r > nrec) /\ r # cmd
         /\ Captured \cap Transcribing = {}
<1>. USE DEF Known, TypeOK, RecorderTypeOK, ServiceTypeOK, OwnerInv, SingleOwner
<1>1. nrec \in 0..MaxRec /\ cmd \in 0..nrec
  BY MaxRecAssumption
<1>2. ASSUME NEW r \in Captured
      PROVE  r \in Recordings /\ ~(r > nrec) /\ r # cmd /\ r \notin Transcribing
  BY <1>2 DEF Captured, Transcribing, Tracked
<1>3. ASSUME NEW r \in Transcribing
      PROVE  r \in Recordings /\ ~(r > nrec) /\ r # cmd
  BY <1>3 DEF Transcribing, Tracked
<1>. QED  BY <1>1, <1>2, <1>3

\* The phases that follow each phase.
LEMMA SuccOf ==
  /\ Session!Succ["new"] = {"recording", "over"}
  /\ Session!Succ["recording"] = {"captured", "over"}
  /\ Session!Succ["captured"] = {"transcribing", "over"}
  /\ Session!Succ["transcribing"] = {"over"}
  BY DEF Session!Succ, Session!Phases

\* One recording changes its phase, the others keep theirs.
LEMMA OneMoves ==
  ASSUME NEW r \in Recordings, Phase(r)' \in Session!Succ[Phase(r)],
         \A o \in Recordings \ {r} : Phase(o)' = Phase(o),
         Phase(r) = "new" => /\ \A o \in Recordings : Phase(o) # "recording"
                             /\ \A o \in 1..(r - 1) : Phase(o) # "new"
  PROVE  Session!SessionNext
<1>1. Abstract' = [Abstract EXCEPT ![r] = Phase(r)']
  BY DEF Abstract
<1>2. Abstract[r] = Phase(r) /\ \A o \in Recordings : Abstract[o] = Phase(o)
  BY DEF Abstract
<1>3. \A o \in 1..(r - 1) : o \in Recordings
  BY MaxRecAssumption
<1>4. Session!Progress(r)
  <2>1. \E q \in Session!Succ[Abstract[r]] : Abstract' = [Abstract EXCEPT ![r] = q]
    BY <1>1, <1>2
  <2>2. Abstract[r] = "new" => /\ \A o \in Recordings : Abstract[o] # "recording"
                               /\ \A o \in 1..(r - 1) : Abstract[o] # "new"
    BY <1>2, <1>3
  <2>. QED  BY <2>1, <2>2 DEF Session!Progress, Session!Recordings, Abstract
<1>. QED  BY <1>4 DEF Session!SessionNext, Session!Recordings

(***************************************************************************)
(* The five ways in which a step changes the view                          *)
(***************************************************************************)

\* Nothing changes.
LEMMA ViewRests == UNCHANGED View => UNCHANGED Abstract
<1>. SUFFICES ASSUME UNCHANGED View PROVE UNCHANGED Abstract
  OBVIOUS
<1>1. \A r \in Recordings : Phase(r)' = Phase(r)
  BY PhaseOfView DEF PhaseIn, View
<1>. QED  BY <1>1 DEF Abstract

\* StartRecording takes the next number.
LEMMA ViewStarts ==
  ASSUME Known, cmd = NoProc, nrec < MaxRec, nrec' = nrec + 1, cmd' \in {NoProc, nrec + 1},
         UNCHANGED <<Captured, Transcribing>>
  PROVE  Session!SessionNext
<1>1. PICK r \in Recordings : r = nrec + 1
  BY Apart, MaxRecAssumption
<1>2. r \notin Captured /\ r \notin Transcribing /\ r > nrec
  BY <1>1, Apart
<1>3. Phase(r) = "new" /\ Phase(r)' \in {"recording", "over"}
  BY <1>1, <1>2, PhaseOfView, Apart DEF PhaseIn
<1>4. \A o \in Recordings \ {r} : Phase(o)' = Phase(o)
  <2>1. \A o \in Recordings \ {r} : (o > nrec' <=> o > nrec) /\ o # cmd /\ o # cmd'
    BY <1>1, Apart, MaxRecAssumption
  <2>. QED  BY <2>1, PhaseOfView DEF PhaseIn
<1>5. \A o \in Recordings : Phase(o) # "recording"
  BY PhaseOfView, Apart DEF PhaseIn
<1>6. \A o \in 1..(r - 1) : Phase(o) # "new"
  <2>1. \A o \in 1..(r - 1) : o \in Recordings /\ ~(o > nrec)
    BY <1>1, Apart, MaxRecAssumption
  <2>. QED  BY <2>1, PhaseOfView DEF PhaseIn
<1>. QED  BY <1>3, <1>4, <1>5, <1>6, OneMoves, SuccOf

\* StopRecording takes the process away, and may pass its file to a caller.
LEMMA ViewStops ==
  ASSUME Known, cmd # NoProc, cmd' = NoProc, UNCHANGED <<nrec, Transcribing>>,
         Captured' \in {Captured, Captured \cup {cmd}}
  PROVE  Session!SessionNext
<1>1. PICK r \in Recordings : r = cmd
  BY Apart, MaxRecAssumption
<1>2. r \notin Captured /\ r \notin Transcribing /\ ~(r > nrec)
  BY <1>1, Apart
<1>3. Phase(r) = "recording" /\ Phase(r)' \in {"captured", "over"}
  BY <1>1, <1>2, PhaseOfView DEF PhaseIn
<1>4. \A o \in Recordings \ {r} : Phase(o)' = Phase(o)
  BY <1>1, PhaseOfView DEF PhaseIn
<1>. QED  BY <1>3, <1>4, OneMoves, SuccOf

\* A caller gives a captured recording up or to a transcription.
LEMMA ViewPassesOn ==
  ASSUME Known, UNCHANGED <<nrec, cmd>>, NEW r \in Captured, Captured' = Captured \ {r},
         Transcribing' \in {Transcribing, Transcribing \cup {r}}
  PROVE  Session!SessionNext
<1>1. r \in Recordings /\ r # cmd /\ ~(r > nrec) /\ r \notin Transcribing
  BY Apart
<1>2. Phase(r) = "captured" /\ Phase(r)' \in {"transcribing", "over"}
  BY <1>1, PhaseOfView DEF PhaseIn
<1>3. \A o \in Recordings \ {r} : Phase(o)' = Phase(o)
  BY PhaseOfView DEF PhaseIn
<1>. QED  BY <1>1, <1>2, <1>3, OneMoves, SuccOf

\* A transcription comes to its end.
LEMMA ViewEnds ==
  ASSUME Known, UNCHANGED <<nrec, cmd, Captured>>, NEW r \in Transcribing,
         Transcribing' = Transcribing \ {r}
  PROVE  Session!SessionNext
<1>1. r \in Recordings /\ r # cmd /\ ~(r > nrec) /\ r \notin Captured
  BY Apart
<1>2. Phase(r) = "transcribing" /\ Phase(r)' = "over"
  BY <1>1, PhaseOfView DEF PhaseIn
<1>3. \A o \in Recordings \ {r} : Phase(o)' = Phase(o)
  BY PhaseOfView DEF PhaseIn
<1>. QED  BY <1>1, <1>2, <1>3, OneMoves, SuccOf

(***************************************************************************)
(* The steps                                                               *)
(***************************************************************************)

\* The variables that the view is made of.
LEMMA ViewOfVariables == UNCHANGED <<nrec, cmd, sess, pc, task>> => UNCHANGED View
  BY DEF View, Captured, Transcribing, Tracked

\* A client that has no recording before and after the step.
LEMMA OthersKeep ==
  ASSUME Known, NEW c \in Clients, pc[c] \notin Holding,
         pc' = pc \/ \E l \in PC \ Holding : Goto(c, l),
         UNCHANGED <<sess, task>>
  PROVE  UNCHANGED <<Captured, Transcribing>>
  BY DEF Known, TypeOK, ServiceTypeOK, Captured, Transcribing, Tracked, Goto, Holding

\* A start makes a recording of the next number, fails with it, or does nothing.
LEMMA StartMaps ==
  ASSUME Known, NEW c \in Clients, HandleStartRecording(c) \/ StartFails(c)
  PROVE  Session!SessionNext \/ UNCHANGED View
<1>1. cmd = NoProc /\ HeldProcess = NoProc
  BY DEF Known, SessionOwnsProcess, HandleStartRecording, StartFails, HeldProcess
<1>2. UNCHANGED <<Captured, Transcribing>>
  <2>1. pc' = pc \/ Goto(c, AfterStart(c))
    BY DEF HandleStartRecording, StartFails, RetryOrFail, Succeed
  <2>2. AfterStart(c) \in PC \ Holding /\ pc[c] \notin Holding /\ UNCHANGED <<sess, task>>
    BY DEF HandleStartRecording, StartFails, AfterStart, At, PC, Holding, taskVars
  <2>. QED  BY <2>1, <2>2, OthersKeep
<1>3. CASE StartSucceeds(NoProc) \/ StartFailsLate(NoProc)
  <2>1. nrec < MaxRec /\ nrec' = nrec + 1 /\ cmd' \in {NoProc, nrec + 1}
    BY <1>3 DEF StartSucceeds, StartFailsLate, Attempt, NextRec
  <2>. QED  BY <1>1, <1>2, <2>1, ViewStarts
<1>4. CASE StartFailsEarly(NoProc, HeldFile)
  BY <1>1, <1>2, <1>4 DEF StartFailsEarly, View
<1>. QED  BY <1>1, <1>3, <1>4 DEF HandleStartRecording, StartFails

\* A stop captures or drops the running recording.
LEMMA StopMaps ==
  ASSUME Known, NEW c \in Clients, StopCaptures(c) \/ StopTooShort(c) \/ StopFails(c)
  PROVE  Session!SessionNext
<1>. USE DEF Known
<1>1. /\ cmd # NoProc /\ cmd' = NoProc /\ nrec' = nrec /\ task' = task
      /\ pc[c] \in {"stop", "syncStop"} /\ sess[c] = NoRec
  BY DEF SessionOwnsProcess, StopCaptures, StopTooShort, StopFails, Stopping, At, ReapProcess,
         taskVars, PlaceInv, Holding
<1>2. CASE StopCaptures(c)
  <2>1. PICK l \in {"begin", "syncCheck"} : pc' = [pc EXCEPT ![c] = l]
    BY <1>2 DEF StopCaptures, Goto
  <2>2. sess' = [sess EXCEPT ![c] = cmd]
    BY <1>2 DEF StopCaptures
  <2>3. cmd \in Recordings
    BY <1>1 DEF TypeOK, RecorderTypeOK
  <2>4. Captured' = Captured \cup {cmd}
    BY <1>1, <2>1, <2>2, <2>3 DEF Captured, TypeOK, ServiceTypeOK
  <2>5. Transcribing' = Transcribing
    BY <1>1, <2>1, <2>2 DEF Transcribing, Tracked, TypeOK, ServiceTypeOK
  <2>. QED  BY <1>1, <2>4, <2>5, ViewStops
<1>3. CASE StopTooShort(c) \/ StopFails(c)
  <2>1. Goto(c, AfterEmptyStop(c)) /\ UNCHANGED <<sess, task>>
    BY <1>3 DEF StopTooShort, StopFails, taskVars
  <2>2. AfterEmptyStop(c) \in PC \ Holding /\ pc[c] \notin Holding
    BY <1>1 DEF AfterEmptyStop, PC, Holding
  <2>. QED  BY <1>1, <2>1, <2>2, OthersKeep, ViewStops
<1>. QED  BY <1>2, <1>3

\* A caller that has a recording passes it on.
LEMMA HandOverMaps ==
  ASSUME Known, NEW c \in Clients,
         SkipTranscription(c) \/ SpawnTask(c) \/ TranscribeSync(c) \/ ReturnSync(c)
  PROVE  Session!SessionNext
<1>. USE DEF Known, TypeOK, ServiceTypeOK
<1>1. PICK r \in Recordings : r = sess[c]
  BY DEF SkipTranscription, SpawnTask, TranscribeSync, ReturnSync, At, PlaceInv, Holding
<1>2. task[r] = "none" /\ \A d \in Clients : sess[d] = r => d = c
  BY <1>1 DEF OwnerInv, SingleOwner
<1>3. UNCHANGED <<nrec, cmd>>
  BY DEF SkipTranscription, SpawnTask, TranscribeSync, ReturnSync, recorderVars, processVars
<1>4. ASSUME pc[c] \in {"begin", "spawn", "syncCheck"}, sess'[c] = NoRec \/ pc'[c] = "syncWait",
             \A d \in Clients \ {c} : pc'[d] = pc[d] /\ sess'[d] = sess[d]
      PROVE  r \in Captured /\ Captured' = Captured \ {r}
  <2>1. ASSUME NEW o \in Recordings \ {r} PROVE o \in Captured' <=> o \in Captured
    <3>1. ASSUME o \in Captured PROVE o \in Captured'
      <4>1. PICK d \in Clients \ {c} : sess[d] = o /\ pc[d] \in {"begin", "spawn", "syncCheck"}
        BY <1>1, <3>1 DEF Captured
      <4>. QED  BY <1>4, <4>1 DEF Captured
    <3>2. ASSUME o \in Captured' PROVE o \in Captured
      <4>1. PICK d \in Clients : sess'[d] = o /\ pc'[d] \in {"begin", "spawn", "syncCheck"}
        BY <3>2 DEF Captured
      <4>2. d # c
        BY <1>4, <4>1
      <4>. QED  BY <1>4, <4>1, <4>2 DEF Captured
    <3>. QED  BY <3>1, <3>2
  <2>2. r \in Captured /\ r \notin Captured'
    BY <1>1, <1>2, <1>4 DEF Captured
  <2>3. Captured \subseteq Recordings /\ Captured' \subseteq Recordings
    BY DEF Captured
  <2>. QED  BY <2>1, <2>2, <2>3
<1>5. CASE SkipTranscription(c) \/ (ReturnSync(c) /\ At(c, "syncCheck"))
  <2>1. /\ sess' = [sess EXCEPT ![c] = NoRec] /\ task' = task
        /\ \E l \in PC \ Holding : pc' = [pc EXCEPT ![c] = l]
        /\ pc[c] \in {"begin", "syncCheck"}
    BY <1>5 DEF SkipTranscription, ReturnSync, AfterStop, PC, Holding, At, Goto, taskVars
  <2>2. Transcribing' = Transcribing
    BY <1>1, <2>1 DEF Transcribing, Tracked, Holding
  <2>. QED  BY <1>3, <1>4, <2>1, <2>2, ViewPassesOn
<1>6. CASE SpawnTask(c)
  <2>1. /\ sess' = [sess EXCEPT ![c] = NoRec] /\ task' = [task EXCEPT ![r] = "wait"]
        /\ \E l \in PC \ Holding : pc' = [pc EXCEPT ![c] = l]
        /\ pc[c] = "spawn"
    BY <1>1, <1>6 DEF SpawnTask, AfterStop, PC, Holding, At, Goto
  <2>2. Transcribing' = Transcribing \cup {r}
    BY <1>1, <2>1 DEF Transcribing, Tracked, Holding
  <2>. QED  BY <1>3, <1>4, <2>1, <2>2, ViewPassesOn
<1>7. CASE TranscribeSync(c)
  <2>1. sess' = sess /\ task' = task /\ pc' = [pc EXCEPT ![c] = "syncWait"] /\ pc[c] = "syncCheck"
    BY <1>7 DEF TranscribeSync, At, Goto
  <2>2. Transcribing' = Transcribing \cup {r}
    BY <1>1, <2>1 DEF Transcribing, Tracked
  <2>. QED  BY <1>3, <1>4, <2>1, <2>2, ViewPassesOn
<1>8. CASE ReturnSync(c) /\ At(c, "syncWait")
  <2>1. /\ sess' = [sess EXCEPT ![c] = NoRec] /\ task' = task
        /\ pc' = [pc EXCEPT ![c] = "idle"] /\ pc[c] = "syncWait"
    BY <1>8 DEF ReturnSync, At, Goto, taskVars
  <2>2. Captured' = Captured
    BY <1>1, <2>1 DEF Captured
  <2>3. r \in Transcribing /\ Transcribing' = Transcribing \ {r}
    <3>1. \A o \in Recordings \ {r} : o \in Transcribing' <=> o \in Transcribing
      BY <1>1, <2>1 DEF Transcribing, Tracked
    <3>2. r \in Transcribing /\ r \notin Transcribing'
      BY <1>1, <1>2, <2>1 DEF Transcribing, Tracked
    <3>. QED  BY <3>1, <3>2 DEF Transcribing
  <2>. QED  BY <1>3, <2>2, <2>3, ViewEnds
<1>. QED  BY <1>5, <1>6, <1>7, <1>8 DEF ReturnSync

\* The outer goroutine ends a transcription or goes on with it.
LEMMA TaskMaps ==
  ASSUME Known, NEW r \in Recordings, Task(r)
  PROVE  Session!SessionNext \/ UNCHANGED View
<1>. USE DEF Known, TypeOK, ServiceTypeOK
<1>1. task[r] \notin {"none", "done"} /\ UNCHANGED <<nrec, cmd, sess, pc>>
      /\ \E st \in {"got", "output", "done"} : task' = [task EXCEPT ![r] = st]
  BY DEF Task, TakeResult, HandleTranscriptionError, StoreTranscript, HandleEmptyTranscript,
         OutputSucceeds, OutputFails, HandleTranscriptionCancellation, TaskIn, recorderVars,
         processVars, clientVars
<1>2. Captured' = Captured
  BY <1>1 DEF Captured
<1>3. r \in Transcribing
  BY <1>1 DEF Transcribing, Tracked
<1>4. CASE task'[r] = "done"
  <2>1. ASSUME NEW c \in Clients, sess[c] = r PROVE FALSE
    <3>1. sess[c] # NoRec
      BY <2>1, MaxRecAssumption
    <3>. QED  BY <1>1, <2>1, <3>1 DEF OwnerInv, SingleOwner
  <2>2. \A o \in Recordings \ {r} : o \in Transcribing' <=> o \in Transcribing
    BY <1>1 DEF Transcribing, Tracked
  <2>3. r \notin Transcribing'
    BY <1>1, <1>4, <2>1 DEF Transcribing, Tracked
  <2>4. Transcribing' = Transcribing \ {r}
    BY <1>3, <2>2, <2>3 DEF Transcribing
  <2>. QED  BY <1>1, <1>2, <1>3, <2>4, ViewEnds
<1>5. CASE task'[r] # "done"
  <2>1. Transcribing' = Transcribing
    BY <1>1, <1>5 DEF Transcribing, Tracked
  <2>. QED  BY <1>1, <1>2, <2>1 DEF View
<1>. QED  BY <1>4, <1>5

\* No other step of a client changes the view.
LEMMA OtherStepsRest ==
  ASSUME Known, NEW c \in Clients,
         \/ Trigger(c)
         \/ StartIgnored(c) \/ StartWithoutModel(c) \/ StopNotRecording(c)
         \/ ReplyAtOnce(c) \/ StartWaiting(c) \/ ReplyTranscript(c) \/ ReplyTimeout(c)
         \/ ClearSession(c)
         \/ LoadEngine(c) \/ LoadEngineFails(c) \/ LockForSwap(c) \/ RejectSwap(c)
         \/ SwapEngine(c) \/ CloseOldEngine(c)
  PROVE  UNCHANGED View
<1>1. CASE Trigger(c)
  <2>1. /\ pc[c] \in {"idle", "held"} /\ UNCHANGED <<nrec, cmd, sess, task>>
        /\ \E l \in PC \ Holding : Goto(c, l)
    BY <1>1 DEF Trigger, ToggleRecording, PressHotkey, ReleaseHotkey, RequestStart, RequestStop,
                UpdateRecordingMethod, SwitchModel, Call, Idle, At, Move, PC, Holding, taskVars,
                recorderVars, processVars
  <2>. QED  BY <2>1, OthersKeep DEF View, Holding
<1>2. CASE StartIgnored(c) \/ StartWithoutModel(c)
  <2>1. /\ pc[c] = "start" /\ UNCHANGED <<nrec, cmd, sess, task>>
        /\ pc' = pc \/ Goto(c, AfterStart(c))
    BY <1>2 DEF StartIgnored, StartWithoutModel, RetryOrFail, Succeed, At, taskVars,
                recorderVars, processVars
  <2>2. AfterStart(c) \in PC \ Holding
    BY DEF AfterStart, PC, Holding
  <2>. QED  BY <2>1, <2>2, OthersKeep DEF View, Holding
<1>3. CASE ~(Trigger(c) \/ StartIgnored(c) \/ StartWithoutModel(c))
  <2>1. /\ pc[c] \notin Holding /\ UNCHANGED <<nrec, cmd, sess, task>>
        /\ \E l \in PC \ Holding : Goto(c, l)
    BY <1>3 DEF StopNotRecording, Stopping, ReplyAtOnce, StartWaiting, ReplyTranscript, ReplyTimeout,
                ClearSession, LoadEngine, LoadEngineFails, LockForSwap, RejectSwap, SwapEngine,
                CloseOldEngine, Move, At, PC, Holding, taskVars, recorderVars, processVars
  <2>. QED  BY <2>1, OthersKeep DEF View
<1>. QED  BY <1>1, <1>2, <1>3

\* BeginTranscription leaves the recording with its caller.
LEMMA BeginRests ==
  ASSUME Known, NEW c \in Clients, BeginSession(c)
  PROVE  UNCHANGED View
<1>1. pc[c] = "begin" /\ pc' = [pc EXCEPT ![c] = "spawn"] /\ UNCHANGED <<nrec, cmd, sess, task>>
  BY DEF BeginSession, At, Goto, taskVars, recorderVars, processVars
<1>2. UNCHANGED <<Captured, Transcribing>>
  BY <1>1 DEF Known, TypeOK, ServiceTypeOK, Captured, Transcribing, Tracked
<1>. QED  BY <1>1, <1>2 DEF View

\* The shutdown drops the running recording.
LEMMA ShutdownMaps ==
  ASSUME Known, Shutdown
  PROVE  Session!SessionNext \/ UNCHANGED View
<1>1. UNCHANGED <<nrec, sess, pc, task>> /\ (cmd' = cmd \/ cmd' = NoProc)
  BY DEF Shutdown, StopIPC, CancelAudio, AudioShutdownReturns, StopUIAndIO, StopHotkeys,
         CleanupAndExit, UnchangedByShutdown, ReapProcess, clientVars, taskVars, recorderVars,
         processVars
<1>2. UNCHANGED <<Captured, Transcribing>>
  BY <1>1 DEF Captured, Transcribing, Tracked
<1>3. CASE cmd' = cmd
  BY <1>1, <1>2, <1>3 DEF View
<1>4. CASE cmd' # cmd
  BY <1>1, <1>2, <1>4, ViewStops
<1>. QED  BY <1>3, <1>4

\* Every step of the service is a step of one recording, or leaves all their
\* phases alone.
LEMMA StepMaps ==
  ASSUME Known, [Next]_vars
  PROVE  [Session!SessionNext]_Abstract
<1>1. ASSUME NEW c \in Clients, Trigger(c) \/ Handler(c)
      PROVE  Session!SessionNext \/ UNCHANGED View
  BY <1>1, StartMaps, StopMaps, HandOverMaps, OtherStepsRest, BeginRests DEF Handler
<1>2. ASSUME NEW r \in Recordings, EngineCall(r) \/ Capture(r)
      PROVE  UNCHANGED View
  <2>1. UNCHANGED <<nrec, cmd, sess, pc, task>>
    BY <1>2 DEF EngineCall, LoadAudio, LoadFails, EngineReturns, Capture, ProcessWrites, ProcessDies,
                clientVars, taskVars, recorderVars, processVars
  <2>. QED  BY <2>1, ViewOfVariables
<1>3. ASSUME NEW p \in Paths, CleanupOldFile(p)
      PROVE  UNCHANGED View
  <2>1. UNCHANGED <<nrec, cmd, sess, pc, task>>
    BY <1>3 DEF CleanupOldFile, clientVars, taskVars, processVars
  <2>. QED  BY <2>1, ViewOfVariables
<1>4. CASE UNCHANGED vars
  <2>1. UNCHANGED <<nrec, cmd, sess, pc, task>>
    BY <1>4 DEF vars, clientVars, taskVars, recorderVars, processVars
  <2>. QED  BY <2>1, ViewOfVariables, ViewRests
<1>. QED  BY <1>1, <1>2, <1>3, <1>4, TaskMaps, ShutdownMaps, ViewRests DEF Next

\* The audio service implements the abstract session: whatever callers,
\* goroutines, failures and the shutdown do, recordings come one at a time and in
\* order, each is captured by one caller at most, transcribed at most once, and
\* left alone when it is over.  (AudioService)
THEOREM SessionImplemented == Spec => ImplementsSession
<1>1. Init => Session!SessionInit
  <2>. SUFFICES ASSUME Init PROVE Session!SessionInit
    OBVIOUS
  <2>1. \A r \in Recordings : Phase(r) = "new"
    BY MaxRecAssumption DEF Init, RecorderInit, Phase
  <2>. QED  BY <2>1 DEF Session!SessionInit, Session!Recordings
<1>2. Known /\ [Next]_vars => [Session!SessionNext]_Abstract
  BY StepMaps
<1>3. Init => OwnerInv
  BY OwnerStarts
<1>4. TypeOK /\ PlaceInv /\ OwnerInv /\ [Next]_vars => OwnerInv'
  BY OwnerStep
<1>5. Spec => []Known
  BY <1>3, <1>4, TypesHold, SessionProcess, PTL DEF Spec, Known
<1>. QED
  BY <1>1, <1>2, <1>5, PTL DEF Spec, ImplementsSession, Session!SessionSpec, Abstract
=============================================================================
