---------------------------- MODULE AudioService ----------------------------
(***************************************************************************)
(* internal/services/audio_service.go composed with the recorder it drives *)
(* and the IO rendezvous it reports to, under every caller the program     *)
(* has: tray and window clicks, the global hotkey (toggle or push-to-talk),*)
(* CLI requests over IPC, WebSocket clients, the recording-method setting, *)
(* model switches, and the application's shutdown sequence.                *)
(*                                                                         *)
(* A critical section under AudioService.mu is one action guarded by       *)
(* MuFree.  The exception is SwitchModel, which waits for engineMu while   *)
(* it holds mu: the switcher at "swap" is the holder of mu and a pending   *)
(* writer of engineMu.  Of the user interface only the tray icon is kept:  *)
(* notifications and the window's indicator (SetError, SetSuccess) are     *)
(* written here and read by nobody.                                        *)
(***************************************************************************)
EXTENDS Recorder, IOSession

CONSTANTS
  Trays,       \* tray and window: each serialises its own clicks
  Keys,        \* global recording hotkeys
  PttKeys,     \* the keys in push-to-talk mode
  Clis,        \* IPC connections
  Wss,         \* WebSocket connections
  Setters,     \* goroutines that change the recording method
  Switchers,   \* goroutines that switch the model
  MayShutdown, \* whether the application may be told to shut down
  MaxRetries,  \* executeWithRetry's maxRetries
  MaxEngines   \* bound on the number of engines ever loaded

Clients == Trays \cup Keys \cup Clis \cup Wss \cup Setters \cup Switchers

ASSUME ClientsAssumption ==
  /\ PttKeys \subseteq Keys
  /\ MayShutdown \in BOOLEAN
  /\ MaxRetries \in Nat /\ MaxEngines \in Nat \ {0}
  /\ Trays \cap (Keys \cup Clis \cup Wss \cup Setters \cup Switchers) = {}
  /\ Keys \cap (Clis \cup Wss \cup Setters \cup Switchers) = {}
  /\ Clis \cap (Wss \cup Setters \cup Switchers) = {}
  /\ Wss \cap (Setters \cup Switchers) = {}
  /\ Setters \cap Switchers = {}

VARIABLES
  isRecording, needsReinit, lastTranscript,
  method,     \* config().Audio.RecordingMethod
  tray,       \* the tray icon shows a recording
  pc,         \* where each client is
  sess,       \* the recording a client has stopped and not passed on, or 0
  chOf,       \* the channel a CLI request waits on
  retries,    \* retryCount of a WebSocket connection
  task,       \* the outer goroutine of each recording's transcription
  inner,      \* the call of transcribeWithCurrentEngine for a recording
  heard,      \* whose audio that call read
  using,      \* the engine it runs on
  engine,     \* the current engine
  nEng,       \* engines loaded so far
  open,       \* engines that are not closed
  held,       \* the engine a switcher holds: the new one, then the old one
  stage,      \* how far App.Shutdown has come
  ctxDone     \* AudioService.ctx is cancelled

clientVars  == <<pc, sess, chOf, retries>>
taskVars    == <<task, inner, heard, using>>
engineVars  == <<engine, nEng, open, held>>
sessionVars == <<isRecording, needsReinit, lastTranscript, method>>
appVars     == <<stage, ctxDone>>

vars == <<recorderVars, ioVars, clientVars, taskVars, engineVars, tray,
          sessionVars, appVars>>

Engines == 1..MaxEngines

Stages == {"up", "ipcDown", "draining", "audioDown", "ioDown", "hotkeysDown", "exited"}

PC == {"idle", "start", "held", "stop", "begin", "spawn", "wait", "recv",
       "syncStop", "syncCheck", "syncWait", "clear", "load", "lock", "swap", "close"}

Results == {"text", "empty", "error"}

ServiceTypeOK ==
  /\ isRecording \in BOOLEAN /\ needsReinit \in BOOLEAN /\ tray \in BOOLEAN
  /\ lastTranscript \in Texts
  /\ method \in {"arecord", "ffmpeg"}
  /\ pc \in [Clients -> PC]
  /\ sess \in [Clients -> Recordings \cup {NoRec}]
  /\ chOf \in [Clients -> Recordings \cup {NoCh}]
  /\ retries \in [Clients -> 0..MaxRetries]
  /\ task \in [Recordings -> {"none", "wait", "got", "output", "done"}]
  /\ inner \in [Recordings -> {"none", "ready", "running"} \cup Results]
  /\ heard \in [Recordings -> Texts]
  /\ using \in [Recordings -> Engines]
  /\ engine \in Engines /\ nEng \in Engines
  /\ open \in SUBSET Engines
  /\ held \in [Clients -> Engines]
  /\ stage \in Stages /\ ctxDone \in BOOLEAN

\* Every variable keeps to the values its counterpart can hold; in particular
\* a result channel never holds more than one answer.
TypeOK == RecorderTypeOK /\ IOTypeOK /\ ServiceTypeOK

Init ==
  /\ RecorderInit /\ IOInit
  /\ isRecording = FALSE /\ needsReinit = FALSE /\ lastTranscript = NoText
  /\ method \in {"arecord", "ffmpeg"}
  /\ tray = FALSE
  /\ pc = [c \in Clients |-> "idle"]
  /\ sess = [c \in Clients |-> NoRec]
  /\ chOf = [c \in Clients |-> NoCh]
  /\ retries = [c \in Clients |-> 0]
  /\ task = [r \in Recordings |-> "none"]
  /\ inner = [r \in Recordings |-> "none"]
  /\ heard = [r \in Recordings |-> NoText]
  /\ using = [r \in Recordings |-> 1]
  /\ engine = 1 /\ nEng = 1 /\ open = {1}
  /\ held = [c \in Clients |-> 1]
  /\ stage = "up" /\ ctxDone = FALSE

(***************************************************************************)
(* Locks, goroutine bookkeeping and program counters                       *)
(***************************************************************************)

MuFree == \A s \in Switchers : pc[s] # "swap"

\* Goroutines counted by the WaitGroup.
Tracked == {r \in Recordings : task[r] \notin {"none", "done"}}

\* Callers inside transcribeWithCurrentEngine: the read lock of engineMu.
Readers == {r \in Recordings : inner[r] = "running"}

Goto(c, l) == pc' = [pc EXCEPT ![c] = l]

At(c, l) == pc[c] = l /\ stage # "exited"

\* A step of a client that changes nothing but its place.
Move(c, l) ==
  /\ Goto(c, l)
  /\ UNCHANGED <<recorderVars, ioVars, sess, chOf, retries, taskVars, engineVars,
                 tray, sessionVars, appVars>>

\* The entry point of a client is served until Shutdown closes it: IPC first,
\* then tray and window, the WebSocket server, and the hotkeys last.
Entry(c) ==
  \/ c \in Clis /\ stage = "up"
  \/ c \in Clients \ (Clis \cup Keys) /\ stage \in {"up", "ipcDown", "draining", "audioDown"}
  \/ c \in Keys /\ stage \in Stages \ {"hotkeysDown", "exited"}

Idle(c) == At(c, "idle") /\ Entry(c)

SetRecordingState(on) == tray' = on

(***************************************************************************)
(* The triggers: which handler a client calls next.                        *)
(***************************************************************************)

Call(c, l) ==
  /\ Idle(c)
  /\ Move(c, l)

\* ToggleRecording reads IsRecording and calls the handler in a second step.
ToggleRecording(c) ==
  /\ c \in Trays \cup Clis \cup (Keys \ PttKeys)
  /\ MuFree
  /\ Call(c, IF isRecording THEN "stop" ELSE "start")

\* RecordingHotkey in push-to-talk mode: press starts ...
PressHotkey(c) == c \in PttKeys /\ Call(c, "start")

\* ... and release stops.
ReleaseHotkey(c) ==
  /\ c \in PttKeys /\ At(c, "held") /\ Entry(c)
  /\ Move(c, "stop")

RequestStart(c) == c \in Clis \cup Wss /\ Call(c, "start")

RequestStop(c) ==
  \/ c \in Clis /\ Call(c, "stop")
  \/ c \in Wss /\ Call(c, "syncStop")

(***************************************************************************)
(* HandleStartRecording                                                    *)
(***************************************************************************)

AfterStart(c) == IF c \in PttKeys THEN "held" ELSE "idle"

\* executeWithRetry: a WebSocket client's failed start is called again, until
\* it succeeds or the connection's retries are used up.
Succeed(c) ==
  /\ retries' = [retries EXCEPT ![c] = 0]
  /\ Goto(c, AfterStart(c))

RetryOrFail(c) ==
  IF c \in Wss /\ retries[c] < MaxRetries
    THEN retries' = [retries EXCEPT ![c] = @ + 1] /\ UNCHANGED pc
    ELSE Succeed(c)

StartIgnored(c) ==
  /\ At(c, "start") /\ MuFree
  /\ isRecording
  /\ Succeed(c)
  /\ UNCHANGED <<recorderVars, ioVars, sess, chOf, taskVars, engineVars, tray,
                 sessionVars, appVars>>

\* ensureAudioRecorderAvailable: the recorder that will be asked.
HeldProcess == IF needsReinit THEN NoProc ELSE cmd
HeldFile    == IF needsReinit THEN NoFile ELSE outFile

\* Mutant: a second start replaces the recorder instead of being ignored.
RestartRecording(c) ==
  /\ At(c, "start") /\ MuFree
  /\ StartSucceeds(NoProc)
  /\ isRecording' = TRUE
  /\ needsReinit' = FALSE
  /\ SetRecordingState(TRUE)
  /\ Succeed(c)
  /\ UNCHANGED <<ioVars, sess, chOf, taskVars, engineVars, lastTranscript, method,
                 appVars>>

HandleStartRecording(c) ==
  /\ At(c, "start") /\ MuFree
  /\ ~isRecording
  /\ StartSucceeds(HeldProcess)
  /\ isRecording' = TRUE
  /\ needsReinit' = FALSE
  /\ SetRecordingState(TRUE)
  /\ Succeed(c)
  /\ UNCHANGED <<ioVars, sess, chOf, taskVars, engineVars, lastTranscript, method,
                 appVars>>

\* The recorder does not start.
StartFails(c) ==
  /\ At(c, "start") /\ MuFree
  /\ ~isRecording
  /\ StartFailsLate(HeldProcess) \/ StartFailsEarly(HeldProcess, HeldFile)
  /\ needsReinit' = FALSE
  /\ RetryOrFail(c)
  /\ UNCHANGED <<ioVars, sess, chOf, taskVars, engineVars, tray, isRecording,
                 lastTranscript, method, appVars>>

\* The model is not available: reported before the recorder is looked at.
StartWithoutModel(c) ==
  /\ At(c, "start") /\ MuFree
  /\ ~isRecording
  /\ RetryOrFail(c)
  /\ UNCHANGED <<recorderVars, ioVars, sess, chOf, taskVars, engineVars, tray, sessionVars,
                 appVars>>

(***************************************************************************)
(* stopAndPrepareTranscription, shared by the asynchronous stop (hotkey,   *)
(* tray, CLI) and the synchronous one (WebSocket).                         *)
(***************************************************************************)

Stopping(c) == (At(c, "stop") \/ At(c, "syncStop")) /\ MuFree

\* A stop that discards the recording returns no error, except to WebSocket
\* clients, and a CLI request then goes on to WaitForTranscription.
AfterEmptyStop(c) == IF c \in Clis THEN "wait" ELSE "idle"

StopNotRecording(c) ==
  /\ Stopping(c) /\ ~isRecording
  /\ Move(c, "idle")

StopCaptures(c) ==
  /\ Stopping(c) /\ isRecording
  /\ HasAudio
  /\ ReapProcess /\ UNCHANGED fileVars
  /\ isRecording' = FALSE
  /\ SetRecordingState(FALSE)
  /\ sess' = [sess EXCEPT ![c] = cmd]
  /\ Goto(c, IF pc[c] = "stop" THEN "begin" ELSE "syncCheck")
  /\ UNCHANGED <<ioVars, retries, chOf, taskVars, engineVars, needsReinit, lastTranscript,
                 method, appVars>>

\* ErrRecordingTooShort: a tap, discarded quietly.
StopTooShort(c) ==
  /\ Stopping(c) /\ isRecording
  /\ MayBeTooShort
  /\ ReapProcess /\ CleanupFile
  /\ isRecording' = FALSE
  /\ SetRecordingState(FALSE)
  /\ Goto(c, AfterEmptyStop(c))
  /\ UNCHANGED <<ioVars, retries, sess, chOf, taskVars, engineVars, needsReinit,
                 lastTranscript, method, appVars>>

\* Mutant: the error path forgets the tray.
StopFailsSilently(c) ==
  /\ Stopping(c) /\ isRecording
  /\ StopErrors
  /\ ReapProcess
  /\ isRecording' = FALSE
  /\ IF method = "ffmpeg"
       THEN /\ method' \in {"arecord", "ffmpeg"}
            /\ needsReinit' = TRUE
            /\ lastTranscript' = NoText
            /\ CleanupFile
       ELSE UNCHANGED <<method, needsReinit, lastTranscript, fileVars>>
  /\ Goto(c, AfterEmptyStop(c))
  /\ UNCHANGED <<ioVars, retries, sess, chOf, taskVars, engineVars, tray, appVars>>

\* Any other error: with ffmpeg, fall back to arecord, whether or not the new
\* method could be saved, and clear the session.
StopFails(c) ==
  /\ Stopping(c) /\ isRecording
  /\ StopErrors
  /\ ReapProcess
  /\ isRecording' = FALSE
  /\ SetRecordingState(FALSE)
  /\ IF method = "ffmpeg"
       THEN /\ method' \in {"arecord", "ffmpeg"}
            /\ needsReinit' = TRUE
            /\ lastTranscript' = NoText
            /\ CleanupFile
       ELSE UNCHANGED <<method, needsReinit, lastTranscript, fileVars>>
  /\ Goto(c, AfterEmptyStop(c))
  /\ UNCHANGED <<ioVars, retries, sess, chOf, taskVars, engineVars, appVars>>

(***************************************************************************)
(* HandleStopRecording after the lock is released                          *)
(***************************************************************************)

AfterStop(c) == IF c \in Clis THEN "wait" ELSE "idle"

\* The shutdown check.
SkipTranscription(c) ==
  /\ At(c, "begin") /\ ctxDone
  /\ sess' = [sess EXCEPT ![c] = NoRec]
  /\ Goto(c, AfterStop(c))
  /\ UNCHANGED <<recorderVars, ioVars, retries, chOf, taskVars, engineVars, tray,
                 sessionVars, appVars>>

BeginSession(c) ==
  /\ At(c, "begin") /\ ~ctxDone
  /\ BeginTranscription(sess[c])
  /\ Goto(c, "spawn")
  /\ UNCHANGED <<recorderVars, retries, sess, chOf, taskVars, engineVars, tray, sessionVars,
                 appVars>>

\* wg.Add(1); go transcribeAsync(audioFile)
SpawnTask(c) ==
  /\ At(c, "spawn")
  /\ task' = [task EXCEPT ![sess[c]] = "wait"]
  /\ inner' = [inner EXCEPT ![sess[c]] = "ready"]
  /\ sess' = [sess EXCEPT ![c] = NoRec]
  /\ Goto(c, AfterStop(c))
  /\ UNCHANGED <<recorderVars, ioVars, retries, chOf, heard, using, engineVars, tray,
                 sessionVars, appVars>>

(***************************************************************************)
(* ipcHandleStopRecording after HandleStopRecording: WaitForTranscription  *)
(***************************************************************************)

ReplyAtOnce(c) ==
  /\ At(c, "wait") /\ NothingToWaitFor
  /\ Move(c, "idle")

StartWaiting(c) ==
  /\ At(c, "wait") /\ ~NothingToWaitFor
  /\ chOf' = [chOf EXCEPT ![c] = curCh]
  /\ Goto(c, "recv")
  /\ UNCHANGED <<recorderVars, ioVars, retries, sess, taskVars, engineVars, tray,
                 sessionVars, appVars>>

ReplyTranscript(c) ==
  /\ At(c, "recv")
  /\ Receive(chOf[c])
  /\ chOf' = [chOf EXCEPT ![c] = NoCh]
  /\ Goto(c, "idle")
  /\ UNCHANGED <<recorderVars, retries, sess, taskVars, engineVars, tray, sessionVars,
                 appVars>>

\* Mutant: WaitForTranscription without a timeout.
ReplyOnlyWithTranscript(c) == ReplyTranscript(c)

\* The 45 s are over: reply with GetLastTranscript, which reads under mu.
ReplyTimeout(c) ==
  /\ At(c, "recv") /\ MuFree
  /\ WaitTimesOut
  /\ chOf' = [chOf EXCEPT ![c] = NoCh]
  /\ Goto(c, "idle")
  /\ UNCHANGED <<recorderVars, retries, sess, taskVars, engineVars, tray, sessionVars,
                 appVars>>

(***************************************************************************)
(* transcribeWithCurrentEngine, for both kinds of stop                     *)
(***************************************************************************)

\* Mutant: the transcription's context is not derived from the service's.
CancelledByTimeoutOnly(r) == task[r] = "done"

\* The context of an asynchronous transcription is done once the outer
\* goroutine gave up, or as soon as the service shuts down.
Cancelled(r) == task[r] = "done" \/ (ctxDone /\ task[r] # "none")

\* The file is there and holds samples; whose they are is what it says.
Readable(r) == pathOf[r] \in files /\ audio[pathOf[r]] # NoAudio

\* engineMu.RLock (a pending writer keeps new readers out), the context check
\* and the reading of the file.
LoadAudio(r) ==
  /\ stage # "exited" /\ MuFree
  /\ inner[r] = "ready" /\ ~Cancelled(r) /\ Readable(r)
  /\ inner' = [inner EXCEPT ![r] = "running"]
  /\ heard' = [heard EXCEPT ![r] = audio[pathOf[r]]]
  /\ using' = [using EXCEPT ![r] = engine]
  /\ UNCHANGED <<recorderVars, ioVars, clientVars, task, engineVars, tray,
                 sessionVars, appVars>>

LoadFails(r) ==
  /\ stage # "exited" /\ MuFree
  /\ inner[r] = "ready" /\ (Cancelled(r) \/ ~Readable(r))
  /\ inner' = [inner EXCEPT ![r] = "error"]
  /\ UNCHANGED <<recorderVars, ioVars, clientVars, task, heard, using, engineVars,
                 tray, sessionVars, appVars>>

\* The backend returns, the context is checked again, the lock is released
\* and the result goes into a channel nobody may be listening on any more.
EngineReturns(r) ==
  /\ stage # "exited"
  /\ inner[r] = "running"
  /\ \E res \in IF Cancelled(r) THEN {"error"} ELSE Results :
       inner' = [inner EXCEPT ![r] = res]
  /\ UNCHANGED <<recorderVars, ioVars, clientVars, task, heard, using, engineVars,
                 tray, sessionVars, appVars>>

(***************************************************************************)
(* transcribeAsync, the outer goroutine                                    *)
(***************************************************************************)

TaskIn(r, st) == task[r] = st /\ stage # "exited"

\* Mutant: removes the file the recorder has now, not the one transcribed.
TakeResultOfRecorder(r) ==
  /\ TaskIn(r, "wait")
  /\ inner[r] \in {"text", "empty"}
  /\ CleanupFile
  /\ task' = [task EXCEPT ![r] = "got"]
  /\ UNCHANGED <<processVars, ioVars, clientVars, inner,
                 heard, using, engineVars, tray, sessionVars, appVars>>

\* cleanupRecording, then handleTranscriptionResult up to its error return.
TakeResult(r) ==
  /\ TaskIn(r, "wait")
  /\ inner[r] \in {"text", "empty"}
  /\ RemoveFile(pathOf[r])
  /\ task' = [task EXCEPT ![r] = "got"]
  /\ UNCHANGED <<processVars, ioVars, clientVars, inner,
                 heard, using, engineVars, tray, sessionVars, appVars>>

HandleTranscriptionError(r) ==
  /\ TaskIn(r, "wait")
  /\ inner[r] = "error"
  /\ RemoveFile(pathOf[r])
  /\ CompleteTranscription(NoText)
  /\ task' = [task EXCEPT ![r] = "done"]
  /\ UNCHANGED <<processVars, clientVars, inner, heard,
                 using, engineVars, tray, sessionVars, appVars>>

StoreTranscript(r) ==
  /\ TaskIn(r, "got") /\ MuFree
  /\ inner[r] = "text"
  /\ lastTranscript' = heard[r]
  /\ task' = [task EXCEPT ![r] = "output"]
  /\ UNCHANGED <<recorderVars, ioVars, clientVars, inner, heard, using, engineVars,
                 tray, isRecording, needsReinit, method, appVars>>

\* An empty transcript is reported to the user, but not to IO.
HandleEmptyTranscript(r) ==
  /\ TaskIn(r, "got") /\ MuFree
  /\ inner[r] = "empty"
  /\ lastTranscript' = NoText
  /\ task' = [task EXCEPT ![r] = "done"]
  /\ UNCHANGED <<recorderVars, ioVars, clientVars, inner, heard, using, engineVars, tray,
                 isRecording, needsReinit, method, appVars>>

OutputSucceeds(r) ==
  /\ TaskIn(r, "output")
  /\ CompleteTranscription(heard[r])
  /\ task' = [task EXCEPT ![r] = "done"]
  /\ UNCHANGED <<recorderVars, clientVars, inner, heard, using, engineVars, tray,
                 sessionVars, appVars>>

\* Nor is a text that could not be output.
OutputFails(r) ==
  /\ TaskIn(r, "output")
  /\ task' = [task EXCEPT ![r] = "done"]
  /\ UNCHANGED <<recorderVars, ioVars, clientVars, inner, heard, using, engineVars, tray,
                 sessionVars, appVars>>

\* Two minutes passed, or the service shuts down.  The file is left to the
\* temp file manager, since the engine may still read it.
HandleTranscriptionCancellation(r) ==
  /\ TaskIn(r, "wait")
  /\ CompleteTranscription(NoText)
  /\ task' = [task EXCEPT ![r] = "done"]
  /\ UNCHANGED <<recorderVars, clientVars, inner, heard, using, engineVars, tray,
                 sessionVars, appVars>>

(***************************************************************************)
(* HandleStopRecordingSync after the lock is released                      *)
(***************************************************************************)

TranscribeSync(c) ==
  /\ At(c, "syncCheck") /\ ~ctxDone
  /\ inner' = [inner EXCEPT ![sess[c]] = "ready"]
  /\ Goto(c, "syncWait")
  /\ UNCHANGED <<recorderVars, ioVars, retries, sess, chOf, task, heard, using, engineVars,
                 tray, sessionVars, appVars>>

\* Every return runs the deferred cleanupRecording; a transcript, even an
\* empty one, is stored under mu first.
ReturnSync(c) ==
  /\ \/ /\ At(c, "syncCheck") /\ ctxDone
        /\ UNCHANGED lastTranscript
     \/ /\ At(c, "syncWait") /\ inner[sess[c]] = "error"
        /\ UNCHANGED lastTranscript
     \/ /\ At(c, "syncWait") /\ inner[sess[c]] \in {"text", "empty"}
        /\ MuFree
        /\ lastTranscript' = IF inner[sess[c]] = "text" THEN heard[sess[c]] ELSE NoText
  /\ RemoveFile(pathOf[sess[c]])
  /\ sess' = [sess EXCEPT ![c] = NoRec]
  /\ Goto(c, "idle")
  /\ UNCHANGED <<processVars, ioVars, retries, chOf, taskVars,
                 engineVars, tray, isRecording, needsReinit, method, appVars>>

(***************************************************************************)
(* setRecordingMethod: the config is updated, then the session is cleared. *)
(***************************************************************************)

UpdateRecordingMethod(c) ==
  /\ c \in Setters /\ Idle(c)
  /\ method' \in {"arecord", "ffmpeg"}
  /\ Goto(c, "clear")
  /\ UNCHANGED <<recorderVars, ioVars, retries, sess, chOf, taskVars, engineVars, tray,
                 isRecording, needsReinit, lastTranscript, appVars>>

ClearSession(c) ==
  /\ At(c, "clear") /\ MuFree
  /\ IF isRecording THEN UNCHANGED fileVars ELSE CleanupFile
  /\ needsReinit' = TRUE
  /\ lastTranscript' = NoText
  /\ Goto(c, "idle")
  /\ UNCHANGED <<processVars, ioVars, retries, sess, chOf,
                 taskVars, engineVars, tray, isRecording, method, appVars>>

(***************************************************************************)
(* SwitchModel                                                             *)
(***************************************************************************)

\* The early check under mu.
SwitchModel(c) ==
  /\ c \in Switchers /\ Idle(c) /\ MuFree
  /\ ~isRecording
  /\ Move(c, "load")

LoadEngine(c) ==
  /\ At(c, "load")
  /\ nEng < MaxEngines
  /\ nEng' = nEng + 1
  /\ open' = open \cup {nEng + 1}
  /\ held' = [held EXCEPT ![c] = nEng + 1]
  /\ Goto(c, "lock")
  /\ UNCHANGED <<recorderVars, ioVars, retries, sess, chOf, taskVars, engine, tray,
                 sessionVars, appVars>>

LoadEngineFails(c) ==
  /\ At(c, "load")
  /\ Move(c, "idle")

\* mu is taken; engineMu.Lock is pending until the readers are gone.
LockForSwap(c) ==
  /\ At(c, "lock") /\ MuFree
  /\ ~isRecording
  /\ Move(c, "swap")

\* Mutant: the engine just loaded is forgotten.
RejectSwapForgetting(c) ==
  /\ At(c, "lock") /\ MuFree
  /\ isRecording
  /\ Move(c, "idle")

\* A recording has started meanwhile: the new engine is closed again.
RejectSwap(c) ==
  /\ At(c, "lock") /\ MuFree
  /\ isRecording
  /\ open' = open \ {held[c]}
  /\ Goto(c, "idle")
  /\ UNCHANGED <<recorderVars, ioVars, retries, sess, chOf, taskVars, engine, nEng, held, tray,
                 sessionVars, appVars>>

\* Mutants: the engine is replaced without engineMu; or the switch waits for
\* all transcriptions to be over while it holds mu.
SwapUnderReaders(c) ==
  /\ At(c, "swap")
  /\ engine' = held[c]
  /\ held' = [held EXCEPT ![c] = engine]
  /\ Goto(c, "close")
  /\ UNCHANGED <<recorderVars, ioVars, retries, sess, chOf, taskVars, nEng, open, tray,
                 sessionVars, appVars>>

SwapAfterAllTasks(c) ==
  /\ At(c, "swap")
  /\ Tracked = {}
  /\ Readers = {}
  /\ engine' = held[c]
  /\ held' = [held EXCEPT ![c] = engine]
  /\ Goto(c, "close")
  /\ UNCHANGED <<recorderVars, ioVars, retries, sess, chOf, taskVars, nEng, open, tray,
                 sessionVars, appVars>>

SwapEngine(c) ==
  /\ At(c, "swap")
  /\ Readers = {}
  /\ engine' = held[c]
  /\ held' = [held EXCEPT ![c] = engine]
  /\ Goto(c, "close")
  /\ UNCHANGED <<recorderVars, ioVars, retries, sess, chOf, taskVars, nEng, open, tray,
                 sessionVars, appVars>>

CloseOldEngine(c) ==
  /\ At(c, "close")
  /\ open' = open \ {held[c]}
  /\ Goto(c, "idle")
  /\ UNCHANGED <<recorderVars, ioVars, retries, sess, chOf, taskVars, engine, nEng, held, tray,
                 sessionVars, appVars>>

(***************************************************************************)
(* App.Shutdown and ServiceContainer.Shutdown, in their order              *)
(***************************************************************************)

Advance(from, to) == stage = from /\ stage' = to

UnchangedByShutdown == UNCHANGED <<ioVars, clientVars, taskVars, engineVars, tray>>

\* ipcServer.Stop waits two seconds for its connections, then goes on.
StopIPC ==
  /\ MayShutdown
  /\ Advance("up", "ipcDown")
  /\ UnchangedByShutdown
  /\ UNCHANGED <<recorderVars, sessionVars, ctxDone>>

\* Mutant: shutdown resets the flag and leaves the recorder running.
CancelWithoutStop ==
  /\ Advance("ipcDown", "draining") /\ MuFree
  /\ ctxDone' = TRUE
  /\ isRecording' = FALSE
  /\ UnchangedByShutdown
  /\ UNCHANGED <<recorderVars, needsReinit, lastTranscript, method>>

\* AudioService.Shutdown under mu: cancel, then stop the recording.  The file
\* it leaves is the temp file manager's.
CancelAudio ==
  /\ Advance("ipcDown", "draining") /\ MuFree
  /\ ctxDone' = TRUE
  /\ IF isRecording THEN ReapProcess
                    ELSE UNCHANGED processVars
  /\ isRecording' = FALSE
  /\ UnchangedByShutdown
  /\ UNCHANGED <<fileVars, needsReinit, lastTranscript, method>>

\* wg.Wait, or five seconds.
AudioShutdownReturns ==
  /\ Advance("draining", "audioDown")
  /\ UnchangedByShutdown
  /\ UNCHANGED <<recorderVars, sessionVars, ctxDone>>

StopUIAndIO ==
  /\ Advance("audioDown", "ioDown")
  /\ UnchangedByShutdown
  /\ UNCHANGED <<recorderVars, sessionVars, ctxDone>>

StopHotkeys ==
  /\ Advance("ioDown", "hotkeysDown")
  /\ UnchangedByShutdown
  /\ UNCHANGED <<recorderVars, sessionVars, ctxDone>>

\* TempFileManager.CleanupAll, and the process ends.
CleanupAndExit ==
  /\ Advance("hotkeysDown", "exited")
  /\ CleanupAll
  /\ UnchangedByShutdown
  /\ UNCHANGED <<processVars, sessionVars, ctxDone>>

Shutdown ==
  \/ StopIPC \/ CancelAudio \/ AudioShutdownReturns
  \/ StopUIAndIO \/ StopHotkeys \/ CleanupAndExit

(***************************************************************************)
(* The capture process and the temp file sweeper run beside all of this.   *)
(* The process may outlive the program.                                    *)
(***************************************************************************)

Capture(r) ==
  /\ ProcessWrites(r) \/ ProcessDies(r)
  /\ UNCHANGED <<ioVars, clientVars, taskVars, engineVars, tray, sessionVars, appVars>>

\* A captured recording that a transcription still has to read.
Pending(r) ==
  \/ \E c \in Clients : sess[c] = r /\ pc[c] \in {"begin", "spawn", "syncCheck"}
  \/ inner[r] = "ready" /\ ~Cancelled(r)

\* cleanupOldFiles.  A file is swept after 30 minutes; by then its process has
\* met max_recording_time (5 minutes) and its transcription was read or given
\* up (2 minutes).  Both limits are the configured defaults.
CleanupOldFile(p) ==
  /\ stage # "exited"
  /\ p \in files
  /\ \A r \in Recordings : pathOf[r] = p => r \notin alive /\ ~Pending(r)
  /\ RemoveFile(p)
  /\ UNCHANGED <<processVars, ioVars, clientVars, taskVars, engineVars, tray, sessionVars,
                 appVars>>

-----------------------------------------------------------------------------
Trigger(c) ==
  \/ ToggleRecording(c) \/ PressHotkey(c) \/ ReleaseHotkey(c)
  \/ RequestStart(c) \/ RequestStop(c)
  \/ UpdateRecordingMethod(c) \/ SwitchModel(c)

Handler(c) ==
  \/ StartIgnored(c) \/ HandleStartRecording(c) \/ StartFails(c) \/ StartWithoutModel(c)
  \/ StopNotRecording(c) \/ StopCaptures(c) \/ StopTooShort(c) \/ StopFails(c)
  \/ SkipTranscription(c) \/ BeginSession(c) \/ SpawnTask(c)
  \/ ReplyAtOnce(c) \/ StartWaiting(c) \/ ReplyTranscript(c) \/ ReplyTimeout(c)
  \/ TranscribeSync(c) \/ ReturnSync(c)
  \/ ClearSession(c)
  \/ LoadEngine(c) \/ LoadEngineFails(c) \/ LockForSwap(c) \/ RejectSwap(c)
  \/ SwapEngine(c) \/ CloseOldEngine(c)

EngineCall(r) == LoadAudio(r) \/ LoadFails(r) \/ EngineReturns(r)

Task(r) ==
  \/ TakeResult(r) \/ HandleTranscriptionError(r) \/ StoreTranscript(r)
  \/ HandleEmptyTranscript(r) \/ OutputSucceeds(r) \/ OutputFails(r)
  \/ HandleTranscriptionCancellation(r)

Next ==
  \/ \E c \in Clients : Trigger(c) \/ Handler(c)
  \/ \E r \in Recordings : EngineCall(r) \/ Task(r) \/ Capture(r)
  \/ \E p \in Paths : CleanupOldFile(p)
  \/ Shutdown

Spec == Init /\ [][Next]_vars

\* Handlers run once called, goroutines are scheduled, and the engine returns
\* (or the two minutes are over).  Users, clients, the capture process and the
\* shutdown signal owe nothing.  Handlers that need mu get it
\* after a bounded wait (sync.Mutex hands over in FIFO order once a waiter is
\* starved): strong fairness.
Fairness ==
  /\ \A c \in Clients : SF_vars(Handler(c))
  /\ \A r \in Recordings : WF_vars(EngineCall(r)) /\ SF_vars(Task(r))

FairSpec == Spec /\ Fairness

(***************************************************************************)
(* Properties                                                              *)
(***************************************************************************)

\* A session and its capture process come and go together: a recording always
\* has the process that StopRecording will collect, and no process runs that
\* no session owns, although callers, the recorder's reinitialization and
\* failing starts and stops all interleave.  (isRecording, BaseRecorder.cmd)
SessionOwnsProcess ==
  /\ isRecording => cmd # NoProc
  /\ ~isRecording => cmd = NoProc
  /\ alive \subseteq {cmd}

\* A captured file has one owner: of all the callers that race to stop the
\* recording one gets the file, and it gives the file away when it starts the
\* transcription goroutine.  (stopAndPrepareTranscription)
SingleOwner ==
  \A c \in Clients : sess[c] # NoRec =>
    /\ sess[c] # cmd
    /\ task[sess[c]] = "none"
    /\ \A d \in Clients : sess[d] = sess[c] => d = c

\* The backend is never closed under a running transcription, however model
\* switches, new transcriptions and abandoned ones interleave.  (engineMu)
EngineInUseIsOpen ==
  \A r \in Readers : using[r] = engine /\ engine \in open

\* Every loaded model is the current one or in the hands of a switch that will
\* close it: none is leaked.  (SwitchModel)
NoEngineLeaked ==
  open = {engine} \cup {held[c] : c \in {s \in Switchers : pc[s] \in {"lock", "swap", "close"}}}

\* The file of an attempt is on disk and holds its audio.
AudioIntact(r) == pathOf[r] \in files /\ audio[pathOf[r]] = r

\* Two attempts within a second: their files have one name.
NameShared(r) == \E q \in Recordings \ {r} : pathOf[q] = pathOf[r]

\* The audio of a captured recording stays on disk, and stays its own, until
\* the engine has read it.  (CleanupFile, cleanupRecording, CreateTempWav)
PendingAudioIntact ==
  stage # "exited" => \A r \in Recordings : Pending(r) => AudioIntact(r)

\* With methods that change and names that repeat: a recording is captured
\* with its audio, and no step takes that away before the engine has read it,
\* but for the clearing of the session and an attempt within the same second.
\* (stopAndPrepareTranscription, clearSessionLocked, CreateTempWav)
PendingAudioKept ==
  [][\A r \in Recordings :
       /\ Pending(r)' /\ stage' # "exited" /\ ~NameShared(r)'
       /\ Pending(r) => AudioIntact(r)
       => AudioIntact(r)' \/ \E c \in Setters : ClearSession(c)]_vars

\* The channel made for a stop delivers the text of that stop's recording, or
\* the empty text.  (BeginTranscription, CompleteTranscription)
ChannelDeliversOwnText ==
  \A r \in Recordings : \A i \in DOMAIN ch[r] : ch[r][i] \in {r, NoText}

\* While the service is up the tray icon shows whether it records, whatever
\* path a start or a stop took.  (SetRecordingState)
TrayShowsRecording == stage \in {"up", "ipcDown"} => tray = isRecording

\* Once shutdown cancelled the context, no text leaves the program that the
\* engine had not produced before: not even from a stop that passed the
\* shutdown check and spawns its goroutine late.  (transcribeAsync)
CancelledStaysSilent ==
  \A r \in Recordings :
    [](ctxDone /\ inner[r] # "text" => [](task[r] # "output"))

\* Every call returns: no handler waits for ever for mu, for engineMu or for
\* an answer, with model switches holding mu while they wait for readers.
CallsReturn ==
  \A c \in Clients :
    pc[c] \notin {"idle", "held"} ~> (pc[c] \in {"idle", "held"} \/ stage = "exited")

\* Every transcription that was started comes to an end, so that shutdown does
\* not wait in vain.  (transcribeAsync, WaitGroup)
TranscriptionsEnd ==
  \A r \in Recordings : r \in Tracked ~> (r \notin Tracked \/ stage = "exited")

\* The abstract view of a recording.
Phase(r) ==
  IF r > nrec THEN "new"
  ELSE IF r = cmd THEN "recording"
  ELSE IF \E c \in Clients : sess[c] = r /\ pc[c] \in {"begin", "spawn", "syncCheck"}
    THEN "captured"
  ELSE IF r \in Tracked \/ \E c \in Clients : sess[c] = r /\ pc[c] = "syncWait"
    THEN "transcribing"
  ELSE "over"

\* The service implements the abstract recording session.
Session == INSTANCE RecordingSession WITH phase <- [r \in Recordings |-> Phase(r)]
ImplementsSession == Session!SessionSpec
=============================================================================
