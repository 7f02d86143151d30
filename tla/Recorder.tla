------------------------------ MODULE Recorder ------------------------------
(***************************************************************************)
(* The capture process of audio/recorders and the temporary WAV files of   *)
(* audio/processing.  A recorder owns at most one capture process          *)
(* (arecord or ffmpeg) that writes into the file the recorder last         *)
(* created.  The file's name carries the wall clock with a granularity of  *)
(* one second, so a path IS the second it was created in.                  *)
(*                                                                         *)
(* The operators below are the recorder's methods; AudioService composes   *)
(* them into its critical sections.                                        *)
(***************************************************************************)
EXTENDS Sessions

CONSTANT MinGap   \* least number of seconds between two attempts: 0 or 1

ASSUME MinGapAssumption == MinGap \in {0, 1}

VARIABLES
  nrec,      \* attempts made so far
  lastSec,   \* the second the latest file was created in
  cmd,       \* the process the current recorder holds (b.cmd), 0 = none
  alive,     \* capture processes that are running
  outFile,   \* the current recorder's outputFile, 0 = ""
  pathOf,    \* the path each attempt was given
  files,     \* temporary files on disk
  audio      \* whose audio a file holds, 0 = none (a pre-created file)

processVars  == <<nrec, lastSec, cmd, alive, outFile, pathOf>>
fileVars     == <<files, audio>>
recorderVars == <<processVars, fileVars>>

Paths      == 1..MaxRec
NoProc     == 0
NoFile     == 0
NoAudio    == 0

RecorderTypeOK ==
  /\ nrec \in 0..MaxRec
  /\ lastSec \in 0..MaxRec
  /\ cmd \in Recordings \cup {NoProc}
  /\ alive \in SUBSET Recordings
  /\ outFile \in Paths \cup {NoFile}
  /\ pathOf \in [Recordings -> Paths \cup {NoFile}]
  /\ files \in SUBSET Paths
  /\ audio \in [Paths -> Recordings \cup {NoAudio}]

RecorderInit ==
  /\ nrec = 0 /\ lastSec = 0
  /\ cmd = NoProc /\ alive = {} /\ outFile = NoFile
  /\ pathOf = [r \in Recordings |-> NoFile]
  /\ files = {} /\ audio = [p \in Paths |-> NoAudio]

(***************************************************************************)
(* TempFileManager                                                         *)
(***************************************************************************)

\* The second the next file is created in: the clock never runs back.  Only
\* whether it moved matters, so it moves by at most one.
NameChoices == {lastSec + g : g \in MinGap..1} \cap Paths

\* CreateTempWav: the file is opened O_CREATE without O_EXCL or O_TRUNC, so
\* an existing one keeps its content.
CreateTempWav(p) ==
  /\ lastSec' = p
  /\ files' = files \cup {p}
  /\ audio' = IF p \in files THEN audio ELSE [audio EXCEPT ![p] = NoAudio]

RemoveFile(p) ==
  /\ files' = files \ {p}
  /\ UNCHANGED audio

\* BaseRecorder.CleanupFile deletes outputFile and keeps the field.
CleanupFile == RemoveFile(outFile)

CleanupAll == files' = {} /\ UNCHANGED audio

(***************************************************************************)
(* StartRecording.  held is the process of the recorder that is asked: the *)
(* current one's, or none when AudioService has just replaced it.          *)
(***************************************************************************)
NextRec == nrec + 1

Attempt(p) ==
  /\ nrec < MaxRec
  /\ nrec' = NextRec
  /\ pathOf' = [pathOf EXCEPT ![NextRec] = p]
  /\ outFile' = p
  /\ CreateTempWav(p)

StartSucceeds(held) ==
  /\ held = NoProc
  /\ \E p \in NameChoices : Attempt(p)
  /\ cmd' = NextRec
  /\ alive' = alive \cup {NextRec}

\* The command is not allowed or does not start: the file stays behind.
StartFailsLate(held) ==
  /\ held = NoProc
  /\ \E p \in NameChoices : Attempt(p)
  /\ cmd' = NoProc
  /\ UNCHANGED alive

\* A process is held already, or the file cannot be created.
StartFailsEarly(held, file) ==
  /\ cmd' = held
  /\ outFile' = file
  /\ UNCHANGED <<nrec, lastSec, alive, pathOf, fileVars>>

(***************************************************************************)
(* StopRecording.  attemptGracefulShutdown, ensureProcessReaped and        *)
(* cleanup leave no process; validateAudioFile then decides.  SIGKILL is   *)
(* taken to work within the time the code waits for it.                    *)
(***************************************************************************)
\* Mutant: cleanup keeps b.cmd.
ReapKeepingCmd ==
  /\ alive' = alive \ {cmd}
  /\ UNCHANGED <<cmd, nrec, lastSec, outFile, pathOf>>

ReapProcess ==
  /\ cmd' = NoProc
  /\ alive' = alive \ {cmd}
  /\ UNCHANGED <<nrec, lastSec, outFile, pathOf>>

\* StopProcess fails: no process, or the file is gone.
StopErrors == cmd = NoProc \/ outFile \notin files

\* At least 0.3 s of audio, which a file nobody wrote to never has.
HasAudio == ~StopErrors /\ audio[outFile] # NoAudio

\* A file that exists may always turn out to be too short.
MayBeTooShort == ~StopErrors

(***************************************************************************)
(* The process itself.                                                     *)
(***************************************************************************)

\* The process opens (truncates) its output file and writes samples to it.
ProcessWrites(r) ==
  /\ r \in alive
  /\ pathOf[r] \in Paths
  /\ files' = files \cup {pathOf[r]}
  /\ audio' = [audio EXCEPT ![pathOf[r]] = r]
  /\ audio[pathOf[r]] # r
  /\ UNCHANGED <<nrec, lastSec, cmd, alive, outFile, pathOf>>

\* It exits on its own, or exec.CommandContext kills it when the context of
\* max_recording_time expires.  b.cmd keeps pointing at it.
ProcessDies(r) ==
  /\ r \in alive
  /\ alive' = alive \ {r}
  /\ UNCHANGED <<nrec, lastSec, cmd, outFile, pathOf, fileVars>>
=============================================================================
