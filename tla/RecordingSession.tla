-------------------------- MODULE RecordingSession --------------------------
(***************************************************************************)
(* What the audio service promises about each recording, whatever clients, *)
(* goroutines and failures do: recordings come one at a time, in order; a  *)
(* recording that stops is either dropped or captured by exactly one       *)
(* caller; a captured recording is transcribed at most once; and nothing   *)
(* happens to a recording after it is over.                                *)
(***************************************************************************)
EXTENDS Sessions

VARIABLE phase   \* the phase of every recording

Phases == {"new", "recording", "captured", "transcribing", "over"}

\* The phases a recording may go to from each phase.
Succ == [p \in Phases |->
  CASE p = "new"          -> {"recording", "over"}   \* started, or failed to
    [] p = "recording"    -> {"captured", "over"}    \* stopped, or dropped
    [] p = "captured"     -> {"transcribing", "over"}
    [] p = "transcribing" -> {"over"}
    [] p = "over"         -> {}]

SessionInit == phase = [r \in Recordings |-> "new"]

\* One recording moves on; a new one only in turn and while none is running.
Progress(r) ==
  /\ \E q \in Succ[phase[r]] : phase' = [phase EXCEPT ![r] = q]
  /\ phase[r] = "new" => /\ \A o \in Recordings : phase[o] # "recording"
                         /\ \A o \in 1..(r - 1) : phase[o] # "new"

SessionNext == \E r \in Recordings : Progress(r)

SessionSpec == SessionInit /\ [][SessionNext]_phase
=============================================================================
