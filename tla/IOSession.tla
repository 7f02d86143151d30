------------------------------ MODULE IOSession ------------------------------
(***************************************************************************)
(* The transcription rendezvous of internal/services/io_service.go: a flag *)
(* and a channel of capacity one, replaced by every BeginTranscription.    *)
(* A channel is named after the recording whose BeginTranscription made    *)
(* it; a text is named after the recording it was spoken in, 0 is "".      *)
(***************************************************************************)
EXTENDS Sessions, Sequences

VARIABLES
  inProgress,   \* transcriptionInProgress
  curCh,        \* transcriptionResultChan, 0 = nil
  ch            \* the buffer of every channel made so far

ioVars == <<inProgress, curCh, ch>>

NoText == 0
NoCh   == 0
Texts  == Recordings \cup {NoText}

\* make(chan string, 1)
Buffers == {<<>>} \cup {<<t>> : t \in Texts}

IOTypeOK ==
  /\ inProgress \in BOOLEAN
  /\ curCh \in Recordings \cup {NoCh}
  /\ ch \in [Recordings -> Buffers]

IOInit ==
  /\ inProgress = FALSE
  /\ curCh = NoCh
  /\ ch = [r \in Recordings |-> <<>>]

BeginTranscription(r) ==
  /\ inProgress' = TRUE
  /\ curCh' = r
  /\ ch' = [ch EXCEPT ![r] = <<>>]

\* Mutant: sends without asking whether a transcription is in progress.
CompleteUnasked(text) ==
  /\ inProgress' = FALSE
  /\ ch' = IF curCh # NoCh THEN [ch EXCEPT ![curCh] = Append(@, text)] ELSE ch
  /\ UNCHANGED curCh

\* The flag is cleared under the lock, the send is non-blocking.
CompleteTranscription(text) ==
  /\ inProgress' = FALSE
  /\ ch' = IF inProgress /\ curCh # NoCh /\ ch[curCh] = <<>>
           THEN [ch EXCEPT ![curCh] = <<text>>]
           ELSE ch
  /\ UNCHANGED curCh

\* WaitForTranscription reads the flag and the channel under the lock ...
NothingToWaitFor == ~inProgress \/ curCh = NoCh

\* ... then blocks on the channel it read, up to the caller's timeout.
Receive(k) ==
  /\ ch[k] # <<>>
  /\ ch' = [ch EXCEPT ![k] = <<>>]
  /\ UNCHANGED <<inProgress, curCh>>

WaitTimesOut ==
  /\ inProgress' = FALSE
  /\ UNCHANGED <<curCh, ch>>
=============================================================================
