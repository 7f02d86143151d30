----------------------------- MODULE ModelFiles -----------------------------
(***************************************************************************)
(* The model files in the user's data directory, and what downloading and  *)
(* deleting do to them (stt/providers/model_downloader.go and              *)
(* model_path_resolver.go, stt/manager/model_manager.go).  All downloads   *)
(* of a model write to one temporary name.  A writer keeps its file open:  *)
(* renaming or removing the name does not stop it, and creating the        *)
(* temporary file again truncates the file the other one is writing.       *)
(***************************************************************************)
EXTENDS FiniteSets

CONSTANTS
  Models,   \* constants.Models
  Bundled,  \* models that AppImage or Flatpak bring along
  Callers   \* goroutines that may download

ASSUME BundledAreModels == Bundled \subseteq Models

NoOne == "no one"
ASSUME NoOneIsNoCaller == NoOne \notin Callers

VARIABLES
  dest,  \* content under a model's name, or Missing
  tmp,   \* content under that name and ".tmp", or Missing
  at     \* where the file that a caller has open is linked: tmp, dest, gone

files == <<dest, tmp, at>>

\* full: as long as it has to be; sound: with the right content, or created
\* while another download of the model was on its way; writer: who created or
\* truncated it and still writes.
Content == [there : BOOLEAN, full : BOOLEAN, sound : BOOLEAN, writer : Callers \cup {NoOne}]
Missing == [there |-> FALSE, full |-> FALSE, sound |-> FALSE, writer |-> NoOne]
WholeFile == [Missing EXCEPT !.there = TRUE, !.full = TRUE, !.sound = TRUE]

FilesTypeOK ==
  /\ dest \in [Models -> Content]
  /\ tmp \in [Models -> Content]
  /\ at \in [Callers -> {"tmp", "dest", "gone"}]

\* Some of the models are there when the program starts.
FilesInit ==
  /\ \E there \in SUBSET (Models \ Bundled) : dest = [m \in Models |-> IF m \in there THEN WholeFile ELSE Missing]
  /\ tmp = [m \in Models |-> Missing]
  /\ at = [c \in Callers |-> "gone"]

\* Writers of a file whose name is taken away, or given another file.
Relink(from, to, writers) == [c \in Callers |-> IF c \in writers /\ at[c] = from THEN to ELSE at[c]]

\* GetBundledModelPath finds a file of that name; what it finds in the user's
\* directory has to have 10 MB, which part of a file may or may not have.
MayBeValid(m) == m \in Bundled \/ dest[m].there
MayBeInvalid(m) == m \notin Bundled /\ ~dest[m].full

\* Loading part of a file, or one with a hole, may fail or go unnoticed.
FileOf(m) == IF m \in Bundled THEN WholeFile ELSE dest[m]

-----------------------------------------------------------------------------
\* Download, step by step; `writers` are the others that download this model.

\* Mutant: the temporary file is the model file.
CreateInPlace(c, m, writers) ==
  /\ dest' = [dest EXCEPT ![m] = [Missing EXCEPT !.there = TRUE, !.writer = c]]
  /\ tmp' = [tmp EXCEPT ![m] = WholeFile]
  /\ at' = [at EXCEPT ![c] = "dest"]

\* os.Create truncates what is there.
CreateTmp(c, m, writers) ==
  /\ tmp' = [tmp EXCEPT ![m] =
       [Missing EXCEPT !.there = TRUE, !.writer = c, !.sound = writers # {}]]
  /\ at' = [at EXCEPT ![c] = "tmp"]
  /\ UNCHANGED dest

\* A file is sound when the last to truncate it has written it; another writer
\* that ends makes it long enough, whatever is in the front.
Written(file, c) ==
  [file EXCEPT !.full = TRUE, !.sound = @ \/ file.writer = c,
               !.writer = IF @ = c THEN NoOne ELSE @]

CopyEnds(c, m) ==
  /\ tmp' = IF at[c] = "tmp" THEN [tmp EXCEPT ![m] = Written(@, c)] ELSE tmp
  /\ dest' = IF at[c] = "dest" THEN [dest EXCEPT ![m] = Written(@, c)] ELSE dest
  /\ at' = [at EXCEPT ![c] = "gone"]

Abandoned(file, c) == [file EXCEPT !.writer = IF @ = c THEN NoOne ELSE @]

CopyFails(c, m) ==
  /\ tmp' = IF at[c] = "tmp" THEN [tmp EXCEPT ![m] = Abandoned(@, c)] ELSE tmp
  /\ dest' = IF at[c] = "dest" THEN [dest EXCEPT ![m] = Abandoned(@, c)] ELSE dest
  /\ at' = [at EXCEPT ![c] = "gone"]

LongEnough(m) == tmp[m].full

\* os.Remove of the temporary name, whoever writes there.
RemoveTmp(m, writers) ==
  /\ tmp' = [tmp EXCEPT ![m] = Missing]
  /\ at' = Relink("tmp", "gone", writers)
  /\ UNCHANGED dest

\* os.Rename replaces the model file.
RenameTmp(m, writers) ==
  /\ tmp[m].there
  /\ dest' = [dest EXCEPT ![m] = tmp[m]]
  /\ tmp' = [tmp EXCEPT ![m] = Missing]
  /\ at' = [c \in Callers |->
       IF c \notin writers THEN at[c]
       ELSE IF at[c] = "tmp" THEN "dest" ELSE "gone"]

\* os.Remove of the model file.
RemoveModel(m, writers) ==
  /\ dest' = [dest EXCEPT ![m] = Missing]
  /\ at' = Relink("dest", "gone", writers)
  /\ UNCHANGED tmp

\* A crash leaves the files as they are.
ForgetWriters ==
  LET Left(file) == [file EXCEPT !.writer = NoOne]
  IN /\ dest' = [m \in Models |-> Left(dest[m])]
     /\ tmp' = [m \in Models |-> Left(tmp[m])]
     /\ at' = [c \in Callers |-> "gone"]
=============================================================================
