------------------------------ MODULE Sessions ------------------------------
(***************************************************************************)
(* Names shared by the modules of the recording pipeline.  StartRecording  *)
(* attempts are numbered 1, 2, ...; the number stands for the attempt, its *)
(* process, its audio and the text spoken in it.                           *)
(***************************************************************************)
EXTENDS Naturals

CONSTANT MaxRec   \* bound on the number of StartRecording attempts

ASSUME MaxRecAssumption == MaxRec \in Nat

Recordings == 1..MaxRec
NoRec      == 0
=============================================================================
