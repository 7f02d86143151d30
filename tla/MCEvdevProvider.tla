--------------------------- MODULE MCEvdevProvider ---------------------------
(***************************************************************************)
(* The run of EvdevProvider: both Alt keys and Escape, which cancels a     *)
(* capture or is part of a hotkey.  The hotkey of the action needs the     *)
(* right Alt key and the recording's either of them, so one press may be   *)
(* for both.                                                               *)
(***************************************************************************)
EXTENDS EvdevProvider

MCRecHotkey == <<"alt", "esc">>
MCActHotkey == <<"altgr", "esc">>
=============================================================================
