------------------------------ MODULE MCHotkeys ------------------------------
(* What the system supports in the runs of Hotkeys: evdev only, the portal *)
(* only, both, and both with evdev configured.                             *)
EXTENDS Hotkeys

System(evdev, dbus, override) == [evdev |-> evdev, dbus |-> dbus, override |-> override]

MCEnvironments ==
  {System(TRUE, FALSE, "auto"), System(FALSE, TRUE, "auto"),
   System(TRUE, TRUE, "auto"), System(TRUE, TRUE, "evdev")}
=============================================================================
