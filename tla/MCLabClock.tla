----------------------------- MODULE MCLabClock -----------------------------
(* Two lines of three characters, two timeouts in a second. *)
EXTENDS LabClock

MCPressed == {{}, {0}, {1, 2}}
=============================================================================
