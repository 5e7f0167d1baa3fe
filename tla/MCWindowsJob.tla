---------------------------- MODULE MCWindowsJob ----------------------------
(* Instances of WindowsJob for TLC: one child with two descendants. *)
EXTENDS WindowsJob

=============================================================================
