---------------------------- MODULE MCCodexHelper ----------------------------
(* Instances of CodexHelper for TLC. *)
EXTENDS CodexHelper

CONSTANTS c1, c2

=============================================================================
