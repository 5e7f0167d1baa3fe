-------------------------- MODULE MCBoundedFileCall --------------------------
(* Instance of BoundedFileCall for TLC. *)
EXTENDS BoundedFileCall

=============================================================================
