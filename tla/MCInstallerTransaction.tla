----------------------- MODULE MCInstallerTransaction -----------------------
(* Instances of InstallerTransaction for TLC; see the README for the bounds. *)
EXTENDS InstallerTransaction

=============================================================================
