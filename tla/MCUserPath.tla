----------------------------- MODULE MCUserPath -----------------------------
(***************************************************************************)
(* Small instances of UserPath.                                            *)
(***************************************************************************)
EXTENDS UserPath, TLC

CONSTANTS a1, a2, old, new

Alike == {a @@ r : a \in Permutations(Assist), r \in Permutations(Route)}
=============================================================================
