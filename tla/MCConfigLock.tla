---------------------------- MODULE MCConfigLock ----------------------------
(* Instance of ConfigLock for TLC. *)
EXTENDS ConfigLock, TLC

CONSTANTS p1, p2, p3

(* Every instance has a process id of its own, so that all of them may     *)
(* live at once; or p3 has that of p1, and comes after it.                 *)
OwnOrReused == {[p \in Proc |-> p], [p \in Proc |-> IF p = p3 THEN p1 ELSE p]}

(* The mutex is there for everybody, or for nobody.                        *)
AllOrNone == {{}, Proc}

=============================================================================
