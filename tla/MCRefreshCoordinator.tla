------------------------ MODULE MCRefreshCoordinator ------------------------
(* Instances of RefreshCoordinator for TLC. *)
EXTENDS RefreshCoordinator, TLC

CONSTANTS p1, p2, p3

(* Every instance has a process id of its own. *)
OwnPids == [p \in Proc |-> p]

(* p2 may get the process id of p1, once p1 is gone. *)
SharedPid == [p \in Proc |-> IF p = p2 THEN p1 ELSE p]

ProcSymmetry == Permutations(Proc)

(* A predecessor that died at any point of its call - owning the mutex,    *)
(* the marker, or both - and whose process id p now has does not keep p's  *)
(* call from a result, as long as it stays within its deadline, nothing    *)
(* fails and nobody else has been started.                                 *)
CrashNeverBlocksSuccessor ==
  [][ \A p \in Proc :
        /\ pc[p] # "idle" /\ pc'[p] = "idle" /\ Running(p)'
        /\ \A q \in Proc : life[q] = "unborn" \/ PidOf[q] = PidOf[p]
        /\ ~late[p] /\ faults' = 0
        => outcome'[p] \in {"cached", "document", "published", "raised"} ]_vars

=============================================================================
