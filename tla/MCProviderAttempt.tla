------------------------- MODULE MCProviderAttempt -------------------------
(* Two processes with an orchestrator each; the first one may run twice.    *)
EXTENDS ProviderAttempt

CONSTANTS p1, p2, a1, a2, a3

MCProc == {p1, p2}
MCAttempt == {a1, a2, a3}
MCOwner == [a \in MCAttempt |-> IF a = a3 THEN p2 ELSE p1]
\* The first process may run the worker, the second one only the Codex helper.
MCEnabled == [p \in MCProc |->
  IF p = p1 THEN {{}, {"codex", "opencode_go"}} ELSE {{"codex"}}]

=============================================================================
