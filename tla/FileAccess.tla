----------------------------- MODULE FileAccess -----------------------------
(***************************************************************************)
(* What the bounded file access of src/yasb_limitora/path.py promises to   *)
(* the program that reads its configuration and its cache through it, with *)
(* no child process, job or pipe in sight.  The accesses of one process    *)
(* are numbered in the order they are asked for.                           *)
(*                                                                         *)
(* An access that is answered "ok" has taken effect.  One that is answered *)
(* with a failure may have taken effect, or may still do so later - but    *)
(* never once a later access has begun: effects come in the order of the   *)
(* requests.                                                               *)
(***************************************************************************)
EXTENDS Naturals

CONSTANT Access      \* the accesses, 1..n

VARIABLES begun,     \* the last access that was let through, 0 for none
          landed,    \* the accesses that have taken effect
          answer     \* answer[a]: "none" yet, "ok", "file" or "deadline"

faVars == <<begun, landed, answer>>

FAInit ==
  /\ begun = 0
  /\ landed = {}
  /\ answer = [a \in Access |-> "none"]

Begin(a) ==
  /\ begun < a
  /\ answer[a] = "none"
  /\ begun' = a
  /\ UNCHANGED <<landed, answer>>

Land(a) ==
  /\ a = begun
  /\ a \notin landed
  /\ landed' = landed \cup {a}
  /\ UNCHANGED <<begun, answer>>

Succeed(a) ==
  /\ a \in landed
  /\ answer[a] = "none"
  /\ answer' = [answer EXCEPT ![a] = "ok"]
  /\ UNCHANGED <<begun, landed>>

(* A refused access fails without having begun. *)
Fail(a) ==
  /\ answer[a] = "none"
  /\ \E why \in {"file", "deadline"} : answer' = [answer EXCEPT ![a] = why]
  /\ UNCHANGED <<begun, landed>>

FANext == \E a \in Access : Begin(a) \/ Land(a) \/ Succeed(a) \/ Fail(a)

FASpec == FAInit /\ [][FANext]_faVars

=============================================================================
