---------------------------- MODULE SingleFlight ----------------------------
(***************************************************************************)
(* What the refresh coordinator of src/yasb_limitora/cache.py promises for *)
(* one cache key, with no mutex and no marker file in sight: at any time   *)
(* at most one process holds the right to refresh the key, a holder that   *)
(* still exists is never displaced, and only the most recent holder may    *)
(* replace the cached result.                                              *)
(*                                                                         *)
(* Two things only come in the way.  Somebody may delete the record of the *)
(* right; and a change that was reported as failed may be made later by a  *)
(* child that its process has given up ("loose"), when it takes the right  *)
(* from whoever has it, or puts an older result in the place of a newer    *)
(* one.  It was allowed when it was begun, it is made at most once, and it *)
(* is not made any more when its process has begun the next access, or is  *)
(* gone.                                                                   *)
(*                                                                         *)
(* Tickets number the grants in the order they are made.  They are not in  *)
(* the program: they say which of two results is the newer one.            *)
(***************************************************************************)
EXTENDS Naturals

CONSTANTS Proc,      \* the processes that may refresh the key
          NoProc     \* "nobody holds the right"; not a process

VARIABLES present,   \* the processes whose process object exists
          holder,    \* the process that holds the right, or NoProc
          issued,    \* how many times the right has been granted
          ticket,    \* ticket[p]: number of the last grant made to p
          result,    \* ticket under which the cached result was produced
          loose      \* loose[p]: the change of p that may still be made: of "right" or "result"

sfVars == <<present, holder, issued, ticket, result, loose>>

SFInit ==
  /\ present = {}
  /\ holder = NoProc
  /\ issued = 0
  /\ ticket = [p \in Proc |-> 0]
  /\ result = 0
  /\ loose = [p \in Proc |-> "none"]

(* The next access of a process ends what it has left loose. *)
Settle(p) == loose' = [loose EXCEPT ![p] = "none"]

(* Processes come and go; going away takes nothing from the holder field.  *)
Appear(p) ==
  /\ p \notin present
  /\ present' = present \cup {p}
  /\ UNCHANGED <<holder, issued, ticket, result, loose>>

Vanish(p) ==
  /\ p \in present
  /\ present' = present \ {p}
  /\ UNCHANGED <<holder, issued, ticket, result, loose>>

Access(p) ==
  /\ Settle(p)
  /\ UNCHANGED <<present, holder, issued, ticket, result>>

(* The right is granted only when nobody holds it or its holder is gone.   *)
Free == holder = NoProc \/ holder \notin present

Grant(p) ==
  /\ p \in present
  /\ Free
  /\ holder' = p
  /\ issued' = issued + 1
  /\ ticket' = [ticket EXCEPT ![p] = issued + 1]
  /\ Settle(p)
  /\ UNCHANGED <<present, result>>

(* Only the process that was granted the right last replaces the result.   *)
Publish(p) ==
  /\ p \in present
  /\ ticket[p] = issued
  /\ result' = issued
  /\ Settle(p)
  /\ UNCHANGED <<present, holder, issued, ticket>>

GiveBack(p) ==
  /\ p \in present
  /\ holder = p
  /\ holder' = NoProc
  /\ Settle(p)
  /\ UNCHANGED <<present, issued, ticket, result>>

(* A grant, a return or a publication is reported as failed, but it may    *)
(* still be made.                                                          *)
Fumble(p) ==
  /\ p \in present
  /\ \/ (Free \/ holder = p) /\ loose' = [loose EXCEPT ![p] = "right"]
     \/ ticket[p] = issued /\ loose' = [loose EXCEPT ![p] = "result"]
  /\ UNCHANGED <<present, holder, issued, ticket, result>>

(* It is made: the record of the right then names nobody who works.        *)
Land(p) ==
  /\ p \in present
  /\ \/ loose[p] = "right" /\ holder' = NoProc /\ UNCHANGED result
     \/ loose[p] = "result" /\ result' = ticket[p] /\ UNCHANGED holder
  /\ Settle(p)
  /\ UNCHANGED <<present, issued, ticket>>

(* The record of the right is lost: somebody deleted the coordination file.*)
Forget ==
  /\ holder' = NoProc
  /\ UNCHANGED <<present, issued, ticket, result, loose>>

SFNext ==
  \/ \E p \in Proc :
       \/ Appear(p) \/ Vanish(p) \/ Access(p) \/ Grant(p) \/ Publish(p) \/ GiveBack(p)
       \/ Fumble(p) \/ Land(p)
  \/ Forget

SFSpec == SFInit /\ [][SFNext]_sfVars

(* A cached result is only ever replaced by one produced under a later     *)
(* grant (or under the same one), except by a publication that was         *)
(* reported as failed and is made late.                                    *)
ResultNeverGoesBack ==
  [][result' >= result \/ \E p \in Proc : loose[p] = "result" /\ loose'[p] = "none"]_sfVars

=============================================================================
