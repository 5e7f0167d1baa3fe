------------------------- MODULE RefreshCoordinator -------------------------
(***************************************************************************)
(* The cross-process refresh coordinator of src/yasb_limitora/cache.py for *)
(* one cache key: a named mutex (guard.py), a marker file naming the owner *)
(* of the current refresh, and the cache file.  Every process instance     *)
(* runs RefreshCoordinator.get_or_refresh; the mutex covers only the short *)
(* transitions of the marker, never the producer.                          *)
(*                                                                         *)
(* A process instance stands for the pair (pid, creation token): the token *)
(* is the instance, the pid is PidOf[instance], so that a pid can be used  *)
(* again by a later instance.  The steps of the handler between two        *)
(* accesses to shared state are separate actions, so that a crash, another *)
(* process or the deadline can come between any two of them.               *)
(***************************************************************************)
EXTENDS Naturals, FiniteSets

CONSTANTS
  Proc,         \* process instances
  NoProc,       \* owner field of an inactive marker, and of a free mutex
  PidOf,        \* the process id the system gives each instance
  MaxAttempts,  \* max_wait_attempts of get_or_refresh
  MaxCalls,     \* bound: calls of get_or_refresh by one instance (the CLI makes one)
  MaxFaults,    \* bound: failed system calls and failed file accesses in a behaviour
  MaxErase      \* bound: deletions of the marker by someone else

ASSUME ConstantsAssumption ==
  /\ NoProc \notin Proc
  /\ DOMAIN PidOf = Proc
  /\ MaxAttempts \in Nat \ {0}
  /\ MaxCalls \in Nat
  /\ MaxFaults \in Nat
  /\ MaxErase \in Nat

VARIABLES
  \* the system
  life,          \* "unborn", "running", "exited" (a handle keeps the object), "gone"
  mutex,         \* the instance that owns the named mutex; a dead owner has abandoned it
  marker,        \* the marker file: generation and owner; generation 0 is "no file"
  cache,         \* the cache file: the grant it was produced under, and whether it is fresh
  strayMarker,   \* a marker that a write reported as failed may still put there, NoMarker for none
  strayCache,    \* such a write of the cache, by the child it was given to
  \* the coordinator object of each instance
  pc,            \* where in get_or_refresh the instance is
  view,          \* the marker as inspect_state read it
  claim,         \* generation of the claim being worked under, 0 for none
  pendingClaim,  \* _pending_claim: generation of a claim not yet given up, 0 for none
  pendingLease,  \* _pending_lease: a lease whose release or close failed
  attempts,      \* waits done in this call
  late,          \* usable_ns() <= 0 from now on
  doc,           \* what the producer returned for publication
  outcome,       \* result of the call
  \* bounds and history
  calls,         \* calls started by each instance
  faults,        \* failures so far
  erases,        \* deletions of the marker so far
  epoch,         \* history: claims made so far
  claimAt,       \* history: number of the last claim of each instance
  firm,          \* history: the marker is the one its owner has claimed with
  astray         \* history: what has been written after the lease it was begun under

files  == <<marker, cache>>
locals == <<view, claim, attempts, late, doc>>
pending == <<pendingClaim, pendingLease>>
counts == <<calls, erases>>
strays == <<strayMarker, strayCache>>
ghost  == <<epoch, claimAt, firm, astray>>
vars   == <<life, mutex, marker, cache, strayMarker, strayCache, pc, view, claim,
            pendingClaim, pendingLease, attempts, late, doc, outcome, calls, faults, erases,
            epoch, claimAt, firm, astray>>

NoMarker == [gen |-> 0, owner |-> NoProc]
Inactive(g) == [gen |-> g, owner |-> NoProc]

Running(p) == life[p] = "running"
Present(p) == life[p] \in {"running", "exited"}

(* Where an instance holds the coordination lease.                         *)
CriticalLabels ==
  {"load", "read", "judge", "claim", "rel_hit", "rel_wait", "rel_claim", "rel_fail", "rel_error",
   "recover_read", "recover_retire", "recover_ok", "recover_bad",
   "finish_read", "publish", "retire", "finish_rel"}

(* Where an instance works under a claim it believes to be its own.        *)
ClaimLabels == {"rel_claim", "produce", "finish", "finish_read", "publish", "retire"}

FreeLabels == {"idle", "reclose", "lookup", "loop", "inspect", "final_lookup", "produce", "finish"}

Labels == CriticalLabels \cup FreeLabels

Outcomes == {"none", "cached", "deadline", "internal_error", "guard_wait_timeout",
             "guard_acquisition_failed", "document", "published", "raised"}

Markers == [gen : Nat, owner : Proc \cup {NoProc}]

Init ==
  /\ life = [p \in Proc |-> "unborn"]
  /\ mutex = NoProc
  /\ marker = NoMarker
  /\ cache = [at |-> 0, fresh |-> FALSE]
  /\ strayMarker = [p \in Proc |-> NoMarker]
  /\ strayCache = [p \in Proc |-> FALSE]
  /\ pc = [p \in Proc |-> "idle"]
  /\ view = [p \in Proc |-> NoMarker]
  /\ claim = [p \in Proc |-> 0]
  /\ pendingClaim = [p \in Proc |-> 0]
  /\ pendingLease = [p \in Proc |-> FALSE]
  /\ attempts = [p \in Proc |-> 0]
  /\ late = [p \in Proc |-> FALSE]
  /\ doc = [p \in Proc |-> "none"]
  /\ outcome = [p \in Proc |-> "none"]
  /\ calls = [p \in Proc |-> 0]
  /\ faults = 0
  /\ erases = 0
  /\ epoch = 0
  /\ claimAt = [p \in Proc |-> 0]
  /\ firm = FALSE
  /\ astray = {}

-----------------------------------------------------------------------------
(* Control and failures.                                                   *)

Goto(p, label) == pc' = [pc EXCEPT ![p] = label]
Result(p, value) == outcome' = [outcome EXCEPT ![p] = value]

(* The local variables of a call end with it.                              *)
EndLocals(p) ==
  /\ view' = [view EXCEPT ![p] = NoMarker]
  /\ claim' = [claim EXCEPT ![p] = 0]
  /\ attempts' = [attempts EXCEPT ![p] = 0]
  /\ late' = [late EXCEPT ![p] = FALSE]
  /\ doc' = [doc EXCEPT ![p] = "none"]

Return(p, value) == Goto(p, "idle") /\ Result(p, value) /\ EndLocals(p)

NoFault == UNCHANGED faults
Fault == faults < MaxFaults /\ faults' = faults + 1

(* A file access runs in a bounded child (_bounded_call).  It needs time;   *)
(* it ends the child that an earlier write of this process has left at      *)
(* work, and is refused while it cannot; and it may fail by itself          *)
(* (FileAccess says so of one process).                                     *)
Loose(p) == strayMarker[p] # NoMarker \/ strayCache[p]
EndStrays(p) ==
  /\ strayMarker' = [strayMarker EXCEPT ![p] = NoMarker]
  /\ strayCache' = [strayCache EXCEPT ![p] = FALSE]

AccessOk(p) == ~late[p] /\ NoFault /\ EndStrays(p)
AccessRefused(p) == (late[p] \/ Loose(p)) /\ NoFault /\ UNCHANGED strays
AccessFails(p) == AccessRefused(p) \/ (~late[p] /\ Fault /\ EndStrays(p))

(* The code of a failure that is not a guard error.                        *)
FailureCode(p) == IF late[p] THEN "deadline" ELSE "internal_error"

(* WAIT_ABANDONED counts as an acquisition, like WAIT_OBJECT_0.            *)
\* Mutant: a wait that ignores the owner.
MutexFree_any(m) == TRUE

MutexFree(m) == m \in {NoProc} \cup {q \in Proc : ~Running(q)}

Acquire(p) == MutexFree(mutex) /\ mutex' = p /\ NoFault
GuardTimesOut == ~MutexFree(mutex) /\ UNCHANGED mutex /\ NoFault
GuardFails == Fault /\ UNCHANGED mutex

(* _close_lease: release, then close; a lease that could not be released   *)
(* or closed is kept in _pending_lease.                                    *)
Disown(p) == IF mutex = p THEN NoProc ELSE mutex
CloseLease(p) ==
  mutex' = Disown(p) /\ pendingLease' = [pendingLease EXCEPT ![p] = FALSE] /\ NoFault
\* Mutant: a lease that could not be closed is dropped.
KeepLease_dropped(p) ==
  /\ Fault
  /\ mutex' \in {mutex, Disown(p)}
  /\ UNCHANGED pendingLease

KeepLease(p) ==
  /\ Fault
  /\ mutex' \in {mutex, Disown(p)}
  /\ pendingLease' = [pendingLease EXCEPT ![p] = TRUE]

\* Mutant: any active marker is taken for the claim.
SameClaim_any(m, g, p) == TRUE

SameClaim(m, g, p) == m.gen = g /\ m.owner = p

(* _owner_state of a marker somebody owns: the process that has the        *)
(* recorded pid now is compared with the recorded creation token.          *)
\* Mutant: owners are never found alive.
OwnerState_dead(m) == "dead"

\* Mutant: the creation token is not compared.
OwnerState_pid_only(m) ==
  IF \E q \in Proc : Present(q) /\ PidOf[q] = PidOf[m.owner] THEN "alive" ELSE "dead"

OwnerState(m) ==
  LET occupants == {q \in Proc : Present(q) /\ PidOf[q] = PidOf[m.owner]}
  IN  IF m.owner \in occupants THEN "alive" ELSE "dead"

-----------------------------------------------------------------------------
(* A call begins.                                                          *)

Call(p) ==
  /\ Running(p) /\ pc[p] = "idle" /\ calls[p] < MaxCalls
  /\ calls' = [calls EXCEPT ![p] = @ + 1]
  /\ Result(p, "none")
  /\ Goto(p, IF pendingClaim[p] # 0 THEN "loop"
              ELSE IF pendingLease[p] THEN "reclose" ELSE "lookup")
  /\ UNCHANGED <<strays, life, mutex, files, locals, pending, faults, erases, ghost>>

(* get_or_refresh closes a lease left over by an earlier call first.       *)
Reclose(p) ==
  /\ pc[p] = "reclose"
  /\ \/ CloseLease(p) /\ Goto(p, "lookup") /\ UNCHANGED <<outcome, locals>>
     \/ KeepLease(p) /\ Return(p, "internal_error")
  /\ UNCHANGED <<strays, life, files, pendingClaim, counts, ghost>>

(* load without the lease: the cache is replaced atomically.               *)
Hit(p) == cache.fresh /\ AccessOk(p)
Miss(p) == (~cache.fresh /\ AccessOk(p)) \/ AccessFails(p)

Lookup(p) ==
  /\ pc[p] = "lookup"
  /\ \/ Hit(p) /\ Return(p, "cached")
     \/ Miss(p) /\ Goto(p, "loop") /\ UNCHANGED <<outcome, locals>>
  /\ UNCHANGED <<life, mutex, files, pending, counts, ghost>>

(* The head of the bounded retry loop.                                     *)
Loop(p) ==
  /\ pc[p] = "loop"
  /\ IF late[p] \/ attempts[p] = MaxAttempts
     THEN Return(p, FailureCode(p))
     ELSE Goto(p, "inspect") /\ UNCHANGED <<outcome, locals>>
  /\ UNCHANGED <<strays, life, mutex, files, pending, counts, faults, ghost>>

-----------------------------------------------------------------------------
(* inspect_state: finish what earlier calls left behind, take the lease,   *)
(* read the cache, the marker and the state of its owner.                  *)

InspectPendingLease(p) ==
  /\ pc[p] = "inspect" /\ pendingLease[p]
  /\ \/ CloseLease(p) /\ UNCHANGED <<pc, outcome, locals>>
     \/ KeepLease(p) /\ Return(p, "internal_error")
  /\ UNCHANGED <<strays, life, files, pendingClaim, counts, ghost>>

(* _recover_pending_claim                                                  *)
RecoverAcquire(p) ==
  /\ pc[p] = "inspect" /\ ~pendingLease[p] /\ pendingClaim[p] # 0
  /\ \/ Acquire(p) /\ Goto(p, "recover_read") /\ UNCHANGED <<outcome, locals>>
     \/ (GuardTimesOut \/ GuardFails) /\ Return(p, "internal_error")
  /\ UNCHANGED <<strays, life, files, pending, counts, ghost>>

RecoverRead(p) ==
  /\ pc[p] = "recover_read"
  /\ \/ AccessOk(p) /\ Goto(p, IF SameClaim(marker, pendingClaim[p], p)
                                THEN "recover_retire" ELSE "recover_ok")
     \/ AccessFails(p) /\ Goto(p, "recover_bad")
  /\ UNCHANGED <<life, mutex, files, outcome, locals, pending, counts, ghost>>

(* Writing a marker.  A write that has begun and is reported as failed may *)
(* have happened, may be cut off, or may still be done later: its child is *)
(* then on the list of the owners that could not be closed, and the        *)
(* coordinator goes on and gives the mutex up.                             *)
WriteDone(p, m) == AccessOk(p) /\ marker' = m
WriteFails(p, m) ==
  /\ UNCHANGED marker
  /\ \/ AccessRefused(p)
     \/ /\ ~late[p] /\ Fault
        /\ strayMarker' = [strayMarker EXCEPT ![p] = m]
        /\ strayCache' = [strayCache EXCEPT ![p] = FALSE]

(* Nobody works under the marker any more, once it has been retired.       *)
Loosen == firm' = FALSE /\ UNCHANGED <<epoch, claimAt, astray>>

RecoverRetire(p) ==
  /\ pc[p] = "recover_retire"
  /\ \/ WriteDone(p, Inactive(pendingClaim[p])) /\ Goto(p, "recover_ok") /\ Loosen
     \/ WriteFails(p, Inactive(pendingClaim[p])) /\ Goto(p, "recover_bad") /\ UNCHANGED ghost
  /\ UNCHANGED <<life, mutex, cache, outcome, locals, pending, counts>>

RecoverRelease(p) ==
  /\ pc[p] \in {"recover_ok", "recover_bad"}
  /\ \/ /\ pc[p] = "recover_ok" /\ CloseLease(p)
        /\ pendingClaim' = [pendingClaim EXCEPT ![p] = 0]
        /\ Goto(p, "inspect") /\ UNCHANGED <<outcome, locals>>
     \/ /\ pc[p] = "recover_bad" /\ CloseLease(p)
        /\ Return(p, "internal_error") /\ UNCHANGED pendingClaim
     \/ KeepLease(p) /\ Return(p, "internal_error") /\ UNCHANGED pendingClaim
  /\ UNCHANGED <<strays, life, files, counts, ghost>>

InspectAcquire(p) ==
  /\ pc[p] = "inspect" /\ ~pendingLease[p] /\ pendingClaim[p] = 0
  /\ \/ Acquire(p) /\ Goto(p, "load") /\ UNCHANGED <<outcome, locals>>
     \/ GuardTimesOut /\ Goto(p, "final_lookup") /\ UNCHANGED <<outcome, locals>>
     \/ GuardFails /\ Return(p, "guard_acquisition_failed")
  /\ UNCHANGED <<strays, life, files, pending, counts, ghost>>

(* After guard_wait_timeout the cache is read once more, without the lease.*)
FinalLookup(p) ==
  /\ pc[p] = "final_lookup"
  /\ \/ Hit(p) /\ Return(p, "cached")
     \/ Miss(p) /\ Return(p, "guard_wait_timeout")
  /\ UNCHANGED <<life, mutex, files, pending, counts, ghost>>

InspectLoad(p) ==
  /\ pc[p] = "load"
  /\ \/ Hit(p) /\ Goto(p, "rel_hit")
     \/ Miss(p) /\ Goto(p, "read")
  /\ UNCHANGED <<life, mutex, files, outcome, locals, pending, counts, ghost>>

InspectMarker(p) ==
  /\ pc[p] = "read"
  /\ \/ /\ AccessOk(p)
        /\ view' = [view EXCEPT ![p] = marker]
        /\ Goto(p, IF marker.owner = NoProc THEN "claim" ELSE "judge")
        /\ UNCHANGED outcome
     \/ /\ AccessFails(p)
        /\ Result(p, FailureCode(p)) /\ Goto(p, "rel_error")
        /\ UNCHANGED view
  /\ UNCHANGED <<life, mutex, files, claim, attempts, late, doc, pending, counts, ghost>>

-----------------------------------------------------------------------------
(* claim_or_wait: a live owner is waited for, an owner whose state cannot  *)
(* be told fails the call, everything else is claimed.                     *)

JudgeOwner(p) ==
  /\ pc[p] = "judge"
  /\ \/ /\ NoFault
        /\ Goto(p, IF OwnerState(view[p]) = "alive" THEN "rel_wait" ELSE "claim")
        /\ UNCHANGED outcome
     \/ Fault /\ Result(p, FailureCode(p)) /\ Goto(p, "rel_fail")
  /\ UNCHANGED <<strays, life, mutex, files, locals, pending, counts, ghost>>

(* _claim_locked: the next generation, under the process's own identity.   *)
NewClaim(p) == [gen |-> view[p].gen + 1, owner |-> p]

CountClaim(p) ==
  /\ epoch' = epoch + 1 /\ claimAt' = [claimAt EXCEPT ![p] = epoch + 1]
  /\ firm' = TRUE /\ UNCHANGED astray

Claim(p) ==
  /\ pc[p] = "claim"
  /\ \/ /\ WriteDone(p, NewClaim(p)) /\ CountClaim(p)
        /\ claim' = [claim EXCEPT ![p] = view[p].gen + 1]
        /\ Goto(p, "rel_claim") /\ UNCHANGED outcome
     \/ /\ WriteFails(p, NewClaim(p))
        /\ Result(p, FailureCode(p)) /\ Goto(p, "rel_fail")
        /\ UNCHANGED <<claim, ghost>>
  /\ UNCHANGED <<life, mutex, cache, view, attempts, late, doc, pending, counts>>

\* Mutant: waits are not counted.
Waited_not(p) == attempts[p]

Waited(p) == attempts[p] + 1

(* _release_inspection and what claim_or_wait decides after it.  A lease   *)
(* that cannot be given back turns every decision but an error into one.   *)
ReleaseInspection(p) ==
  /\ \/ pc[p] = "rel_hit" /\ CloseLease(p) /\ Return(p, "cached")
     \/ /\ pc[p] = "rel_wait" /\ CloseLease(p) /\ Goto(p, "loop")
        /\ attempts' = [attempts EXCEPT ![p] = Waited(p)]
        /\ view' = [view EXCEPT ![p] = NoMarker]
        /\ UNCHANGED <<outcome, claim, late, doc>>
     \/ pc[p] = "rel_claim" /\ CloseLease(p) /\ Goto(p, "produce") /\ UNCHANGED <<outcome, locals>>
     \/ pc[p] \in {"rel_fail", "rel_error"} /\ CloseLease(p) /\ Return(p, outcome[p])
  /\ UNCHANGED <<strays, life, files, pendingClaim, counts, ghost>>

ReleaseInspectionFails(p) ==
  /\ pc[p] \in {"rel_hit", "rel_wait", "rel_claim", "rel_fail", "rel_error"}
  /\ KeepLease(p)
  /\ Return(p, IF pc[p] = "rel_error" THEN outcome[p] ELSE "internal_error")
  /\ pendingClaim' = IF pc[p] = "rel_claim" THEN [pendingClaim EXCEPT ![p] = claim[p]]
                                             ELSE pendingClaim
  /\ UNCHANGED <<strays, life, files, counts, ghost>>

-----------------------------------------------------------------------------
(* The producer runs without the lease, then the claim is finished.        *)

(* "publishable": bytes the cache accepts; "refused": bytes with a         *)
(* deadline or guard not_run provider, which _publish_unlocked rejects;    *)
(* "none": the attempt was not cacheable.                                  *)
Produce(p) ==
  /\ pc[p] = "produce"
  /\ \E value \in {"publishable", "refused", "none"} : doc' = [doc EXCEPT ![p] = value]
  /\ Result(p, "document")
  /\ Goto(p, "finish")
  /\ UNCHANGED <<strays, life, mutex, files, view, claim, attempts, late, pending, counts, faults, ghost>>

(* The producer raises: cleanup_attempt finishes the claim without bytes   *)
(* and the exception goes on.                                              *)
ProducerRaises(p) ==
  /\ pc[p] = "produce"
  /\ Result(p, "raised")
  /\ Goto(p, "finish")
  /\ UNCHANGED <<strays, life, mutex, files, locals, pending, counts, faults, ghost>>

(* _finish_claim                                                           *)
FinishAcquire(p) ==
  /\ pc[p] = "finish"
  /\ \/ Acquire(p) /\ Goto(p, "finish_read") /\ UNCHANGED <<outcome, locals, pendingClaim>>
     \/ /\ GuardTimesOut \/ GuardFails
        /\ pendingClaim' = [pendingClaim EXCEPT ![p] = claim[p]]
        /\ Return(p, outcome[p])
  /\ UNCHANGED <<strays, life, files, pendingLease, counts, ghost>>

FinishRead(p) ==
  /\ pc[p] = "finish_read"
  /\ \/ AccessOk(p) /\ Goto(p, IF ~SameClaim(marker, claim[p], p) THEN "finish_rel"
                                ELSE IF doc[p] = "none" THEN "retire" ELSE "publish")
     \/ AccessFails(p) /\ Goto(p, "finish_rel")
  /\ UNCHANGED <<life, mutex, files, outcome, locals, pending, counts, ghost>>

(* _publish_unlocked: the cache file is replaced, or the write is reported *)
(* as failed, like that of a marker.                                       *)
Fresh(p) == [at |-> claimAt[p], fresh |-> TRUE]

FinishPublish(p) ==
  /\ pc[p] = "publish"
  /\ Goto(p, "retire")
  /\ \/ doc[p] = "publishable" /\ AccessOk(p) /\ cache' = Fresh(p) /\ Result(p, "published")
     \/ /\ UNCHANGED <<cache, outcome>>
        /\ \/ doc[p] = "refused" /\ NoFault /\ UNCHANGED strays
           \/ doc[p] = "publishable" /\ AccessRefused(p)
           \/ /\ doc[p] = "publishable" /\ ~late[p] /\ Fault
              /\ strayMarker' = [strayMarker EXCEPT ![p] = NoMarker]
              /\ strayCache' = [strayCache EXCEPT ![p] = TRUE]
  /\ UNCHANGED <<life, mutex, marker, locals, pending, counts, ghost>>

\* Mutant: a failure after the write replaces the result.
Unpublished_error(p) == "internal_error"

Unpublished(p) == IF outcome[p] = "published" THEN "document" ELSE outcome[p]

FinishRetire(p) ==
  /\ pc[p] = "retire"
  /\ Goto(p, "finish_rel")
  /\ \/ WriteDone(p, Inactive(claim[p])) /\ Loosen /\ UNCHANGED <<outcome, pendingClaim>>
     \/ /\ WriteFails(p, Inactive(claim[p]))
        /\ pendingClaim' = [pendingClaim EXCEPT ![p] = claim[p]]
        /\ Result(p, Unpublished(p)) /\ UNCHANGED ghost
  /\ UNCHANGED <<life, mutex, cache, locals, pendingLease, counts>>

FinishRelease(p) ==
  /\ pc[p] = "finish_rel"
  /\ \/ CloseLease(p) /\ Return(p, outcome[p])
     \/ KeepLease(p) /\ Return(p, Unpublished(p))
  /\ UNCHANGED <<strays, life, files, pendingClaim, counts, ghost>>

-----------------------------------------------------------------------------
(* The environment.                                                        *)

Start(p) ==
  /\ life[p] = "unborn"
  /\ \A q \in Proc : Present(q) => PidOf[q] # PidOf[p]
  /\ life' = [life EXCEPT ![p] = "running"]
  /\ UNCHANGED <<strays, mutex, files, pc, locals, outcome, pending, counts, faults, ghost>>

(* The child of a write that was reported as failed does it all the same,  *)
(* whatever its parent and the others are doing.  It is in time as long as *)
(* the parent still has the lease it was begun under.                      *)
InTime(p) == pc[p] \in {"rel_fail", "retire", "finish_rel", "recover_bad"}
Write(p) == IF strayCache[p] THEN "result"
            ELSE IF strayMarker[p].owner = NoProc THEN "return" ELSE "claim"

Land(p) ==
  /\ Loose(p)
  /\ IF strayCache[p] THEN cache' = Fresh(p) /\ UNCHANGED <<marker, firm>>
     ELSE marker' = strayMarker[p] /\ firm' = FALSE /\ UNCHANGED cache
  /\ EndStrays(p)
  /\ astray' = IF InTime(p) THEN astray ELSE astray \cup {Write(p)}
  /\ UNCHANGED <<life, mutex, pc, locals, outcome, pending, counts, faults, epoch, claimAt>>

(* The instance exits, is killed or crashes, at any point of a call; its   *)
(* memory is lost, a mutex it owns is abandoned, and its job takes a child *)
(* along that is still at work (DiesWithCaller of BoundedFileCall).  The   *)
(* process object lives on while somebody has a handle to it.              *)
Terminate(p) ==
  /\ Running(p)
  /\ life' = [life EXCEPT ![p] = "exited"]
  /\ Return(p, "none")
  /\ pendingClaim' = [pendingClaim EXCEPT ![p] = 0]
  /\ pendingLease' = [pendingLease EXCEPT ![p] = FALSE]
  /\ EndStrays(p)
  /\ UNCHANGED <<mutex, files, counts, faults, ghost>>

LastHandleClosed(p) ==
  /\ life[p] = "exited"
  /\ life' = [life EXCEPT ![p] = "gone"]
  /\ UNCHANGED <<strays, mutex, files, pc, locals, outcome, pending, counts, faults, ghost>>

Exhaust(p) ==
  /\ pc[p] # "idle" /\ ~late[p]
  /\ late' = [late EXCEPT ![p] = TRUE]
  /\ UNCHANGED <<strays, life, mutex, files, pc, view, claim, attempts, doc, outcome, pending, counts, faults, ghost>>

(* CACHE_TTL_SECONDS pass.                                                 *)
Expire ==
  /\ cache.fresh
  /\ cache' = [cache EXCEPT !.fresh = FALSE]
  /\ UNCHANGED <<strays, life, mutex, marker, pc, locals, outcome, pending, counts, faults, ghost>>

(* Somebody deletes the marker file.                                       *)
Erase ==
  /\ erases < MaxErase /\ marker # NoMarker
  /\ marker' = NoMarker
  /\ erases' = erases + 1
  /\ Loosen
  /\ UNCHANGED <<life, mutex, cache, strays, pc, locals, outcome, pending, calls, faults>>

(* Every instance has run and is gone.                                     *)
Over ==
  /\ \A p \in Proc : life[p] = "gone"
  /\ UNCHANGED vars

Step(p) ==
  \/ Reclose(p) \/ Lookup(p) \/ Loop(p)
  \/ InspectPendingLease(p) \/ RecoverAcquire(p) \/ RecoverRead(p) \/ RecoverRetire(p)
  \/ RecoverRelease(p) \/ InspectAcquire(p) \/ FinalLookup(p) \/ InspectLoad(p)
  \/ InspectMarker(p) \/ JudgeOwner(p) \/ Claim(p)
  \/ ReleaseInspection(p) \/ ReleaseInspectionFails(p)
  \/ Produce(p) \/ ProducerRaises(p)
  \/ FinishAcquire(p) \/ FinishRead(p) \/ FinishPublish(p) \/ FinishRetire(p) \/ FinishRelease(p)

Environment(p) == Start(p) \/ Call(p) \/ Terminate(p) \/ LastHandleClosed(p) \/ Exhaust(p) \/ Land(p)

Next ==
  \/ \E p \in Proc : Step(p) \/ Environment(p)
  \/ Expire
  \/ Erase
  \/ Over

Spec == Init /\ [][Next]_vars

(* A running instance keeps executing its call; nothing obliges the        *)
(* environment to do anything.                                             *)
Fairness == \A p \in Proc : WF_vars(Step(p))

FairSpec == Spec /\ Fairness

-----------------------------------------------------------------------------

(* The values of the variables, and that a lease is held in every critical *)
(* section of the coordinator.                                             *)
TypeOK ==
  /\ life \in [Proc -> {"unborn", "running", "exited", "gone"}]
  /\ mutex \in Proc \cup {NoProc}
  /\ marker \in Markers
  /\ cache \in [at : Nat, fresh : BOOLEAN]
  /\ strayMarker \in [Proc -> Markers]
  /\ strayCache \in [Proc -> BOOLEAN]
  /\ pc \in [Proc -> Labels]
  /\ view \in [Proc -> Markers]
  /\ claim \in [Proc -> Nat]
  /\ pendingClaim \in [Proc -> Nat]
  /\ pendingLease \in [Proc -> BOOLEAN]
  /\ attempts \in [Proc -> Nat]
  /\ late \in [Proc -> BOOLEAN]
  /\ doc \in [Proc -> {"publishable", "refused", "none"}]
  /\ outcome \in [Proc -> Outcomes]
  /\ calls \in [Proc -> Nat]
  /\ faults \in Nat
  /\ erases \in Nat
  /\ epoch \in Nat
  /\ claimAt \in [Proc -> Nat]
  /\ firm \in BOOLEAN
  /\ astray \in SUBSET {"claim", "return", "result"}

(* Exclusion that survives crashes, timeouts and failed releases: whoever  *)
(* is between taking and closing a coordination lease owns the mutex, and  *)
(* nobody owns it while its producer runs or before it takes it (so it is  *)
(* never taken a second time by its owner).                                *)
LeaseDiscipline ==
  \A p \in Proc :
    /\ pc[p] \in CriticalLabels => mutex = p
    /\ pc[p] \in {"lookup", "final_lookup", "loop", "produce", "finish"} /\ ~pendingLease[p]
         => mutex # p
    /\ pc[p] \in {"produce", "finish"} => ~pendingLease[p]

(* What inspect_state read is still true when claim_or_wait acts on it: in *)
(* between, the file may have been deleted, and a write that is later than *)
(* its lease may have retired the marker - or claimed it; and an owner     *)
(* once found dead is not there again.                                     *)
ViewIsCurrent ==
  \A p \in Proc :
    /\ pc[p] \in {"judge", "claim"} =>
         \/ marker \in {view[p], NoMarker}
         \/ "return" \in astray /\ marker.owner = NoProc
         \/ "claim" \in astray
    /\ pc[p] = "claim" => view[p].owner = NoProc \/ ~Present(view[p].owner)

(* The marker keeps naming a process that works under its claim, so every  *)
(* other process finds a live owner: a claim is lost only to a deletion,   *)
(* or to a claim that was reported as failed and made when its process had *)
(* given the mutex up.  Retirements and results that come late take it     *)
(* from nobody.                                                            *)
Undisturbed == erases = 0 /\ "claim" \notin astray

ProducerKeepsMarker ==
  Undisturbed =>
    \A p \in Proc : pc[p] \in ClaimLabels \ {"finish_rel"} => SameClaim(marker, claim[p], p)

(* docs/architecture/README.md:89-91: on a miss one producer runs, and     *)
(* waiters never launch a duplicate refresh - as long as no claim was      *)
(* deleted, or displaced by one that came late.                            *)
SingleProducer ==
  Undisturbed =>
    \A p, q \in Proc : pc[p] = "produce" /\ pc[q] = "produce" => p = q

(* Cache, mutex and cleanup failures do not change a provider's result: a  *)
(* call whose producer returned a document ends by returning it.           *)
DocumentSurvives ==
  [][ \A p \in Proc : outcome[p] \in {"document", "published"} /\ Running(p)' =>
        \/ outcome'[p] \in {"document", "published"}
        \/ calls'[p] # calls[p] ]_vars

(***************************************************************************)
(* The parts of the inductive invariant that are not properties by         *)
(* themselves: who holds the mutex and which leases are known, what each   *)
(* instance knows of the marker, which claim is the newest, and what may   *)
(* still be written by a child that its parent has given up.               *)
(***************************************************************************)
CallRuns == \A p \in Proc : pc[p] # "idle" => Running(p)

LeaseHeld ==
  \A p \in Proc :
    /\ pc[p] \in CriticalLabels => mutex = p
    /\ mutex = p => life[p] # "unborn"
    /\ mutex = p /\ Running(p) => pc[p] \in CriticalLabels \/ pendingLease[p]
    /\ pc[p] \in CriticalLabels \cup {"produce", "finish"} => ~pendingLease[p]

OwnerHasLived == marker.owner # NoProc => life[marker.owner] # "unborn"

(* A claim in force is changed by nobody but its owner: what was read of   *)
(* it is so.                                                               *)
MarkerKnown ==
  \A p \in Proc :
    /\ pc[p] \in {"judge", "claim"} /\ firm => marker = view[p]
    /\ pc[p] \in {"judge", "claim"} =>
         \/ marker \in {view[p], NoMarker}
         \/ "return" \in astray /\ marker.owner = NoProc
         \/ "claim" \in astray
    /\ pc[p] = "judge" => view[p].owner # NoProc
    /\ pc[p] = "claim" => view[p].owner = NoProc \/ ~Present(view[p].owner)
    /\ pc[p] \in {"judge", "claim"} /\ view[p].owner # NoProc => life[view[p].owner] # "unborn"
    /\ pc[p] \in {"publish", "retire", "recover_retire"} /\ firm => marker.owner = p

NewestClaim ==
  /\ firm => marker.owner # NoProc /\ claimAt[marker.owner] = epoch
  /\ \A p \in Proc :
       /\ pc[p] = "publish" => claimAt[p] = epoch
       /\ pc[p] \in ClaimLabels \ {"finish_rel"} /\ SameClaim(marker, claim[p], p)
            => claimAt[p] = epoch

(* A child that was given up works for a running process that has begun no *)
(* other access since, and writes a marker of that process or the cache.   *)
StraysKnown ==
  \A p \in Proc :
    /\ Loose(p) => Running(p)
    /\ strayMarker[p] # NoMarker => ~strayCache[p] /\ strayMarker[p].owner \in {p, NoProc}
    /\ Loose(p) => pc[p] \notin {"judge", "claim", "rel_claim", "produce", "finish", "finish_read",
                                  "publish", "recover_retire"}
    /\ pc[p] = "retire" => strayMarker[p] = NoMarker
    /\ pc[p] \in {"load", "read", "judge", "claim"} \/ strayMarker[p].owner = p
         => pendingClaim[p] = 0
    /\ pc[p] \in {"recover_read", "recover_retire"} => pendingClaim[p] # 0

(* What of this takes no claim from a process at work.                     *)
StraysHarmless ==
  Undisturbed =>
    \A p \in Proc :
      /\ strayMarker[p] # NoMarker /\ strayMarker[p].owner = NoProc
           => SameClaim(marker, strayMarker[p].gen, p)
      /\ strayMarker[p].owner = p /\ InTime(p)
           => marker.owner = NoProc \/ ~Present(marker.owner)
      /\ pc[p] = "recover_retire" => SameClaim(marker, pendingClaim[p], p)

(* Before the producer has returned, the call has no document to lose. *)
Documents == {"document", "published"}
NoDocumentYet ==
  \A p \in Proc :
    pc[p] \notin {"idle", "finish", "finish_read", "publish", "retire", "finish_rel"}
      => outcome[p] \notin Documents

IInv == /\ CallRuns /\ LeaseHeld /\ OwnerHasLived /\ MarkerKnown /\ NewestClaim
        /\ StraysKnown /\ StraysHarmless /\ ProducerKeepsMarker

(* The coordinator is an implementation of the abstract single flight: the *)
(* right is with the owner of a claim in force, and a failed write whose   *)
(* child is still at work is the change that may still be made.            *)
Holder == IF firm THEN marker.owner ELSE NoProc
LooseWrites == [p \in Proc |-> IF strayCache[p] THEN "result"
                              ELSE IF strayMarker[p] # NoMarker THEN "right" ELSE "none"]

SF == INSTANCE SingleFlight WITH
        present <- {p \in Proc : Present(p)},
        holder <- Holder,
        issued <- epoch,
        ticket <- claimAt,
        result <- cache.at,
        loose <- LooseWrites
ImplementsSingleFlight == SF!SFSpec

(* Every call ends, whatever the other processes do or stop doing: waiting *)
(* for an owner is bounded, and so is waiting for the mutex.               *)
CallEnds == \A p \in Proc : pc[p] # "idle" ~> pc[p] = "idle"

=============================================================================
