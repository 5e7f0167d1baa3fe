----------------------------- MODULE ConfigLock -----------------------------
(***************************************************************************)
(* The lock around changes of config.json: config_lease of                 *)
(* src/yasb_limitora/_config_lock.py.  It takes a named mutex and, when    *)
(* the mutex cannot be had at all, falls back on a marker file that names  *)
(* its owner by pid and creation token and may be reclaimed once the owner *)
(* is found dead.                                                          *)
(*                                                                         *)
(* A process instance stands for (pid, creation token).  It creates at     *)
(* most one marker, so a marker file is identified with its creator: the   *)
(* file named p was created by p, and says so once p has written it.       *)
(* Between any two accesses to the file another process may act or die.    *)
(***************************************************************************)
EXTENDS Naturals, FiniteSets

CONSTANTS
  Proc,        \* process instances, each of which takes the lock at most once
  NoProc,      \* no process, and no file
  Pids,        \* the ways in which the system may give the instances process ids
  Outages,     \* the sets of instances the named mutex may be unavailable to
  MaxFaults    \* bound: failed system calls in a behaviour

ASSUME LockAssumption ==
  /\ NoProc \notin Proc
  /\ \A pids \in Pids : DOMAIN pids = Proc
  /\ Outages \subseteq SUBSET Proc
  /\ MaxFaults \in Nat

VARIABLES
  life,      \* "unborn", "running", "exited" (a handle keeps the object), "gone"
  mutex,     \* the instance that owns the named mutex; a dead owner has abandoned it
  name,      \* the file the marker's name leads to, NoProc for none
  written,   \* the marker files whose content is complete
  deleting,  \* the marker files marked for deletion
  handle,    \* the marker file each instance has open, NoProc for none
  lease,     \* what each instance holds: "none", "guard" or "marker"
  pc,        \* where in config_lease the instance is
  late,      \* usable_ns() <= 0 from now on
  outcome,   \* how its config_lease ended
  outage,    \* the instances that cannot have the named mutex, in this behaviour
  pidOf,     \* the process id that each instance gets in it
  faults     \* failures so far

files == <<name, written, deleting, handle>>
given == <<outage, pidOf>>
vars  == <<life, mutex, name, written, deleting, handle, lease, pc, late, outcome, outage, pidOf, faults>>

Labels == {"idle", "guard", "fallback", "create", "open", "read", "reopen", "dispose",
           "close", "write", "holding", "closing"}

Outcomes == {"none", "done", "busy", "release_failed", "close_failed"}

Running(p) == life[p] = "running"
Present(p) == life[p] \in {"running", "exited"}

Init ==
  /\ life = [p \in Proc |-> "unborn"]
  /\ mutex = NoProc
  /\ name = NoProc
  /\ written = {}
  /\ deleting = {}
  /\ handle = [p \in Proc |-> NoProc]
  /\ lease = [p \in Proc |-> "none"]
  /\ pc = [p \in Proc |-> "idle"]
  /\ late = [p \in Proc |-> FALSE]
  /\ outcome = [p \in Proc |-> "none"]
  /\ outage \in Outages /\ pidOf \in Pids
  /\ faults = 0

-----------------------------------------------------------------------------
Goto(p, label) == pc' = [pc EXCEPT ![p] = label]
NoFault == UNCHANGED faults
Fault == faults < MaxFaults /\ faults' = faults + 1

(* The last handle of a file that is marked for deletion takes its name    *)
(* away with it.                                                           *)
DropHandle(p) ==
  /\ handle' = [handle EXCEPT ![p] = NoProc]
  /\ name' = IF name \in deleting /\ \A q \in Proc \ {p} : handle[q] # name THEN NoProc ELSE name

(* Leaving config_lease, with whatever is open closed.                     *)
End(p, value) ==
  /\ Goto(p, "idle")
  /\ outcome' = [outcome EXCEPT ![p] = value]
  /\ DropHandle(p)

Busy(p) == End(p, "busy") /\ UNCHANGED <<written, deleting>>

-----------------------------------------------------------------------------
(* The mutex.                                                              *)

Enter(p) ==
  /\ Running(p) /\ pc[p] = "idle" /\ outcome[p] = "none"
  /\ Goto(p, "guard")
  /\ UNCHANGED <<life, mutex, files, lease, late, outcome, faults>>

MutexFree(m) == m \in {NoProc} \cup {q \in Proc : ~Running(q)}

\* Mutant: the deadline does not end the wait.
AcquireGuard_no_deadline(p) ==
  /\ pc[p] = "guard" /\ p \notin outage /\ MutexFree(mutex)
  /\ mutex' = p /\ lease' = [lease EXCEPT ![p] = "guard"]
  /\ Goto(p, "holding")
  /\ NoFault /\ UNCHANGED <<life, files, late, outcome>>

(* A wait that times out is repeated until the deadline.                   *)
AcquireGuard(p) ==
  /\ pc[p] = "guard" /\ p \notin outage
  /\ \/ /\ MutexFree(mutex)
        /\ mutex' = p /\ lease' = [lease EXCEPT ![p] = "guard"]
        /\ Goto(p, "holding") /\ UNCHANGED <<files, outcome>>
     \/ /\ ~MutexFree(mutex) /\ late[p]
        /\ Busy(p) /\ UNCHANGED <<mutex, lease>>
  /\ NoFault /\ UNCHANGED <<life, late>>

GuardUnavailable(p) ==
  /\ pc[p] = "guard"
  /\ IF p \in outage THEN NoFault ELSE Fault
  /\ Goto(p, "fallback")
  /\ UNCHANGED <<life, mutex, files, lease, late, outcome>>

-----------------------------------------------------------------------------
(* _fallback_lease                                                         *)

VerifyParent(p) ==
  /\ pc[p] = "fallback"
  /\ \/ NoFault /\ Goto(p, "create") /\ UNCHANGED <<files, outcome>>
     \/ Fault /\ Busy(p)
  /\ UNCHANGED <<life, mutex, lease, late>>

(* CREATE_NEW; a failure after the creation leaves the empty file behind.  *)
CreateMarker(p) ==
  /\ pc[p] = "create"
  /\ \/ late[p] /\ NoFault /\ Busy(p)
     \/ /\ ~late[p] /\ NoFault /\ name = NoProc
        /\ name' = p /\ handle' = [handle EXCEPT ![p] = p]
        /\ Goto(p, "write") /\ UNCHANGED <<written, deleting, outcome>>
     \/ /\ ~late[p]
        /\ \/ name # NoProc /\ NoFault /\ UNCHANGED name
           \/ Fault /\ name' \in (IF name = NoProc THEN {NoProc, p} ELSE {name})
        /\ Goto(p, "open") /\ UNCHANGED <<written, deleting, handle, outcome>>
  /\ UNCHANGED <<life, mutex, lease, late>>

(* The owner's pid and token are written and flushed through the handle    *)
(* that created the file.  A failure closes the handle and leaves the      *)
(* file, with or without a complete content.                               *)
WriteMarker(p) ==
  /\ pc[p] = "write"
  /\ \/ /\ NoFault /\ written' = written \cup {p}
        /\ lease' = [lease EXCEPT ![p] = "marker"]
        /\ Goto(p, "holding") /\ UNCHANGED <<name, deleting, handle, outcome>>
     \/ /\ Fault /\ written' \in {written, written \cup {p}}
        /\ End(p, "busy") /\ UNCHANGED <<deleting, lease>>
  /\ UNCHANGED <<life, mutex, late>>

(* _open_marker: a name that leads to no file, or to one that is going     *)
(* away, cannot be opened.                                                 *)
OpenMarker(p) ==
  /\ pc[p] = "open"
  /\ \/ /\ NoFault /\ name \notin deleting \cup {NoProc}
        /\ handle' = [handle EXCEPT ![p] = name]
        /\ Goto(p, "read") /\ UNCHANGED <<name, written, deleting, outcome>>
     \/ NoFault /\ name \in deleting \cup {NoProc} /\ Busy(p)
     \/ Fault /\ Busy(p)
  /\ UNCHANGED <<life, mutex, lease, late>>

(* decode_marker and the comparison of the creation token.  A marker that  *)
(* cannot be decoded or names the process's own pid is never reclaimed.    *)
\* Mutant: the creation token is not compared.
Reclaimable_pid_only(p, f) ==
  LET occupants == {q \in Proc : Present(q) /\ pidOf[q] = pidOf[f]}
  IN  f \in written /\ pidOf[f] # pidOf[p] /\ occupants = {}

Reclaimable(p, f) ==
  LET occupants == {q \in Proc : Present(q) /\ pidOf[q] = pidOf[f]}
  IN  f \in written /\ pidOf[f] # pidOf[p] /\ f \notin occupants

JudgeMarker(p) ==
  /\ pc[p] = "read"
  /\ \/ /\ NoFault /\ Reclaimable(p, handle[p])
        /\ Goto(p, "reopen") /\ UNCHANGED <<files, outcome>>
     \/ NoFault /\ ~Reclaimable(p, handle[p]) /\ Busy(p)
     \/ Fault /\ Busy(p)
  /\ UNCHANGED <<life, mutex, lease, late>>

(* identity_reopen: does the name still lead to the file that was read?    *)
Reopen(p) ==
  /\ pc[p] = "reopen"
  /\ \/ NoFault /\ name = handle[p] /\ name \notin deleting
        /\ Goto(p, "dispose") /\ UNCHANGED <<files, outcome>>
     \/ NoFault /\ (name # handle[p] \/ name \in deleting) /\ Busy(p)
     \/ Fault /\ Busy(p)
  /\ UNCHANGED <<life, mutex, lease, late>>

(* Deletion through the handle: it strikes the file that was opened, never *)
(* a successor of the same name.  The name is freed at once or with the    *)
(* last handle, depending on the file system.                              *)
\* Mutant: whatever has the name by now is deleted.
DeleteByHandle_name(f) ==
  /\ deleting' = deleting \cup ({name} \ {NoProc})
  /\ name' \in {name, NoProc}

DeleteByHandle(f) ==
  /\ deleting' = deleting \cup {f}
  /\ name' \in (IF name = f THEN {name, NoProc} ELSE {name})

Dispose(p) ==
  /\ pc[p] = "dispose"
  /\ \/ /\ NoFault /\ DeleteByHandle(handle[p])
        /\ Goto(p, "close") /\ UNCHANGED <<written, handle, outcome>>
     \/ Fault /\ Busy(p)
  /\ UNCHANGED <<life, mutex, lease, late>>

(* A handle that cannot be closed stays open until the process ends.       *)
CloseReclaimed(p) ==
  /\ pc[p] = "close"
  /\ \/ NoFault /\ DropHandle(p) /\ Goto(p, "create") /\ UNCHANGED outcome
     \/ /\ Fault /\ Goto(p, "idle")
        /\ outcome' = [outcome EXCEPT ![p] = "release_failed"]
        /\ UNCHANGED <<name, handle>>
  /\ UNCHANGED <<life, mutex, written, deleting, lease, late>>

-----------------------------------------------------------------------------
(* Leaving the with statement.                                             *)

(* Three attempts to release and three to close; a mutex that could not be *)
(* released stays with the process, although the lease no longer says so.  *)
ReleaseGuard(p) ==
  /\ pc[p] = "holding" /\ lease[p] = "guard"
  /\ lease' = [lease EXCEPT ![p] = "none"]
  /\ \/ NoFault /\ mutex' = NoProc /\ End(p, "done")
     \/ Fault /\ mutex' = NoProc /\ End(p, "close_failed")
     \/ Fault /\ UNCHANGED mutex /\ End(p, "release_failed")
  /\ UNCHANGED <<life, written, deleting, late>>

(* ConfigLease.close: delete the marker, then close the handles, whether   *)
(* or not it could be deleted.                                             *)
DeleteMarker(p) ==
  /\ pc[p] = "holding" /\ lease[p] = "marker"
  /\ Goto(p, "closing")
  /\ \/ NoFault /\ name = handle[p] /\ name \notin deleting /\ DeleteByHandle(handle[p])
     \/ NoFault /\ (name # handle[p] \/ name \in deleting) /\ UNCHANGED <<name, deleting>>
     \/ Fault /\ UNCHANGED <<name, deleting>>
  /\ UNCHANGED <<life, mutex, written, handle, lease, late, outcome>>

CloseMarker(p) ==
  /\ pc[p] = "closing"
  /\ lease' = [lease EXCEPT ![p] = "none"]
  /\ \/ NoFault /\ End(p, IF handle[p] \in deleting THEN "done" ELSE "release_failed")
     \/ /\ Fault /\ Goto(p, "idle")
        /\ outcome' = [outcome EXCEPT ![p] = "release_failed"]
        /\ UNCHANGED <<name, handle>>
  /\ UNCHANGED <<life, mutex, written, deleting, late>>

-----------------------------------------------------------------------------
(* The environment.                                                        *)

Start(p) ==
  /\ life[p] = "unborn"
  /\ \A q \in Proc : Present(q) => pidOf[q] # pidOf[p]
  /\ life' = [life EXCEPT ![p] = "running"]
  /\ UNCHANGED <<mutex, files, lease, pc, late, outcome, faults>>

(* The instance exits or is killed at any point; its handles are closed    *)
(* and the mutex it owns is abandoned.                                     *)
Terminate(p) ==
  /\ Running(p)
  /\ life' = [life EXCEPT ![p] = "exited"]
  /\ Goto(p, "idle") /\ DropHandle(p)
  /\ lease' = [lease EXCEPT ![p] = "none"]
  /\ UNCHANGED <<mutex, written, deleting, late, outcome, faults>>

LastHandleClosed(p) ==
  /\ life[p] = "exited"
  /\ life' = [life EXCEPT ![p] = "gone"]
  /\ UNCHANGED <<mutex, files, lease, pc, late, outcome, faults>>

Exhaust(p) ==
  /\ pc[p] # "idle" /\ ~late[p]
  /\ late' = [late EXCEPT ![p] = TRUE]
  /\ UNCHANGED <<life, mutex, files, lease, pc, outcome, faults>>

(* Every instance has run and is gone.                                     *)
Over == (\A p \in Proc : life[p] = "gone") /\ UNCHANGED vars

Step(p) ==
  /\ UNCHANGED given
  /\ \/ AcquireGuard(p) \/ GuardUnavailable(p)
     \/ VerifyParent(p) \/ CreateMarker(p) \/ WriteMarker(p)
     \/ OpenMarker(p) \/ JudgeMarker(p) \/ Reopen(p) \/ Dispose(p) \/ CloseReclaimed(p)
     \/ ReleaseGuard(p) \/ DeleteMarker(p) \/ CloseMarker(p)

(* What happens outside of the steps of the lock.                          *)
Environment(p) ==
  /\ UNCHANGED given
  /\ Enter(p) \/ Start(p) \/ Terminate(p) \/ LastHandleClosed(p) \/ Exhaust(p)

Next == (\E p \in Proc : Step(p) \/ Environment(p)) \/ Over

Spec == Init /\ [][Next]_vars

(* A running instance goes on, the body of the with statement ends, and    *)
(* time passes.                                                            *)
Fairness == \A p \in Proc : WF_vars(Step(p)) /\ WF_vars(Exhaust(p) /\ UNCHANGED given)

FairSpec == Spec /\ Fairness

-----------------------------------------------------------------------------

(* The values of the variables; and a process that is out of config_lease, *)
(* however it got out, has a handle open only if closing it failed.        *)
TypeOK ==
  /\ life \in [Proc -> {"unborn", "running", "exited", "gone"}]
  /\ mutex \in Proc \cup {NoProc}
  /\ name \in Proc \cup {NoProc}
  /\ written \subseteq Proc
  /\ deleting \subseteq Proc
  /\ handle \in [Proc -> Proc \cup {NoProc}]
  /\ lease \in [Proc -> {"none", "guard", "marker"}]
  /\ pc \in [Proc -> Labels]
  /\ late \in [Proc -> BOOLEAN]
  /\ outcome \in [Proc -> Outcomes]
  /\ outage \subseteq Proc /\ pidOf \in Pids
  /\ faults \in Nat
  /\ \A p \in Proc : pc[p] = "idle" /\ handle[p] # NoProc => outcome[p] = "release_failed"

(* The marker of a process that is inside the lock stays where it is and   *)
(* names its owner: nobody reclaims it, replaces it or deletes it, however *)
(* many others race to reclaim the marker of a predecessor.                *)
HeldMarkerStands ==
  \A p \in Proc : lease[p] = "marker" /\ pc[p] = "holding" =>
    name = p /\ p \in written /\ p \notin deleting /\ handle[p] = p

(* Of the mutex, and of the marker, there is one holder at a time.         *)
OneHolder ==
  \A p, q \in Proc : pc[p] = "holding" /\ pc[q] = "holding" /\ lease[p] = lease[q] => p = q

(* Without failures a process is refused for one of five reasons only:     *)
(* somebody else is at the lock, the marker went away while it looked, the *)
(* owner of the marker still exists, the marker was left empty by a crash, *)
(* or it was left by a process that had the same pid.  In particular,      *)
(* nobody is refused because of an abandoned mutex or of a complete marker *)
(* of a process that is gone.                                              *)
RefusedForAReason ==
  [][ \A p \in Proc :
        pc[p] # "idle" /\ outcome'[p] = "busy" /\ ~late[p] /\ faults' = 0 =>
          \/ \E q \in Proc \ {p} : pc[q] # "idle"
          \/ pc[p] \in {"open", "reopen"} /\ name \in deleting \cup {NoProc}
          \/ pc[p] = "reopen" /\ name # handle[p]
          \/ LET f == handle[p]
             IN  f # NoProc /\ (Present(f) \/ f \notin written \/ pidOf[f] = pidOf[p]) ]_vars

(* Entering the lock ends, with the lock or without it.                    *)
EntryEnds == \A p \in Proc : pc[p] = "guard" ~> pc[p] \in {"idle", "holding"}

(***************************************************************************)
(* Why the marker of a live holder stands: a file is reclaimed only after  *)
(* its creator is gone for good (JudgedGone), a process that has not yet   *)
(* been through the lock has no file (NotYetThere), and whoever creates or *)
(* holds a marker owns the name (OwnsTheName).                             *)
(***************************************************************************)
AtTheLock == \A p \in Proc : pc[p] # "idle" => Running(p)

WriterHasLived == \A p \in written : life[p] # "unborn"

JudgedGone ==
  \A p \in Proc :
    /\ pc[p] = "read" => handle[p] # NoProc
    /\ pc[p] \in {"reopen", "dispose", "close"} => handle[p] # NoProc /\ life[handle[p]] = "gone"

NotYetThere ==
  \A p \in Proc :
    \/ pc[p] \in {"guard", "fallback", "create", "open", "read", "reopen", "dispose", "close"}
    \/ life[p] = "unborn"
    \/ Running(p) /\ pc[p] = "idle" /\ outcome[p] = "none"
    => p \notin deleting

OwnsTheName ==
  \A p \in Proc :
    /\ pc[p] = "write" => name = p /\ handle[p] = p /\ p \notin deleting
    /\ pc[p] = "holding" /\ lease[p] = "marker" =>
         name = p /\ p \in written /\ handle[p] = p /\ p \notin deleting

IInv == TypeOK /\ AtTheLock /\ WriterHasLived /\ JudgedGone /\ NotYetThere /\ OwnsTheName

(* A process that is at the lock has not been answered yet.                *)
Unanswered == \A p \in Proc : pc[p] # "idle" => outcome[p] = "none"

(* Whoever holds the mutex by its lease owns it.                           *)
GuardOwned ==
  \A p \in Proc : pc[p] = "holding" =>
    lease[p] \in {"guard", "marker"} /\ (lease[p] = "guard" => mutex = p)

=============================================================================
