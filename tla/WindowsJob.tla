----------------------------- MODULE WindowsJob -----------------------------
(***************************************************************************)
(* WindowsJobBoundary (isolation/windows_job.py): one job object that       *)
(* contains a child process and its descendants.  The child is put into the *)
(* job before it is told to go on; closing terminates the job, waits for    *)
(* the child and for the job to be empty, and only then closes the handles. *)
(* Every native call can fail, the processes die when they like between two *)
(* calls, the time can be up, and the owner can be killed.                  *)
(***************************************************************************)
EXTENDS Naturals, FiniteSets

CONSTANTS Kids,        \* descendants the child may start
          MaxJobFaults \* native calls that fail, and deaths that take too long

ASSUME JobAssumption == "root" \notin Kids /\ MaxJobFaults \in Nat

VARIABLES
  state,      \* JobState, and "none" before the constructor
  handle,     \* the job handle is open
  process,    \* the process handle: "none", "own" or "borrowed"
  assigned,   \* the assigned attribute
  alive, inJob, dying,  \* the system: live processes, members of the job, terminated ones
  going,      \* the child has been told to go on
  at, mode,   \* where a call is, and which one: see Calls
  loc,        \* the local variables of the cleanup
  jobFaults

boundary == <<state, handle, process, assigned>>
system   == <<alive, inJob, dying, going>>
jobVars  == <<boundary, system, at, mode, loc, jobFaults>>

Procs == {"root"} \union Kids
\* The constructor, the two ways to assign, close, and close_with_deadline.
Calls == {"construct", "assign", "borrow", "close", "deadline"}
Locals == [ok : BOOLEAN, waited : BOOLEAN, pterm : BOOLEAN, jterm : BOOLEAN,
           zero : BOOLEAN, wfail : BOOLEAN, timed : BOOLEAN]
NoLocals == [ok |-> TRUE, waited |-> FALSE, pterm |-> FALSE, jterm |-> FALSE,
             zero |-> FALSE, wfail |-> FALSE, timed |-> FALSE]

JobInit ==
  /\ state = "none" /\ handle = FALSE /\ process = "none" /\ assigned = FALSE
  /\ alive = {"root"} /\ inJob = {} /\ dying = {} /\ going = FALSE
  /\ at = "idle" /\ mode = "close" /\ loc = NoLocals /\ jobFaults = 0

Fine  == UNCHANGED jobFaults
Fails == jobFaults < MaxJobFaults /\ jobFaults' = jobFaults + 1
Idle  == at' = "idle" /\ mode' = "close" /\ loc' = NoLocals

Borrowed == process = "borrowed"
Active   == inJob \intersect alive

-----------------------------------------------------------------------------
(* __init__, assign_process, assign_borrowed_handle, authorize. *)

\* The handle is created and then set up; what fails after that is cleaned up.
Construct ==
  /\ state = "none" /\ at = "idle" /\ UNCHANGED <<process, assigned, system>>
  /\ \/ Fine /\ state' = "created" /\ handle' = TRUE /\ Idle
     \/ Fails /\ state' = "closed" /\ UNCHANGED handle /\ Idle
     \/ Fails /\ handle' = TRUE /\ at' = "terminate" /\ mode' = "construct" /\ UNCHANGED <<state, loc>>

\* Mutant: a failed assignment is not noticed.
Assign_unchecked(m) ==
  /\ m \in {"assign", "borrow"} /\ state = "created" /\ at = "idle" /\ process = "none" /\ handle
  /\ mode' = m /\ UNCHANGED <<handle, alive, dying, going, loc>>
  /\ process' = IF m = "assign" THEN "own" ELSE "borrowed"
  /\ Fine
  /\ \/ at' = "idle" /\ state' = "assigned" /\ UNCHANGED <<assigned, inJob>>
     \/ /\ "root" \in alive
        /\ assigned' = TRUE /\ inJob' = inJob \union {"root"}
        /\ at' = "verify" /\ UNCHANGED state

\* Up to AssignProcessToJobObject.  An exited process cannot be assigned.
Assign(m) ==
  /\ m \in {"assign", "borrow"} /\ state = "created" /\ at = "idle" /\ process = "none" /\ handle
  /\ mode' = m /\ UNCHANGED <<state, handle, alive, dying, going, loc>>
  /\ \/ /\ m = "assign" /\ Fails           \* OpenProcess
        /\ at' = "terminate" /\ UNCHANGED <<process, assigned, inJob>>
     \/ /\ Fine \/ Fails                   \* in another job, or the assignment fails
        /\ process' = IF m = "assign" THEN "own" ELSE "borrowed"
        /\ at' = "terminate" /\ UNCHANGED <<assigned, inJob>>
     \/ /\ Fine /\ "root" \in alive
        /\ process' = IF m = "assign" THEN "own" ELSE "borrowed"
        /\ assigned' = TRUE /\ inJob' = inJob \union {"root"}
        /\ at' = "verify"

\* The process has to be seen in the job, and the job to be active.
VerifyAssignment ==
  /\ at = "verify" /\ UNCHANGED <<handle, process, assigned, system>>
  /\ \/ Fine /\ Active # {} /\ state' = "assigned" /\ Idle
     \/ Fine /\ Active = {} /\ at' = "terminate" /\ UNCHANGED <<state, mode, loc>>
     \/ Fails /\ at' = "terminate" /\ UNCHANGED <<state, mode, loc>>

AuthorizeChild ==
  /\ at = "idle" /\ state = "assigned" /\ state' = "authorized"
  /\ UNCHANGED <<handle, process, assigned, system, at, mode, loc, jobFaults>>

\* The owner tells the child to go on once the assignment has succeeded.
Go == /\ at = "idle" /\ state \in {"assigned", "authorized"} /\ ~going
      /\ going' = TRUE
      /\ UNCHANGED <<boundary, alive, inJob, dying, at, mode, loc, jobFaults>>

-----------------------------------------------------------------------------
(* close and close_with_deadline.  An exhausted deadline returns before it   *)
(* changes anything.                                                          *)

Close(m) ==
  /\ m \in {"close", "deadline"} /\ at = "idle" /\ state \notin {"none", "closed"}
  /\ at' = "terminate" /\ mode' = m
  /\ UNCHANGED <<boundary, system, loc, jobFaults>>

-----------------------------------------------------------------------------
(* _cleanup, and the same loop in close_with_deadline. *)

\* A failed assign_process leaves a process that is not in the job alone.
TerminateUnassigned == mode # "assign"

NothingToWaitFor ==
  process = "none" \/ (~assigned /\ (Borrowed \/ ~TerminateUnassigned))

\* terminate_process for an own process outside the job, terminate for the job.
Terminate ==
  /\ at = "terminate"
  /\ \E pt, jt \in BOOLEAN :
       LET own  == process = "own" /\ ~assigned /\ TerminateUnassigned
           hit  == (IF own /\ pt THEN {"root"} ELSE {}) \union (IF handle /\ jt THEN inJob ELSE {})
       IN /\ ~own => pt
          /\ ~handle => jt
          /\ (pt /\ jt /\ Fine) \/ (~(pt /\ jt) /\ Fails)
          /\ dying' = dying \union (hit \intersect alive)
          /\ loc' = [ok |-> pt /\ jt, waited |-> NothingToWaitFor, pterm |-> pt, jterm |-> jt,
                     zero |-> ~handle \/ ~assigned, wfail |-> FALSE, timed |-> FALSE]
  /\ at' = "wait" /\ UNCHANGED <<boundary, alive, inJob, going, mode>>

Set(f, v) == [loc EXCEPT ![f] = v]

\* After the wait: without an assigned job the loop ends when it has its
\* answer, otherwise the job is asked.  Only close gives up after a failed wait.
AfterWait(l) ==
  IF handle /\ assigned THEN "query"
  ELSE IF l.waited \/ (l.wfail /\ mode # "deadline") THEN "handles"
  ELSE "wait"

WaitProcess ==
  /\ at = "wait" /\ (process # "none" \/ handle)
  /\ \E l \in Locals :
       /\ \/ NothingToWaitFor /\ Fine /\ l = loc
          \/ ~NothingToWaitFor /\ Fine /\ l = Set("waited", "root" \notin alive)
          \/ /\ ~NothingToWaitFor /\ Fails
             /\ l = [loc EXCEPT !.ok = FALSE, !.waited = FALSE, !.wfail = (mode # "deadline")]
       /\ loc' = l /\ at' = AfterWait(l)
  /\ UNCHANGED <<boundary, system, mode>>

NothingLeft == /\ at = "wait" /\ process = "none" /\ ~handle
               /\ at' = "handles" /\ UNCHANGED <<boundary, system, mode, loc, jobFaults>>

\* Mutant: the job counts as empty as soon as the child is gone.
QueryActive_child_only ==
  /\ at = "query" /\ UNCHANGED <<boundary, system, mode>>
  /\ \/ Fails /\ loc' = Set("ok", FALSE) /\ at' = "handles"
     \/ Fine /\ loc.waited /\ loc' = Set("zero", TRUE) /\ at' = "handles"
     \/ /\ Fine /\ ~loc.waited
        /\ at' = (IF loc.wfail THEN "handles" ELSE "wait") /\ UNCHANGED loc

QueryActive ==
  /\ at = "query" /\ UNCHANGED <<boundary, system, mode>>
  /\ \/ Fails /\ loc' = Set("ok", FALSE) /\ at' = "handles"
     \/ Fine /\ Active = {} /\ loc.waited /\ loc' = Set("zero", TRUE) /\ at' = "handles"
     \/ /\ Fine /\ ~(Active = {} /\ loc.waited)
        /\ at' = (IF loc.wfail THEN "handles" ELSE "wait") /\ UNCHANGED loc

\* Terminated processes die in time, apart from MaxFaults; the others need not.
Awaited == (IF NothingToWaitFor THEN {} ELSE {"root"}) \union (IF handle /\ assigned THEN inJob ELSE {})
Stuck   == (Awaited \intersect alive) \ dying # {}
TimeUp == /\ at \in {"wait", "query"}
          /\ (Stuck /\ Fine) \/ (~Stuck /\ Fails)
          /\ loc' = Set("timed", TRUE) /\ at' = "handles"
          /\ UNCHANGED <<boundary, system, mode>>

ProcessReady == loc.pterm /\ loc.waited
JobReady     == loc.jterm /\ loc.zero

\* Mutant: a failure is not recorded.
StateAfter_closed(ok) == "closed"
\* The state after a cleanup.  The emergency budget and an invalid timeout do
\* not count as a timeout here; an expired deadline does.
StateAfter(ok) == IF ok /\ (mode = "deadline" => ~loc.timed) THEN "closed" ELSE "broken"

\* _close_handles: a borrowed handle is only let go of.  The last handle of the
\* job takes what is in it along (kill on close).
CloseHandles ==
  /\ at = "handles"
  /\ \E p, j \in BOOLEAN :   \* CloseHandle succeeds for the process, for the job
       LET closeP == process = "own" /\ ProcessReady
           closeJ == handle /\ JobReady
           ok     == loc.ok /\ ProcessReady /\ JobReady /\ p /\ j
       IN /\ ~closeP => p
          /\ ~closeJ => j
          /\ (p /\ j /\ Fine) \/ (~(p /\ j) /\ Fails)
          /\ handle' = (handle /\ ~(closeJ /\ j))
          /\ process' = IF (closeP /\ p) \/ (Borrowed /\ ProcessReady /\ JobReady /\ ~handle')
                        THEN "none" ELSE process
          /\ dying' = IF closeJ /\ j THEN dying \union Active ELSE dying
          /\ state' = StateAfter(ok)
  /\ IF mode = "construct" THEN at' = "lost" /\ UNCHANGED <<mode, loc>> ELSE Idle
  /\ UNCHANGED <<assigned, alive, inJob, going>>

-----------------------------------------------------------------------------
(* The processes, and the death of the owner. *)

\* The child may exit at any time; the others once they are told to or terminated.
Exit(p) == /\ p \in alive
           /\ alive' = alive \ {p} /\ dying' = dying \ {p}
           /\ UNCHANGED <<boundary, inJob, going, at, mode, loc, jobFaults>>

\* Descendants are members of the job of the process that starts them.
Spawn(k) == /\ going /\ "root" \in alive \ dying /\ k \in Kids \ (alive \union inJob)
            /\ alive' = alive \union {k}
            /\ inJob' = IF "root" \in inJob THEN inJob \union {k} ELSE inJob
            /\ UNCHANGED <<boundary, dying, going, at, mode, loc, jobFaults>>

OwnerKilled == /\ at # "dead" /\ at' = "dead" /\ handle' = FALSE /\ process' = "none"
               /\ dying' = IF handle THEN dying \union Active ELSE dying
               /\ UNCHANGED <<state, assigned, alive, inJob, going, mode, loc, jobFaults>>

Cleanup == Terminate \/ WaitProcess \/ NothingLeft \/ QueryActive \/ CloseHandles

JobNext ==
  \/ Construct \/ \E m \in {"assign", "borrow"} : Assign(m)
  \/ VerifyAssignment \/ AuthorizeChild \/ Go
  \/ \E m \in {"close", "deadline"} : Close(m)
  \/ Cleanup \/ TimeUp
  \/ \E p \in Procs : Exit(p)
  \/ \E k \in Kids : Spawn(k)
  \/ OwnerKilled

\* A call that has begun goes on, time passes, a terminated process dies, and
\* a boundary that is broken is closed again with a deadline.
Retry == state = "broken" /\ Close("deadline")
Dies(p) == p \in dying /\ Exit(p)
Fairness == /\ WF_jobVars(Cleanup \/ VerifyAssignment) /\ WF_jobVars(Stuck /\ TimeUp) /\ WF_jobVars(Retry)
            /\ \A p \in Procs : WF_jobVars(Dies(p))

JobSpec     == JobInit /\ [][JobNext]_jobVars
JobFairSpec == JobSpec /\ Fairness

-----------------------------------------------------------------------------
(* Properties. *)

\* What does work is in the job: nothing the child starts can escape it.
Contained == \A p \in alive : going \/ p # "root" => p \in inJob

\* The job handle, the only means to terminate the tree, is closed after the
\* last process of it, unless the owner is killed.
HandleOutlivesTree == [][handle /\ ~handle' /\ at' # "dead" => Active = {}]_jobVars

\* No tree and no handle is left for ever: not when the owner is killed, not
\* behind a boundary whose cleanup failed and is tried again, and not behind one
\* that says it is closed.
TreeEnds ==
  at = "dead" \/ (at = "idle" /\ state \in {"broken", "closed"})
    ~> Active = {} /\ ~handle /\ process = "none"

-----------------------------------------------------------------------------
(* The inductive invariant behind Contained and HandleOutlivesTree.         *)

\* Whoever works, or may be told to, has been put into the job, and only then
\* has the child started others.
Enclosed ==
  /\ assigned \/ at = "verify" \/ state \in {"assigned", "authorized"} \/ going => "root" \in inJob
  /\ \A p \in alive : p # "root" => p \in inJob
  /\ ~assigned => inJob = {}

\* When the cleanup counts an open job as empty, it is empty, and nobody is
\* left in it who could start another process.
CountedEmpty ==
  /\ loc \in Locals
  /\ at \in {"idle", "verify", "terminate"} => loc = NoLocals
  /\ handle /\ loc.zero => Active = {}

JobInv == Enclosed /\ CountedEmpty

=============================================================================
