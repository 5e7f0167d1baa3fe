-------------------------- MODULE ProviderAttempt --------------------------
(***************************************************************************)
(* One refresh of the providers: ExecutionOrchestrator.run,                *)
(* RefreshAttempt.run and OpenCodeWorkerProcess.run_with_deadline          *)
(* (worker.py).  An attempt takes the guard, runs the Codex helper and the *)
(* OpenCode worker, closes whatever they opened and then gives the guard   *)
(* back.  What could not be closed stays with the attempt, the guard       *)
(* included, and the next run of the same orchestrator closes it before it *)
(* starts an attempt of its own.                                           *)
(*                                                                         *)
(* The worker is a process that waits at a gate until it has been put into *)
(* a job; it runs concurrently with its owner.  Other processes run        *)
(* attempts under the same guard, and a process can be killed at any time. *)
(***************************************************************************)
EXTENDS Naturals, FiniteSets

CONSTANTS
  Proc,       \* processes with an orchestrator each
  Attempt,    \* refresh attempts, which bound the number of runs
  Owner,      \* the process that may make each attempt
  NoAttempt,
  Enabled,    \* the sets of providers each process may have enabled
  MaxFaults   \* bound: calls that fail, and deaths that take too long

ASSUME AttemptAssumption ==
  /\ Owner \in [Attempt -> Proc]
  /\ NoAttempt \notin Attempt
  /\ Enabled \in [Proc -> SUBSET SUBSET {"codex", "opencode_go"}]
  /\ MaxFaults \in Nat

VARIABLES
  life,      \* "running", "ending" (mutex abandoned, handles still open) or "dead"
  pc,        \* where in run a process is
  phase,     \* what is being cleaned: the "previous" attempt or the "current" one
  wants,     \* the enabled providers that have not had their turn
  late,      \* usable_ns() <= 0 from now on
  doc,       \* the document_error of the last document: "none" for a result
  cur,       \* _attempt
  used,      \* attempts made so far
  owned,     \* the worker record: what it does not record as closed
  child,     \* the worker process: "none", "gated", "reading", "dying", "dead", or
             \* "answered": dead, with its result in the queue
  contained, \* the worker is in the job
  helper,    \* the Codex executor: "none", "running", "quiescent", "pending", "terminal"
  lease,     \* the guard lease: "none", "owned", "released" or "closed"
  mutex,     \* the attempt whose lease has the mutex
  faults

call    == <<pc, phase, wants, late, doc, cur, used>>
worker  == <<owned, child, contained>>
guard   == <<lease, mutex>>
vars    == <<life, call, worker, helper, guard, faults>>

Providers == {"codex", "opencode_go"}
\* The queue and the event are closed alike; "process" is the process object.
Resources == {"job", "queue_event", "process", "reap"}
Labels == {"idle", "acquire", "providers", "codex", "opencode", "spawn", "assign", "authorize",
           "join", "close", "recover", "reap", "finish", "finish_ipc",
           "clean_job", "clean_ipc", "clean_reap", "clean_helper", "verdict"}

Init ==
  /\ life = [p \in Proc |-> "running"]
  /\ pc = [p \in Proc |-> "idle"]
  /\ phase = [p \in Proc |-> "current"]
  /\ wants = [p \in Proc |-> {}]
  /\ late = [p \in Proc |-> FALSE]
  /\ doc = [p \in Proc |-> "none"]
  /\ cur = [p \in Proc |-> NoAttempt]
  /\ used = {}
  /\ owned = [a \in Attempt |-> {}]
  /\ child = [a \in Attempt |-> "none"]
  /\ contained = [a \in Attempt |-> FALSE]
  /\ helper = [a \in Attempt |-> "none"]
  /\ lease = [a \in Attempt |-> "none"]
  /\ mutex = NoAttempt
  /\ faults = 0

-----------------------------------------------------------------------------
At(p, label) == life[p] = "running" /\ pc[p] = label
Goto(p, label) == pc' = [pc EXCEPT ![p] = label]
Fine  == UNCHANGED faults
Fault == faults < MaxFaults /\ faults' = faults + 1
Set(f, x, v) == [f EXCEPT ![x] = v]

(* Out of run, with a document; its locals are gone.                       *)
Return(p, error) ==
  /\ doc' = Set(doc, p, error) /\ Goto(p, "idle")
  /\ phase' = Set(phase, p, "current") /\ wants' = Set(wants, p, {}) /\ late' = Set(late, p, FALSE)

ChildAlive(a) == child[a] \in {"gated", "reading", "dying"}

(* cleanup_complete: every record is closed and the helper is quiescent.   *)
Clean(a) == owned[a] = {} /\ helper[a] \in {"none", "quiescent"}

Finalized(a) == lease[a] \in {"none", "closed"}

-----------------------------------------------------------------------------
(* ExecutionOrchestrator.run.                                              *)

Begin(p, enabled) ==
  /\ \E a \in Attempt \ used :
       Owner[a] = p /\ cur' = Set(cur, p, a) /\ used' = used \cup {a}
  /\ IF enabled = {}
       THEN Return(p, "none")
       ELSE /\ wants' = Set(wants, p, enabled) /\ doc' = Set(doc, p, "none")
            /\ phase' = Set(phase, p, "current") /\ Goto(p, "acquire") /\ UNCHANGED late

\* Mutant: what the previous attempt left is not looked at.
Call_forget(p) ==
  /\ At(p, "idle") /\ \E a \in Attempt \ used : Owner[a] = p
  /\ \E enabled \in Enabled[p] : Begin(p, enabled)
  /\ UNCHANGED <<life, worker, helper, guard, faults>>

(* The previous attempt, if there was one, is cleaned first.               *)
Call(p) ==
  /\ At(p, "idle") /\ \E a \in Attempt \ used : Owner[a] = p
  /\ IF cur[p] = NoAttempt
       THEN \E enabled \in Enabled[p] : Begin(p, enabled)
       ELSE /\ phase' = Set(phase, p, "previous")
            /\ Goto(p, "clean_job") /\ UNCHANGED <<wants, late, doc, cur, used>>
  /\ UNCHANGED <<life, worker, helper, guard, faults>>

-----------------------------------------------------------------------------
(* RefreshAttempt.run: the guard.  A mutex is recursive.                   *)

MutexFree(p) ==
  mutex = NoAttempt \/ (mutex # NoAttempt /\ (life[Owner[mutex]] # "running" \/ Owner[mutex] = p))

Refuse(p, error) == doc' = Set(doc, p, error) /\ Goto(p, "clean_job") /\ UNCHANGED guard

Acquire(p) ==
  /\ At(p, "acquire")
  /\ \/ /\ MutexFree(p) /\ Fine
        /\ lease' = Set(lease, cur[p], "owned") /\ mutex' = cur[p]
        /\ Goto(p, "providers") /\ UNCHANGED doc
     \/ ~MutexFree(p) /\ Fine /\ Refuse(p, "guard_wait_timeout")
     \/ Fault /\ Refuse(p, "guard_acquisition_failed")
  /\ UNCHANGED <<life, phase, wants, late, cur, used, worker, helper>>

CheckDeadline(p) ==
  /\ At(p, "providers")
  /\ IF late[p]
       THEN doc' = Set(doc, p, "deadline_exhausted") /\ Goto(p, "clean_job") /\ UNCHANGED helper
       ELSE /\ helper' = (IF "codex" \in wants[p] THEN Set(helper, cur[p], "running") ELSE helper)
            /\ Goto(p, IF "codex" \in wants[p] THEN "codex" ELSE "opencode")
            /\ UNCHANGED doc
  /\ UNCHANGED <<life, phase, wants, late, cur, used, worker, guard, faults>>

(* The Codex executor returns a view, with its supervisor closed or kept   *)
(* for a retry, or raises.                                                 *)
Codex(p) ==
  /\ At(p, "codex")
  /\ \/ /\ Fine /\ helper' = Set(helper, cur[p], "quiescent")
        /\ Goto(p, "opencode") /\ UNCHANGED doc
     \/ /\ Fault /\ helper' \in {Set(helper, cur[p], s) : s \in {"pending", "terminal"}}
        /\ Goto(p, "opencode") /\ UNCHANGED doc
     \/ /\ Fault /\ helper' = Set(helper, cur[p], "quiescent")
        /\ doc' = Set(doc, p, "raised") /\ Goto(p, "clean_job")
  /\ wants' = Set(wants, p, wants[p] \ {"codex"})
  /\ UNCHANGED <<life, phase, late, cur, used, worker, guard>>

OpenCode(p) ==
  /\ At(p, "opencode")
  /\ doc' = (IF "opencode_go" \in wants[p] /\ late[p] THEN Set(doc, p, "deadline_exhausted") ELSE doc)
  /\ Goto(p, IF "opencode_go" \in wants[p] /\ ~late[p] THEN "spawn" ELSE "clean_job")
  /\ wants' = Set(wants, p, {})
  /\ UNCHANGED <<life, phase, late, cur, used, worker, helper, guard, faults>>

-----------------------------------------------------------------------------
(* run_with_deadline.                                                      *)

(* Queue, record, event, process, start.                                   *)
Spawn(p) ==
  LET a == cur[p] IN
  /\ At(p, "spawn")
  /\ \/ /\ Fine /\ owned' = Set(owned, a, Resources \ {"job"})
        /\ child' = Set(child, a, "gated") /\ Goto(p, "assign")
     \/ Fault /\ owned' = Set(owned, a, Resources \ {"job"}) /\ Goto(p, "recover") /\ UNCHANGED child
     \/ Fault /\ Goto(p, "clean_job") /\ UNCHANGED <<owned, child>>   \* no queue, no record
  /\ UNCHANGED <<life, phase, wants, late, doc, cur, used, contained, helper, guard>>

(* The job, and the worker put into it.                                    *)
\* Mutant: the worker is let through before it is in the job.
AssignProcess_late(p) ==
  LET a == cur[p] IN
  /\ At(p, "assign")
  /\ \/ /\ Fine /\ child[a] = "gated"
        /\ owned' = Set(owned, a, owned[a] \cup {"job"})
        /\ Goto(p, "authorize")
     \/ Fault /\ Goto(p, "recover") /\ UNCHANGED owned
  /\ UNCHANGED <<life, phase, wants, late, doc, cur, used, child, contained, helper, guard>>

AssignProcess(p) ==
  LET a == cur[p] IN
  /\ At(p, "assign")
  /\ \/ /\ Fine /\ child[a] = "gated"
        /\ owned' = Set(owned, a, owned[a] \cup {"job"}) /\ contained' = Set(contained, a, TRUE)
        /\ Goto(p, "authorize") /\ UNCHANGED child
     \/ /\ Fault /\ Goto(p, "recover") /\ UNCHANGED <<owned, child, contained>>   \* no job
     \/ /\ IF child[a] = "dead" THEN Fine ELSE Fault
        /\ owned' = Set(owned, a, owned[a] \cup {"job"})
        /\ child' \in {child, Set(child, a, "dead")}
        /\ contained' \in {contained, Set(contained, a, child[a] # "dead")}
        /\ Goto(p, "recover")
  /\ UNCHANGED <<life, phase, wants, late, doc, cur, used, helper, guard>>

(* The gate is opened if there is time left, else the worker is reaped.    *)
Authorize(p) ==
  LET a == cur[p] IN
  /\ At(p, "authorize")
  /\ child' = (IF ~late[p] /\ child[a] = "gated" THEN Set(child, a, "reading") ELSE child)
  /\ Goto(p, IF late[p] THEN "finish" ELSE "join")
  /\ UNCHANGED <<life, phase, wants, late, doc, cur, used, owned, contained, helper, guard, faults>>

\* Mutant: the join has no timeout.
Join_forever(p) ==
  LET a == cur[p] IN
  /\ At(p, "join") /\ ~ChildAlive(a)
  /\ owned' = Set(owned, a, owned[a] \ {"reap"})
  /\ Goto(p, IF child[a] = "answered" THEN "close" ELSE "recover")
  /\ UNCHANGED <<life, phase, wants, late, doc, cur, used, child, contained, helper, guard, faults>>

(* join, is_alive, get_nowait: an exit without a result is an error.       *)
Join(p) ==
  LET a == cur[p] IN
  /\ At(p, "join")
  /\ \/ /\ ~ChildAlive(a)
        /\ owned' = Set(owned, a, owned[a] \ {"reap"})
        /\ Goto(p, IF child[a] = "answered" THEN "close" ELSE "recover")
     \/ ChildAlive(a) /\ late[p] /\ Goto(p, "close") /\ UNCHANGED owned
  /\ UNCHANGED <<life, phase, wants, late, doc, cur, used, child, contained, helper, guard, faults>>

(* close_with_deadline: nothing in the job survives a job that is closed;  *)
(* one that fails has killed the worker or not.                            *)
JobClosed(a) ==
  /\ Fine
  /\ owned' = Set(owned, a, owned[a] \ {"job"})
  /\ child' = (IF contained[a] /\ ChildAlive(a) THEN Set(child, a, "dead") ELSE child)

JobNotClosed(a) ==
  /\ Fault /\ UNCHANGED owned
  /\ child' \in {child, IF ChildAlive(a) THEN Set(child, a, "dead") ELSE child}

CloseJob(p) ==
  LET a == cur[p] IN
  /\ At(p, "close")
  /\ \/ JobClosed(a) /\ Goto(p, "reap")
     \/ JobNotClosed(a) /\ Goto(p, "recover")
  /\ UNCHANGED <<life, phase, wants, late, doc, cur, used, contained, helper, guard>>

Recover(p) ==
  LET a == cur[p] IN
  /\ At(p, "recover") /\ Goto(p, "reap")
  /\ IF "job" \in owned[a] THEN JobClosed(a) \/ JobNotClosed(a) ELSE Fine /\ UNCHANGED <<owned, child>>
  /\ UNCHANGED <<life, phase, wants, late, doc, cur, used, contained, helper, guard>>

(* _reap_process: terminate, join, kill, join, and then close the process  *)
(* object if the process is seen dead.                                     *)
Reaped(a) ==
  \/ /\ \/ Fine /\ owned' = Set(owned, a, owned[a] \ {"reap", "process"})
        \/ Fault /\ owned' = Set(owned, a, owned[a] \ {"reap"})
     /\ child' = (IF ChildAlive(a) THEN Set(child, a, "dead") ELSE child)
  \/ /\ ChildAlive(a) /\ Fault /\ UNCHANGED owned
     /\ child' \in {child, Set(child, a, "dying")}

Reap(p) ==
  LET a == cur[p] IN
  /\ At(p, "reap") /\ Reaped(a) /\ Goto(p, "finish")
  /\ UNCHANGED <<life, phase, wants, late, doc, cur, used, contained, helper, guard>>

(* The finally clause: once more for a worker that is not reaped, then the *)
(* queue and the event, which may fail to close.                           *)
CloseIpc(a) ==
  \/ Fine /\ owned' = Set(owned, a, owned[a] \ {"queue_event"})
  \/ "queue_event" \in owned[a] /\ Fault /\ UNCHANGED owned

FinishReap(p) ==
  LET a == cur[p] IN
  /\ At(p, "finish") /\ "reap" \in owned[a] /\ Reaped(a) /\ Goto(p, "finish_ipc")
  /\ UNCHANGED <<life, phase, wants, late, doc, cur, used, contained, helper, guard>>

FinishIpc(p) ==
  LET a == cur[p] IN
  /\ \/ At(p, "finish_ipc")
     \/ At(p, "finish") /\ "reap" \notin owned[a]
  /\ CloseIpc(a) /\ Goto(p, "clean_job")
  /\ UNCHANGED <<life, phase, wants, late, doc, cur, used, child, contained, helper, guard>>

-----------------------------------------------------------------------------
(* _cleanup_resources, of the previous attempt or of the current one.      *)

CleanJob(p) ==
  LET a == cur[p] IN
  /\ At(p, "clean_job") /\ Goto(p, IF owned[a] = {} THEN "clean_helper" ELSE "clean_ipc")
  /\ IF "job" \in owned[a] THEN JobClosed(a) \/ JobNotClosed(a) ELSE Fine /\ UNCHANGED <<owned, child>>
  /\ UNCHANGED <<life, phase, wants, late, doc, cur, used, contained, helper, guard>>

CleanIpc(p) ==
  LET a == cur[p] IN
  /\ At(p, "clean_ipc") /\ CloseIpc(a) /\ Goto(p, "clean_reap")
  /\ UNCHANGED <<life, phase, wants, late, doc, cur, used, child, contained, helper, guard>>

CleanReap(p) ==
  LET a == cur[p] IN
  /\ At(p, "clean_reap") /\ Goto(p, "clean_helper")
  /\ IF owned[a] \cap {"reap", "process"} # {} THEN Reaped(a) ELSE Fine /\ UNCHANGED <<owned, child>>
  /\ UNCHANGED <<life, phase, wants, late, doc, cur, used, contained, helper, guard>>

(* A supervisor with a terminal error can never be closed.                 *)
CleanHelper(p) ==
  LET a == cur[p] IN
  /\ At(p, "clean_helper") /\ Goto(p, "verdict")
  /\ \/ helper[a] # "pending" /\ Fine /\ UNCHANGED helper
     \/ helper[a] = "pending" /\ Fine /\ helper' = Set(helper, a, "quiescent")
     \/ helper[a] = "pending" /\ Fault /\ helper' \in {helper, Set(helper, a, "terminal")}
  /\ UNCHANGED <<life, phase, wants, late, doc, cur, used, worker, guard>>

(* _release_provider_lease: release, then close, each remembered.          *)
Finalize(a) ==
  \/ /\ Fine /\ lease' = Set(lease, a, "closed")
     /\ mutex' = (IF lease[a] = "owned" THEN NoAttempt ELSE mutex)
  \/ /\ Fault /\ lease' = Set(lease, a, "released")
     /\ mutex' = (IF lease[a] = "owned" THEN NoAttempt ELSE mutex)
  \/ Fault /\ lease[a] = "owned" /\ UNCHANGED guard

\* Mutant: the guard is given back whether or not the cleanup is complete.
TryFinalize_always(a) == IF ~Finalized(a) THEN Finalize(a) ELSE Fine /\ UNCHANGED guard

TryFinalize(a) == IF Clean(a) /\ ~Finalized(a) THEN Finalize(a) ELSE Fine /\ UNCHANGED guard

Settled(a) == Clean(a) /\ lease'[a] \in {"none", "closed"}

(* An unexpected error is raised even if the cleanup failed.               *)
Outcome(p) ==
  IF doc[p] = "raised" \/ Settled(cur[p]) THEN doc[p] ELSE "cleanup_failed"

EndRun(p) ==
  /\ At(p, "verdict") /\ phase[p] = "current"
  /\ TryFinalize(cur[p])
  /\ Return(p, Outcome(p))
  /\ UNCHANGED <<life, cur, used, worker, helper>>

(* No attempt is made unless everything of the previous one is settled.    *)
NextAttempt(p) ==
  /\ At(p, "verdict") /\ phase[p] = "previous"
  /\ TryFinalize(cur[p])
  /\ \/ Settled(cur[p]) /\ \E enabled \in Enabled[p] : Begin(p, enabled)
     \/ ~Settled(cur[p]) /\ Return(p, "cleanup_failed") /\ UNCHANGED <<cur, used>>
  /\ UNCHANGED <<life, worker, helper>>

-----------------------------------------------------------------------------
(* The worker, and the rest of the world.                                  *)

WorkerPuts(a) ==
  /\ child[a] = "reading" /\ child' = Set(child, a, "answered")
  /\ UNCHANGED <<life, call, owned, contained, helper, guard, faults>>

WorkerCrashes(a) ==
  /\ child[a] \in {"gated", "reading"} /\ Fault /\ child' = Set(child, a, "dead")
  /\ UNCHANGED <<life, call, owned, contained, helper, guard>>

Dies(a) ==
  /\ child[a] = "dying" /\ child' = Set(child, a, "dead")
  /\ UNCHANGED <<life, call, owned, contained, helper, guard, faults>>

\* The labels after which the deadline is still asked for.
ReadsClock == {"providers", "codex", "opencode", "spawn", "assign", "authorize", "join"}

Exhaust(p) ==
  /\ life[p] = "running" /\ pc[p] \in ReadsClock /\ ~late[p] /\ late' = Set(late, p, TRUE)
  /\ UNCHANGED <<life, pc, phase, wants, doc, cur, used, worker, helper, guard, faults>>

(* A process that is killed abandons its mutexes first and loses its       *)
(* handles after that; what is in a job then dies with the job's handle.   *)
Killed(p) ==
  /\ life[p] = "running" /\ life' = Set(life, p, "ending")
  /\ UNCHANGED <<call, worker, helper, guard, faults>>

HandlesClosed(p) ==
  /\ life[p] = "ending" /\ life' = Set(life, p, "dead")
  /\ child' = [a \in Attempt |->
       IF Owner[a] = p /\ "job" \in owned[a] /\ contained[a] /\ ChildAlive(a) THEN "dead" ELSE child[a]]
  /\ owned' = [a \in Attempt |-> IF Owner[a] = p THEN {} ELSE owned[a]]
  /\ helper' = [a \in Attempt |-> IF Owner[a] = p THEN "none" ELSE helper[a]]
  /\ lease' = [a \in Attempt |-> IF Owner[a] = p THEN "closed" ELSE lease[a]]
  /\ cur' = Set(cur, p, NoAttempt) /\ Return(p, "none")
  /\ UNCHANGED <<used, contained, mutex, faults>>

Step(p) ==
  \/ Acquire(p) \/ CheckDeadline(p) \/ Codex(p) \/ OpenCode(p)
  \/ Spawn(p) \/ AssignProcess(p) \/ Authorize(p) \/ Join(p) \/ CloseJob(p) \/ Recover(p)
  \/ Reap(p) \/ FinishReap(p) \/ FinishIpc(p)
  \/ CleanJob(p) \/ CleanIpc(p) \/ CleanReap(p) \/ CleanHelper(p)
  \/ EndRun(p) \/ NextAttempt(p)

(* Nobody has to call again.                                               *)
Over == (\A p \in Proc : life[p] = "dead" \/ pc[p] = "idle") /\ UNCHANGED vars

Next ==
  \/ \E p \in Proc : Call(p) \/ Step(p) \/ Exhaust(p) \/ Killed(p) \/ HandlesClosed(p)
  \/ \E a \in Attempt : WorkerPuts(a) \/ WorkerCrashes(a) \/ Dies(a)
  \/ Over

Spec == Init /\ [][Next]_vars

(* A run goes on, its time passes, and handles of a dead process close;    *)
(* nothing is assumed of the worker or of other holders of the guard.      *)
Fairness ==
  \A p \in Proc : WF_vars(Step(p)) /\ WF_vars(Exhaust(p)) /\ WF_vars(HandlesClosed(p))

FairSpec == Spec /\ Fairness

-----------------------------------------------------------------------------

(* What an attempt of a running process has at work.                       *)
AtWork(a) ==
  life[Owner[a]] = "running" /\ (ChildAlive(a) \/ helper[a] \in {"running", "pending", "terminal"})

(* The guard serialises everything that runs under it, not only the code   *)
(* between acquire and release: while a worker or a helper of one running  *)
(* process has not been seen dead, no other attempt has one, be it because *)
(* of a timeout, of a failed cleanup or of an error; and whoever believes  *)
(* to own the guard does.                                                  *)
OneAtWork ==
  /\ \A a, b \in Attempt : AtWork(a) /\ AtWork(b) => a = b
  /\ \A a \in Attempt : lease[a] = "owned" /\ life[Owner[a]] = "running" => mutex = a

(* The worker goes through the gate only inside the job, so that it cannot *)
(* outlive its owner: a provider is never read by an orphan.               *)
ReadsContained ==
  \A a \in Attempt : child[a] = "reading" => contained[a] /\ life[Owner[a]] # "dead"

(* Between two runs, whatever is alive, open or locked belongs to the      *)
(* attempt the orchestrator remembers; and a document without              *)
(* cleanup_failed means that this one has left nothing either: only an     *)
(* error that is raised hides it.                                          *)
NothingForgotten ==
  \A p \in Proc : life[p] = "running" /\ pc[p] = "idle" =>
    \A a \in used : Owner[a] = p =>
      \/ a = cur[p] /\ doc[p] \in {"cleanup_failed", "raised"}
      \/ ~AtWork(a) /\ Clean(a) /\ owned[a] = {} /\ lease[a] \in {"none", "closed"}

(* A run ends, whatever the worker does and however long another process   *)
(* keeps the guard.                                                        *)
RunEnds == \A p \in Proc : pc[p] # "idle" ~> (pc[p] = "idle" \/ life[p] # "running")

-----------------------------------------------------------------------------
(* The inductive invariant behind the three.                               *)
Errors == {"none", "raised", "cleanup_failed", "guard_wait_timeout", "guard_acquisition_failed",
           "deadline_exhausted"}

Typed ==
  /\ life \in [Proc -> {"running", "ending", "dead"}]
  /\ pc \in [Proc -> Labels] /\ phase \in [Proc -> {"previous", "current"}]
  /\ wants \in [Proc -> SUBSET Providers] /\ late \in [Proc -> BOOLEAN]
  /\ doc \in [Proc -> Errors]
  /\ cur \in [Proc -> Attempt \cup {NoAttempt}] /\ used \subseteq Attempt
  /\ owned \in [Attempt -> SUBSET Resources]
  /\ child \in [Attempt -> {"none", "gated", "reading", "dying", "dead", "answered"}]
  /\ contained \in [Attempt -> BOOLEAN]
  /\ helper \in [Attempt -> {"none", "running", "quiescent", "pending", "terminal"}]
  /\ lease \in [Attempt -> {"none", "owned", "released", "closed"}]
  /\ mutex \in Attempt \cup {NoAttempt}

Blank(a) == owned[a] = {} /\ child[a] = "none"
Quiet(a) == ~ChildAlive(a) /\ Clean(a) /\ Finalized(a)

(* What is not quiet is remembered, and a worker that lives is on record.  *)
Remembered ==
  /\ \A p \in Proc :
       /\ cur[p] # NoAttempt => cur[p] \in used /\ Owner[cur[p]] = p
       /\ pc[p] # "idle" => cur[p] # NoAttempt
       /\ life[p] = "running" /\ pc[p] = "idle" /\ cur[p] # NoAttempt
            => doc[p] \in {"cleanup_failed", "raised"} \/ Quiet(cur[p])
  /\ \A a \in Attempt :
       /\ life[Owner[a]] = "running" /\ a # cur[Owner[a]] => Quiet(a)
       /\ a \notin used => Blank(a) /\ helper[a] = "none" /\ Finalized(a)
       /\ life[Owner[a]] # "dead" /\ ChildAlive(a) => "process" \in owned[a]

Underway == Labels \ {"idle", "acquire", "clean_job", "clean_ipc", "clean_reap", "clean_helper",
                      "verdict"}

(* Nothing is at work without the lease, nor is anything started.          *)
Guarded ==
  /\ \A a \in Attempt : life[Owner[a]] = "running" =>
       /\ AtWork(a) => lease[a] = "owned"
       /\ lease[a] = "owned" => mutex = a
  /\ \A p \in Proc : life[p] = "running" /\ pc[p] \in Underway => lease[cur[p]] = "owned"

(* The worker gets into the job before it gets through the gate, and the   *)
(* job is there as long as it reads.                                       *)
Gated ==
  /\ \A p \in Proc : life[p] = "running" =>
       /\ pc[p] \in {"acquire", "providers", "codex", "opencode", "spawn"} => Blank(cur[p])
       /\ pc[p] = "assign" => child[cur[p]] \in {"gated", "dead"}
       /\ pc[p] = "authorize" => contained[cur[p]] /\ "job" \in owned[cur[p]]
  /\ \A a \in Attempt : child[a] = "reading" =>
       contained[a] /\ "job" \in owned[a] /\ life[Owner[a]] # "dead"

IInv == Typed /\ Remembered /\ Guarded /\ Gated

=============================================================================
