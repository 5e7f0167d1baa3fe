----------------------------- MODULE CodexHelper -----------------------------
(***************************************************************************)
(* A Codex request runs in a helper process.  CodexHelperExecutor          *)
(* (codex_helper.py) gives every request a _CodexSupervisor                *)
(* (codex_supervisor.py) of its own, which creates two pipes, the helper   *)
(* and a job, and lets the helper start only when it is in the job.        *)
(* Whatever fails is rolled back; what cannot be rolled back, or closed    *)
(* after the request, stays with the supervisor, and the executor keeps    *)
(* the supervisor as _pending_supervisor, to be closed before the next     *)
(* request.                                                                *)
(*                                                                         *)
(* Several threads call run_with_deadline of one executor.  Each call has  *)
(* an endpoint: its time is "usable", then "reserve" (the last quarter,    *)
(* withheld for the cleanup), then "over".                                 *)
(***************************************************************************)
EXTENDS Naturals, FiniteSets

CONSTANTS
  Caller,        \* threads that call run_with_deadline
  MaxRequests,   \* requests that get a supervisor
  MaxFaults      \* failing system calls

ASSUME HelperAssumption == IsFiniteSet(Caller) /\ MaxRequests \in Nat /\ MaxFaults \in Nat

Sup == 1 .. MaxRequests
NoSup == 0

VARIABLES
  owner,         \* the process of the executor: "running" or "dead"
  pending,       \* _pending_supervisor
  active,        \* _active
  retrying,      \* _retrying
  run,           \* run[c]: what thread c is doing
  sup,           \* sup[s]: supervisor s, its resources and its helper
  used,          \* supervisors made so far
  faults

vars == <<owner, pending, active, retrying, run, sup, used, faults>>
executor == <<pending, active, retrying>>

-----------------------------------------------------------------------------
(* The ends of the gate (read by the helper) and of the data pipe (written *)
(* by it), and what a transaction can hold.                                *)
Ends == {"gate.read", "gate.write", "data.read", "data.write"}
EndsOf(pair) == IF pair = "gate" THEN {"gate.read", "gate.write"} ELSE {"data.read", "data.write"}
Entry == {"gate", "data", "inheritable", "process", "handle", "job", "helper"}

(* The order in which a transaction acquires them.                         *)
Turn == [gate |-> 1, data |-> 2, inheritable |-> 3, process |-> 4, handle |-> 5, job |-> 6, helper |-> 7]
Latest(entries) == {e \in entries : \A other \in entries : Turn[other] <= Turn[e]}

Fresh ==
  [state |-> "open",       \* _SupervisorState; "prepared" is left within acquire
   pending |-> FALSE,      \* _pending holds the transaction below
   entries |-> {},         \* what is owned
   kept |-> {},            \* what this rollback or close could not close
   terminal |-> FALSE,     \* _terminal_error
   end |-> [e \in Ends |-> "none"],
   inheritable |-> FALSE,  \* the child's ends are inheritable
   process |-> "none",     \* the Popen object and its handle
   job |-> "none",
   told |-> "nothing",     \* written to the gate
   said |-> "nothing",     \* written to the data pipe
   child |-> "none"]

Rest ==
  [pc |-> "idle", time |-> "usable", sup |-> NoSup, retry |-> FALSE, mode |-> "none", result |-> "none"]

Init ==
  /\ owner = "running"
  /\ pending = NoSup /\ active = FALSE /\ retrying = FALSE
  /\ run = [c \in Caller |-> Rest]
  /\ sup = [s \in Sup |-> Fresh]
  /\ used = 0
  /\ faults = 0

-----------------------------------------------------------------------------
At(c, pc) == owner = "running" /\ run[c].pc = pc
My(c) == sup[run[c].sup]
Goto(c, pc) == run' = [run EXCEPT ![c].pc = pc]

(* The call returns, with run[c].result or as a refusal; nothing of it     *)
(* stays in the executor.                                                  *)
Return(c) == run' = [run EXCEPT ![c] = Rest]

Set(c, supervisor) == sup' = [sup EXCEPT ![run[c].sup] = supervisor]

Fine == UNCHANGED faults
Fault == faults < MaxFaults /\ faults' = faults + 1

Own(s, entry) == [s EXCEPT !.entries = @ \cup {entry}]
Without(s, entry) == [s EXCEPT !.entries = @ \ {entry}]
OpenEnds(s, ends) == {e \in ends : s.end[e] = "open"}
Close(s, ends) == [s EXCEPT !.end = [e \in Ends |-> IF e \in ends THEN "closed" ELSE @[e]]]

(* os.close has raised: whether the end is closed is not known, so it is   *)
(* never closed again.                                                     *)
Lose(s, ends) == [s EXCEPT !.end = [e \in Ends |-> IF e \in ends THEN "terminal" ELSE @[e]]]
Terminal(s) == \E e \in Ends : s.end[e] = "terminal"

Alive(s) == s.child \notin {"none", "dead"}
Reap(s) == [s EXCEPT !.child = "dead", !.process = "closed"]

-----------------------------------------------------------------------------
(* The executor around a request.                                          *)

(* Calls that may still make a supervisor: with used, they are bounded.    *)
Coming == Cardinality({c \in Caller : run[c].pc \in {"check", "claim"} \/ run[c].retry})

(* run_with_deadline begins with _retry_cleanup_with_deadline.             *)
Request(c) ==
  /\ At(c, "idle") /\ used + Coming < MaxRequests
  /\ \/ pending = NoSup /\ run' = [run EXCEPT ![c] = [Rest EXCEPT !.pc = "check"]] /\ UNCHANGED retrying
     \/ /\ pending # NoSup /\ (active \/ retrying)
        /\ Return(c) /\ UNCHANGED retrying
     \/ /\ pending # NoSup /\ ~active /\ ~retrying
        /\ retrying' = TRUE
        /\ run' = [run EXCEPT ![c] = [Rest EXCEPT !.pc = "close", !.sup = pending, !.retry = TRUE]]
  /\ UNCHANGED <<owner, pending, active, sup, used, faults>>

Check(c) ==
  /\ At(c, "check")
  /\ IF run[c].time = "usable" THEN Goto(c, "claim") ELSE Return(c)
  /\ UNCHANGED <<owner, executor, sup, used, faults>>

\* Mutant: the state is not looked at again under the lock.
Claim_unchecked(c) ==
  /\ At(c, "claim")
  /\ active' = TRUE /\ used' = used + 1
  /\ run' = [run EXCEPT ![c].pc = "acquire", ![c].sup = used + 1]
  /\ UNCHANGED <<owner, pending, retrying, sup, faults>>

(* Under _lifecycle: nobody else may have started or failed meanwhile.     *)
Claim(c) ==
  /\ At(c, "claim")
  /\ \/ /\ pending # NoSup \/ active \/ retrying
        /\ Return(c) /\ UNCHANGED <<active, used>>
     \/ /\ pending = NoSup /\ ~active /\ ~retrying
        /\ active' = TRUE /\ used' = used + 1
        /\ run' = [run EXCEPT ![c].pc = "acquire", ![c].sup = used + 1]
  /\ UNCHANGED <<owner, pending, retrying, sup, faults>>

-----------------------------------------------------------------------------
(* _acquire_locked: every step that succeeds adds what it made to the      *)
(* transaction; a step that fails starts the rollback.                     *)

Proceed(c, pc, supervisor) == Fine /\ Set(c, supervisor) /\ Goto(c, pc)
Abort(c, supervisor) ==
  /\ Set(c, supervisor)
  /\ run' = [run EXCEPT ![c].pc = "rollback", ![c].mode = "abort", ![c].result = "provider_error"]

Acquire(c) ==
  /\ At(c, "acquire")
  /\ IF run[c].time = "usable"
       THEN Goto(c, "pipes")
       ELSE run' = [run EXCEPT ![c].pc = "close", ![c].result = "timeout"]
  /\ UNCHANGED <<owner, executor, sup, used, faults>>

Opened(s, pair) == [s EXCEPT !.end = [e \in Ends |-> IF e \in EndsOf(pair) THEN "open" ELSE @[e]]]

(* _pipes closes the gate itself when the data pipe cannot be made.        *)
Pipes(c) ==
  LET gate == Opened(My(c), "gate") IN
  /\ At(c, "pipes")
  /\ \/ Proceed(c, "inherit", Own(Own(Opened(gate, "data"), "gate"), "data"))
     \/ Fault /\ Abort(c, My(c))
     \/ Fault /\ Abort(c, Close(gate, EndsOf("gate")))
     \/ /\ faults + 2 <= MaxFaults /\ faults' = faults + 2
        /\ \E lost \in SUBSET EndsOf("gate") \ {{}} :
             Abort(c, Own(Lose(Close(gate, EndsOf("gate")), lost), "gate"))
  /\ UNCHANGED <<owner, executor, used>>

(* The child's two ends are made inheritable, for this child only.         *)
Inherit(c) ==
  LET s == Own(My(c), "inheritable") IN
  /\ At(c, "inherit")
  /\ \/ Proceed(c, "spawn", [s EXCEPT !.inheritable = TRUE])
     \/ Fault /\ Abort(c, My(c))
     \/ Fault /\ \E some \in BOOLEAN : Abort(c, [s EXCEPT !.inheritable = some])
  /\ UNCHANGED <<owner, executor, used>>

Spawn(c) ==
  /\ At(c, "spawn")
  /\ \/ Proceed(c, "reset", Own([My(c) EXCEPT !.process = "open", !.child = "gated"], "process"))
     \/ Fault /\ Abort(c, My(c))
  /\ UNCHANGED <<owner, executor, used>>

Reset(c) ==
  /\ At(c, "reset")
  /\ \/ Proceed(c, "child_ends", Without([My(c) EXCEPT !.inheritable = FALSE], "inheritable"))
     \/ Fault /\ Abort(c, My(c))
  /\ UNCHANGED <<owner, executor, used>>

(* The parent closes its copies of the child's ends, then takes the handle.*)
ChildEnds(c) ==
  /\ At(c, "child_ends")
  /\ \/ Proceed(c, "job", Close(My(c), {"gate.read", "data.write"}))
     \/ Fault /\ Abort(c, Lose(My(c), {"gate.read"}))
     \/ Fault /\ Abort(c, Lose(Close(My(c), {"gate.read"}), {"data.write"}))
     \/ Fault /\ Abort(c, Close(My(c), {"gate.read", "data.write"}))
  /\ UNCHANGED <<owner, executor, used>>

(* _acquire_job_owner: a handle that could be neither set up nor closed is *)
(* handed over with the error.                                             *)
CreateJob(c) ==
  /\ At(c, "job")
  /\ \/ Proceed(c, "attach", Own([My(c) EXCEPT !.job = "open"], "job"))
     \/ Fault /\ Abort(c, My(c))
     \/ /\ faults + 2 <= MaxFaults /\ faults' = faults + 2
        /\ Abort(c, Own([My(c) EXCEPT !.job = "open"], "handle"))
  /\ UNCHANGED <<owner, executor, used>>

Attached(s) ==
  Own(Without(Without([s EXCEPT !.job = "assigned"], "process"), "job"), "helper")

\* Mutant: the helper is let go although it is not in the job.
Attach_unassigned(c) ==
  /\ At(c, "attach")
  /\ \/ Proceed(c, "gate", Attached(My(c)))
     \/ Fault /\ Goto(c, "gate") /\ Set(c, [Attached(My(c)) EXCEPT !.job = "open"])
  /\ UNCHANGED <<owner, executor, used>>

(* A failed assignment closes the job if it can (WindowsJob).              *)
Attach(c) ==
  /\ At(c, "attach")
  /\ \/ Proceed(c, "gate", Attached(My(c)))
     \/ Fault /\ \E left \in {"open", "closed"} : Abort(c, [My(c) EXCEPT !.job = left])
  /\ UNCHANGED <<owner, executor, used>>

-----------------------------------------------------------------------------
(* acquire_with_deadline: open the gate, await READY, commit.              *)

AbortPrepared(c) ==
  /\ run' = [run EXCEPT ![c].pc = "rollback", ![c].mode = "abort_prepared", ![c].result = "provider_error"]
  /\ UNCHANGED sup

(* A pipe whose reader is gone cannot be written.                          *)
Write(c, frame, next) == Alive(My(c)) /\ Proceed(c, next, [My(c) EXCEPT !.told = frame])

OpenGate(c) ==
  /\ At(c, "gate")
  /\ \/ Write(c, "go", "ready")
     \/ ~Alive(My(c)) /\ Fine /\ AbortPrepared(c)
     \/ Fault /\ AbortPrepared(c)
  /\ UNCHANGED <<owner, executor, used>>

(* read_frame_with_deadline waits as long as there is nothing, the helper  *)
(* has the pipe open and the endpoint is ahead: through the reserve, too.  *)
Silent(c) == My(c).said = "nothing"
NothingCame(c) == Silent(c) /\ (run[c].time = "over" \/ ~Alive(My(c)))

AwaitReady(c) ==
  /\ At(c, "ready")
  /\ \/ My(c).said = "ready" /\ Proceed(c, "request", [My(c) EXCEPT !.state = "acquired", !.said = "nothing"])
     \/ My(c).said = "garbage" /\ Fine /\ AbortPrepared(c)
     \/ NothingCame(c) /\ Fine /\ AbortPrepared(c)
     \/ Fault /\ AbortPrepared(c)
  /\ UNCHANGED <<owner, executor, used>>

Fail(c, result) == run' = [run EXCEPT ![c].pc = "close", ![c].result = result] /\ UNCHANGED sup

SendRequest(c) ==
  /\ At(c, "request")
  /\ \/ Write(c, "request", "response")
     \/ ~Alive(My(c)) /\ Fine /\ Fail(c, "provider_error")
     \/ Fault /\ Fail(c, "provider_error")
  /\ UNCHANGED <<owner, executor, used>>

\* Mutant: the answer is waited for without a deadline.
AwaitResponse_no_deadline(c) ==
  /\ At(c, "response")
  /\ \/ My(c).said \in {"view", "error"} /\ Fine /\ Fail(c, My(c).said)
     \/ My(c).said = "garbage" /\ Fine /\ Fail(c, "internal_error")
     \/ Silent(c) /\ ~Alive(My(c)) /\ Fine /\ Fail(c, "provider_error")
     \/ Fault /\ Fail(c, "provider_error")
  /\ UNCHANGED <<owner, executor, used>>

(* The helper's own error views and malformed answers are not "decoded".   *)
AwaitResponse(c) ==
  /\ At(c, "response")
  /\ \/ My(c).said \in {"view", "error"} /\ Fine /\ Fail(c, My(c).said)
     \/ My(c).said = "garbage" /\ Fine /\ Fail(c, "internal_error")
     \/ Silent(c) /\ run[c].time = "over" /\ Fine /\ Fail(c, "timeout")
     \/ Silent(c) /\ ~Alive(My(c)) /\ Fine /\ Fail(c, "provider_error")
     \/ Fault /\ Fail(c, "provider_error")
  /\ UNCHANGED <<owner, executor, used>>

-----------------------------------------------------------------------------
(* Rolling back and closing: one entry after the other, the last one first,*)
(* each of them tried, what fails kept.  A rollback uses the budgets of    *)
(* the owners, the final close the endpoint of the call.                   *)

Kept(s, entry) == [Without(s, entry) EXCEPT !.kept = @ \cup {entry}]

Released(s, entry) ==
  CASE entry \in {"gate", "data"} -> Close(s, OpenEnds(s, EndsOf(entry)))
    [] entry = "inheritable" -> [s EXCEPT !.inheritable = FALSE]
    [] entry = "process" -> Reap(s)
    [] entry \in {"handle", "job"} -> [s EXCEPT !.job = "closed"]
    [] entry = "helper" -> Reap([s EXCEPT !.job = "closed"])

(* What a failure can leave behind.  The helper's owner closes the job,    *)
(* which takes the helper with it, before it closes the process; a pair of *)
(* which every end is closed or lost, and a closed job, cannot fail again. *)
Stuck(s, entry) ==
  CASE entry \in {"gate", "data"} ->
         LET open == OpenEnds(s, EndsOf(entry))
         IN  {Lose(Close(s, open), lost) : lost \in SUBSET open \ {{}}}
    [] entry = "inheritable" -> {s}
    [] entry = "process" -> {s, [s EXCEPT !.child = "dead"]}
    [] entry \in {"handle", "job"} -> IF s.job = "closed" THEN {} ELSE {s}
    [] entry = "helper" ->
         {s, [s EXCEPT !.child = "dead"], [s EXCEPT !.child = "dead", !.job = "closed"]}

\* Mutant: the loop ends at the first failure and forgets the rest.
CloseEntry_gives_up(c) ==
  /\ At(c, "rollback")
  /\ \E entry \in Latest(My(c).entries) :
       \/ Fine /\ Set(c, Released(Without(My(c), entry), entry))
       \/ Fault /\ \E left \in Stuck([Kept(My(c), entry) EXCEPT !.entries = {}], entry) : Set(c, left)
  /\ UNCHANGED <<owner, executor, run, used>>

CloseEntry(c) ==
  /\ At(c, "rollback")
  /\ \E entry \in Latest(My(c).entries) :
       LET late == run[c].mode = "final" /\ entry = "helper" /\ run[c].time = "over"
       IN  \/ ~late /\ Fine /\ Set(c, Released(Without(My(c), entry), entry))
           \/ /\ (late /\ Fine) \/ Fault
              /\ \E left \in Stuck(Kept(My(c), entry), entry) : Set(c, left)
  /\ UNCHANGED <<owner, executor, run, used>>

(* What is kept is what is owned from now on.                              *)
Retained(s) == [s EXCEPT !.entries = s.kept, !.kept = {}]
Broken(s) == [Retained(s) EXCEPT !.state = "broken"]

(* _abort and _abort_prepared; only the latter remembers a lost end.       *)
Aborted(c) ==
  /\ At(c, "rollback") /\ run[c].mode \in {"abort", "abort_prepared"} /\ My(c).entries = {}
  /\ IF My(c).kept = {}
       THEN UNCHANGED sup
       ELSE Set(c, [Broken(My(c)) EXCEPT !.pending = TRUE,
                      !.terminal = run[c].mode = "abort_prepared" /\ Terminal(My(c))])
  /\ Goto(c, "close")
  /\ UNCHANGED <<owner, executor, used, faults>>

(* close_with_deadline: nothing at all when the endpoint has passed; first *)
(* the pending rollback, then what a request has used.                     *)
CloseSupervisor(c) ==
  /\ At(c, "close")
  /\ \/ run[c].time = "over" /\ Goto(c, "not_closed")
     \/ /\ run[c].time # "over" /\ My(c).pending
        /\ run' = [run EXCEPT ![c].pc = "rollback", ![c].mode = "pending"]
     \/ run[c].time # "over" /\ My(c).state = "closed" /\ Goto(c, "closed")
     \/ /\ run[c].time # "over" /\ ~My(c).pending /\ My(c).state # "closed"
        /\ run' = [run EXCEPT ![c].pc = "rollback", ![c].mode = "final"]
  /\ UNCHANGED <<owner, executor, sup, used, faults>>

PendingRolledBack(c) ==
  /\ At(c, "rollback") /\ run[c].mode = "pending" /\ My(c).entries = {}
  /\ IF My(c).kept = {}
       THEN /\ Set(c, [My(c) EXCEPT !.pending = FALSE])
            /\ run' = [run EXCEPT ![c].mode = "final"]
       ELSE Set(c, Retained(My(c))) /\ Goto(c, "not_closed")
  /\ UNCHANGED <<owner, executor, used, faults>>

(* An end that was lost in the final close, or in a rollback after the     *)
(* gate was opened, keeps the supervisor broken for good.                  *)
Closed(c) ==
  LET s == My(c)
      terminal == s.terminal \/ s.kept \cap {"gate", "data"} # {}
  IN
  /\ At(c, "rollback") /\ run[c].mode = "final" /\ s.entries = {}
  /\ IF s.kept = {} /\ ~terminal
       THEN Set(c, [s EXCEPT !.state = "closed"]) /\ Goto(c, "closed")
       ELSE Set(c, [Broken(s) EXCEPT !.terminal = terminal]) /\ Goto(c, "not_closed")
  /\ UNCHANGED <<owner, executor, used, faults>>

-----------------------------------------------------------------------------
(* The executor after the supervisor's close.                              *)

RetryDone(c) ==
  /\ At(c, "closed") /\ run[c].retry
  /\ retrying' = FALSE /\ UNCHANGED active
  /\ IF pending = run[c].sup
       THEN pending' = NoSup /\ run' = [run EXCEPT ![c].pc = "check", ![c].sup = NoSup, ![c].retry = FALSE]
       ELSE Return(c) /\ UNCHANGED pending
  /\ UNCHANGED <<owner, sup, used, faults>>

NotReleased(c) ==
  /\ At(c, "not_closed") /\ run[c].retry
  /\ retrying' = FALSE /\ Return(c)
  /\ UNCHANGED <<owner, pending, active, sup, used, faults>>

(* A usable view is returned all the same, anything else is replaced.      *)
Keep(c) ==
  /\ At(c, "not_closed") /\ ~run[c].retry
  /\ pending' = run[c].sup
  /\ run' = [run EXCEPT ![c].pc = "end", ![c].result = IF @ = "view" THEN @ ELSE "internal_error"]
  /\ UNCHANGED <<owner, active, retrying, sup, used, faults>>

EndRequest(c) ==
  /\ run[c].pc = "end" \/ (run[c].pc = "closed" /\ ~run[c].retry)
  /\ owner = "running"
  /\ active' = FALSE /\ Return(c)
  /\ UNCHANGED <<owner, pending, retrying, sup, used, faults>>

-----------------------------------------------------------------------------
(* The helper (_child_main and its bootstrap), time, and the owner's death.*)

GateEof(s) == owner = "dead" \/ sup[s].end["gate.write"] = "closed"
ChildIs(s, child, said) == sup' = [sup EXCEPT ![s].child = child, ![s].said = said]

PassGate(s) ==
  /\ sup[s].child = "gated" /\ sup[s].told = "go"
  /\ \E frame \in {"ready", "garbage"} : ChildIs(s, "waiting", frame)
  /\ UNCHANGED <<owner, executor, run, used, faults>>

TakeRequest(s) ==
  /\ sup[s].child = "waiting" /\ sup[s].told = "request"
  /\ ChildIs(s, "working", sup[s].said)
  /\ UNCHANGED <<owner, executor, run, used, faults>>

Answer(s) ==
  /\ sup[s].child = "working"
  /\ \E frame \in {"view", "error", "garbage"} : ChildIs(s, "done", frame)
  /\ UNCHANGED <<owner, executor, run, used, faults>>

(* The other end of the gate is gone: with it, the reason to wait.         *)
HearEof(s) ==
  /\ <<sup[s].child, sup[s].told>> \in {<<"gated", "nothing">>, <<"waiting", "go">>} /\ GateEof(s)
  /\ ChildIs(s, "dead", sup[s].said)
  /\ UNCHANGED <<owner, executor, run, used, faults>>

(* It exits when it has answered, and it may crash or be killed before.    *)
ChildDies(s) ==
  /\ Alive(sup[s]) /\ ChildIs(s, "dead", sup[s].said)
  /\ UNCHANGED <<owner, executor, run, used, faults>>

Tick(c) ==
  /\ owner = "running" /\ run[c].pc # "idle" /\ run[c].time # "over"
  /\ run' = [run EXCEPT ![c].time = IF @ = "usable" THEN "reserve" ELSE "over"]
  /\ UNCHANGED <<owner, executor, sup, used, faults>>

(* What the owner knew and every handle of its own go with it; with the    *)
(* last handle of a job the job's members go, too.                         *)
Orphan(s) ==
  [Fresh EXCEPT !.child = IF s.job = "assigned" THEN "dead" ELSE s.child, !.told = s.told]

OwnerKilled ==
  /\ owner = "running" /\ owner' = "dead"
  /\ sup' = [s \in Sup |-> Orphan(sup[s])]
  /\ run' = [c \in Caller |-> Rest]
  /\ pending' = NoSup /\ active' = FALSE /\ retrying' = FALSE
  /\ UNCHANGED <<used, faults>>

Step(c) ==
  \/ Request(c) \/ Check(c) \/ Claim(c) \/ Acquire(c) \/ Pipes(c) \/ Inherit(c) \/ Spawn(c) \/ Reset(c)
  \/ ChildEnds(c) \/ CreateJob(c) \/ Attach(c) \/ OpenGate(c) \/ AwaitReady(c) \/ SendRequest(c)
  \/ AwaitResponse(c) \/ CloseEntry(c) \/ Aborted(c) \/ CloseSupervisor(c) \/ PendingRolledBack(c)
  \/ Closed(c) \/ RetryDone(c) \/ NotReleased(c) \/ Keep(c) \/ EndRequest(c)

Helper(s) == PassGate(s) \/ TakeRequest(s) \/ Answer(s) \/ HearEof(s) \/ ChildDies(s)

Over == (owner = "dead" \/ \A c \in Caller : run[c].pc = "idle") /\ UNCHANGED vars

Next == (\E c \in Caller : Step(c) \/ Tick(c)) \/ (\E s \in Sup : Helper(s)) \/ OwnerKilled \/ Over

Spec == Init /\ [][Next]_vars

(* Threads run and time passes; a helper whose read returns goes on.  That *)
(* it answers, or ever stops working, is not assumed.                      *)
Fairness ==
  /\ \A c \in Caller : WF_vars(run[c].pc # "idle" /\ Step(c)) /\ WF_vars(Tick(c))
  /\ \A s \in Sup : WF_vars(HearEof(s))

FairSpec == Spec /\ Fairness

-----------------------------------------------------------------------------
(* Properties.                                                             *)

(* A supervisor that nobody is working on and that is not the pending one  *)
(* has left nothing: no helper, no process or job handle, no open end and  *)
(* no inheritable handle, whatever failed and in whatever order.           *)
Forgotten(s) == s <= used /\ s # pending /\ \A c \in Caller : run[c].pc = "idle" \/ run[c].sup # s
NothingLost ==
  owner = "running" =>
    \A s \in Sup : Forgotten(s) =>
      /\ ~Alive(sup[s]) /\ sup[s].process # "open" /\ sup[s].job \notin {"open", "assigned"}
      /\ OpenEnds(sup[s], Ends) = {} /\ ~sup[s].inheritable

(* An executor has one helper at a time: no request starts while another   *)
(* one runs, while a cleanup is tried again, or while one is due.          *)
OneHelper == \A s, t \in Sup : Alive(sup[s]) /\ Alive(sup[t]) => s = t

(* A helper does not outlive its owner: before it is in the job it waits   *)
(* at the gate and sees it close, afterwards the job takes it along.       *)
HelperDiesWithOwner == \A s \in Sup : owner = "dead" ~> ~Alive(sup[s])

(* Every request ends, whatever the helper does or leaves undone.          *)
RequestEnds == \A c \in Caller : run[c].pc # "idle" ~> run[c].pc = "idle" \/ owner = "dead"

(***************************************************************************)
(* Why nothing is lost: what a supervisor has open is in its transaction   *)
(* (Accounted), one supervisor at a time is worked on, never while another *)
(* one is pending (OneWorker), and whoever lets go of a supervisor has it  *)
(* closed or pending (Surrendered).                                        *)
(***************************************************************************)
Supervisor ==
  [state : {"open", "acquired", "closed", "broken"}, pending : BOOLEAN, terminal : BOOLEAN,
   entries : SUBSET Entry, kept : SUBSET Entry,
   end : [Ends -> {"none", "open", "closed", "terminal"}], inheritable : BOOLEAN,
   process : {"none", "open", "closed"}, job : {"none", "open", "assigned", "closed"},
   told : {"nothing", "go", "request"},
   said : {"nothing", "ready", "view", "error", "garbage"},
   child : {"none", "gated", "waiting", "working", "done", "dead"}]

Acquiring == {"acquire", "pipes", "inherit", "spawn", "reset", "child_ends", "job", "attach"}
PCs == Acquiring \cup {"idle", "check", "claim", "gate", "ready", "request", "response",
                       "rollback", "close", "closed", "not_closed", "end"}
Thread ==
  [pc : PCs, time : {"usable", "reserve", "over"}, sup : {NoSup} \cup Sup, retry : BOOLEAN,
   mode : {"none", "abort", "abort_prepared", "pending", "final"},
   result : {"none", "view", "error", "provider_error", "internal_error", "timeout"}]

TypeOK ==
  /\ owner \in {"running", "dead"}
  /\ pending \in {NoSup} \cup Sup /\ active \in BOOLEAN /\ retrying \in BOOLEAN
  /\ run \in [Caller -> Thread]
  /\ sup \in [Sup -> Supervisor]
  /\ used \in Nat /\ faults \in Nat

Comers == {c \in Caller : run[c].pc \in {"check", "claim"} \/ run[c].retry}
Bounded == used + Cardinality(Comers) <= MaxRequests

(* Who works on a supervisor.                                              *)
Works(c) == run[c].pc \notin {"idle", "check", "claim"}

OneWorker ==
  /\ pending <= used
  /\ \A c, d \in Caller : Works(c) /\ Works(d) => c = d
  /\ \A c \in Caller :
       IF Works(c)
         THEN /\ run[c].sup \in 1 .. used
              /\ IF run[c].retry
                   THEN retrying /\ ~active /\ pending = run[c].sup
                   ELSE active /\ ~retrying /\ pending = IF run[c].pc = "end" THEN run[c].sup ELSE NoSup
         ELSE ~run[c].retry /\ run[c].sup = NoSup

Owned(s) == s.entries \cup s.kept

Held(s) ==
  /\ OpenEnds(s, EndsOf("gate")) # {} => "gate" \in Owned(s)
  /\ OpenEnds(s, EndsOf("data")) # {} => "data" \in Owned(s)
  /\ s.inheritable => "inheritable" \in Owned(s)
  /\ s.process = "open" => Owned(s) \cap {"process", "helper"} # {}
  /\ s.job \in {"open", "assigned"} => Owned(s) \cap {"handle", "job", "helper"} # {}
  /\ Alive(s) => s.process = "open"
  /\ s.state = "closed" => Owned(s) = {}

Accounted == owner = "running" => \A s \in Sup : Held(sup[s])

Surrendered ==
  /\ \A s \in Sup : s > used => sup[s].state = "open" /\ Owned(sup[s]) = {}
  /\ \A c \in Caller :
       /\ run[c].pc \in Acquiring => sup[run[c].sup].state = "open"
       /\ run[c].pc = "attach" => sup[run[c].sup].job = "open"
       /\ run[c].pc = "closed" => sup[run[c].sup].state = "closed"
  /\ owner = "running" => \A s \in Sup : Forgotten(s) => Owned(sup[s]) = {}

HInv == TypeOK /\ Bounded /\ OneWorker /\ Accounted /\ Surrendered /\ OneHelper

=============================================================================
