--------------------------- MODULE BoundedFileCall ---------------------------
(***************************************************************************)
(* Bounded file access of src/yasb_limitora/path.py: every read of the     *)
(* configuration (read_config, _bounded_file_read) and every access to the *)
(* cache (_bounded_file_call) runs in a child process that is put into a   *)
(* Windows job, let go by an event, waited for until the deadline, and     *)
(* taken down.  What cannot be taken down stays on three module-level      *)
(* lists and is tried again before the next access.                        *)
(*                                                                         *)
(* One process makes the accesses 1, 2, ... one after the other.  Every    *)
(* access comes with a deadline of its own, which may be over already.     *)
(* The child runs beside its parent and may stay at its work for ever.     *)
(***************************************************************************)
EXTENDS Naturals, FiniteSets

CONSTANTS
  MaxCalls,    \* bound: accesses the process makes
  MaxFaults    \* bound: failed system calls, and children that will not die in time

ASSUME BoundsAssumption == MaxCalls \in Nat /\ MaxFaults \in Nat

Access == 1 .. MaxCalls
Kinds  == {"config", "call"}

VARIABLES
  nt,             \* os.name == "nt": children are put into jobs
  \* the parent
  pc,             \* where the parent is in the access, "idle" between two, "crashed"
  kind,           \* read_config, or _bounded_file_call
  round,          \* read_config looks at the pending owners twice
  cur,            \* number of the access, 0 before the first
  late,           \* usable_ns() <= 0 from now on
  failure,        \* the exception kept for after the cleanup
  cleanupFailed,  \* cleanup_failed
  answer,         \* what each access returned or raised
  \* what the parent holds
  started,        \* processes whose start() returned
  processes,      \* process objects that are not closed
  job,            \* job of each access: "none", "open", "assigned", "closed"
  jobTried,       \* job_close_attempted
  ends,           \* <<access, end>>: the ends of pipes and queues that are open
  pendProc,       \* _PENDING_PROCESS_OWNERS
  pendJob,        \* _PENDING_JOB_OWNERS
  pendIpc,        \* _PENDING_IPC_OWNERS
  \* the children
  child,          \* "none", "waiting", "working", "leaving", "exited"
  authorized,     \* accesses whose event is set
  reply,          \* what the child has put into the pipe or queue
  landed,         \* accesses whose function has taken effect
  \* bounds and history
  begun,          \* history: the last access that got past the pending owners
  faults

control == <<kind, round, cur>>
verdict == <<failure, cleanupFailed, answer>>
held    == <<started, processes, job, jobTried, ends>>
pending == <<pendProc, pendJob, pendIpc>>
work    == <<child, authorized, reply, landed>>
vars == <<nt, pc, kind, round, cur, late, failure, cleanupFailed, answer, started, processes,
          job, jobTried, ends, pendProc, pendJob, pendIpc, child, authorized, reply, landed,
          begun, faults>>

Alive(c) == child[c] \in {"waiting", "working", "leaving"}
OpenJob(c) == job[c] \in {"open", "assigned"}
Ends(k) == IF k = "config" THEN {"output"} ELSE {"receiver", "sender"}

Labels == {"idle", "process_owners", "job_owners", "ipc_owners", "path", "create", "start",
           "sender", "job", "assign", "authorize", "await", "get", "join", "success",
           "close_job", "close_process", "close_ends", "report", "crashed"}

TypeOK ==
  /\ nt \in BOOLEAN
  /\ pc \in Labels /\ kind \in Kinds /\ round \in {1, 2}
  /\ cur \in 0 .. MaxCalls /\ begun \in 0 .. MaxCalls
  /\ late \in BOOLEAN /\ cleanupFailed \in BOOLEAN /\ jobTried \in BOOLEAN
  /\ failure \in {"none", "file", "deadline"}
  /\ answer \in [Access -> {"none", "ok", "file", "deadline"}]
  /\ started \subseteq Access /\ processes \subseteq Access
  /\ job \in [Access -> {"none", "open", "assigned", "closed"}]
  /\ ends \subseteq Access \X {"output", "receiver", "sender"}
  /\ pendProc \subseteq Access /\ pendJob \subseteq Access
  /\ pendIpc \subseteq Access \X {"output", "receiver", "sender"}
  /\ child \in [Access -> {"none", "waiting", "working", "leaving", "exited"}]
  /\ authorized \subseteq Access /\ landed \subseteq Access
  /\ reply \in [Access -> {"none", "value", "error"}]

Init ==
  /\ nt \in BOOLEAN
  /\ pc = "idle" /\ kind = "call" /\ round = 1 /\ cur = 0
  /\ late = FALSE /\ failure = "none" /\ cleanupFailed = FALSE
  /\ answer = [c \in Access |-> "none"]
  /\ started = {} /\ processes = {} /\ ends = {}
  /\ job = [c \in Access |-> "none"] /\ jobTried = FALSE
  /\ pendProc = {} /\ pendJob = {} /\ pendIpc = {}
  /\ child = [c \in Access |-> "none"]
  /\ authorized = {} /\ landed = {} /\ reply = [c \in Access |-> "none"]
  /\ begun = 0 /\ faults = 0

-----------------------------------------------------------------------------
(* Failures, and the ways out of an access.                                *)
Costs(n) == faults + n <= MaxFaults /\ faults' = faults + n

(* The access ends here and now with an exception. *)
Refuse(why) ==
  /\ pc' = "idle"
  /\ answer' = [answer EXCEPT ![cur] = why]
  /\ UNCHANGED <<failure, cleanupFailed>>

(* An exception inside the try block: it is kept, and the cleanup begins.  *)
Raise(why) ==
  /\ pc' = "close_job"
  /\ failure' = why
  /\ UNCHANGED <<cleanupFailed, answer>>

Goto(label) == pc' = label /\ UNCHANGED verdict

(* An access is asked for: read_config and the bounded call look at the    *)
(* deadline first.                                                         *)
Call(k) ==
  /\ pc = "idle" /\ cur < MaxCalls
  /\ kind' = k
  /\ round' = IF k = "config" THEN 1 ELSE 2
  /\ cur' = cur + 1
  /\ late' \in BOOLEAN
  /\ failure' = "none" /\ cleanupFailed' = FALSE /\ jobTried' = FALSE
  /\ IF late'
     THEN pc' = "idle" /\ answer' = [answer EXCEPT ![cur'] = "deadline"]
     ELSE pc' = "process_owners" /\ answer' = answer
  /\ UNCHANGED <<nt, started, processes, job, ends, pending, work, begun, faults>>

DeadlinePasses ==
  /\ pc \notin {"idle", "crashed"} /\ ~late
  /\ late' = TRUE
  /\ UNCHANGED <<nt, pc, control, verdict, held, pending, work, begun, faults>>

\* Mutant: an access begins although an owner could not be closed.
RetryProcesses_goOn ==
  /\ pc = "process_owners"
  /\ \E kept \in SUBSET pendProc :
       /\ Costs(Cardinality(kept))
       /\ \E surviving \in SUBSET kept :
            child' = [c \in Access |-> IF c \in (pendProc \cap started) \ surviving
                                       THEN "exited" ELSE child[c]]
       /\ pendProc' = kept
       /\ processes' = processes \ (pendProc \ kept)
       /\ Goto("job_owners")
  /\ UNCHANGED <<nt, control, late, started, job, jobTried, ends, pendJob, pendIpc,
                 authorized, reply, landed, begun>>

(* _retry_pending_process_owners.  Every owner on the list is tried; kept  *)
(* are those whose child would not die, or could not be closed.            *)
RetryProcesses ==
  /\ pc = "process_owners"
  /\ \E kept \in SUBSET pendProc :
       /\ Costs(Cardinality(kept))
       /\ \E surviving \in SUBSET kept :
            child' = [c \in Access |-> IF c \in (pendProc \cap started) \ surviving
                                       THEN "exited" ELSE child[c]]
       /\ pendProc' = kept
       /\ processes' = processes \ (pendProc \ kept)
       /\ IF kept = {} THEN Goto("job_owners") ELSE Refuse("file")
  /\ UNCHANGED <<nt, control, late, started, job, jobTried, ends, pendJob, pendIpc,
                 authorized, reply, landed, begun>>

(* _retry_pending_job_owners: a job that closes takes its child with it.   *)
RetryJobs ==
  /\ pc = "job_owners"
  /\ \E kept \in SUBSET pendJob :
       /\ Costs(Cardinality(kept))
       /\ pendJob' = kept
       /\ job' = [c \in Access |-> IF c \in pendJob \ kept THEN "closed" ELSE job[c]]
       /\ child' = [c \in Access |-> IF c \in pendJob \ kept /\ job[c] = "assigned"
                                     THEN "exited" ELSE child[c]]
       /\ IF kept = {} THEN Goto("ipc_owners") ELSE Refuse("file")
  /\ UNCHANGED <<nt, control, late, started, processes, jobTried, ends, pendProc, pendIpc,
                 authorized, reply, landed, begun>>

(* _retry_pending_ipc_owners *)
RetryEnds ==
  /\ pc = "ipc_owners"
  /\ \E kept \in SUBSET pendIpc :
       /\ Costs(Cardinality(kept))
       /\ pendIpc' = kept
       /\ ends' = ends \ (pendIpc \ kept)
       /\ IF kept # {} THEN Refuse("file")
          ELSE Goto(IF round = 1 THEN "path" ELSE "create")
  /\ begun' = IF pc' = "create" THEN cur ELSE begun
  /\ UNCHANGED <<nt, control, late, started, processes, job, jobTried, pendProc, pendJob, work>>

(* read_config: the path is not accepted, or _bounded_file_read starts     *)
(* over with the deadline and the pending owners.                          *)
AcceptPath ==
  /\ pc = "path"
  /\ round' = 2
  /\ \/ Refuse("file")
     \/ IF late THEN Refuse("deadline") ELSE Goto("process_owners")
  /\ UNCHANGED <<nt, kind, cur, late, held, pending, work, begun, faults>>

-----------------------------------------------------------------------------
(* The try block.                                                          *)

(* The pipe or queue, the event and the process object are made; the first *)
(* one that cannot be made ends the access.                                *)
Create ==
  /\ pc = "create"
  /\ \E made \in {"nothing", "ends", "process"} :
       /\ ends' = IF made = "nothing" THEN ends ELSE ends \cup ({cur} \X Ends(kind))
       /\ processes' = IF made = "process" THEN processes \cup {cur} ELSE processes
       /\ IF made = "process" THEN Costs(0) /\ Goto("start") ELSE Costs(1) /\ Raise("file")
  /\ UNCHANGED <<nt, control, late, started, job, jobTried, pending, work, begun>>

\* Mutant: a read lets its child go without a job.
Start_unassigned ==
  /\ pc = "start"
  /\ \/ /\ started' = started \cup {cur}
        /\ child' = [child EXCEPT ![cur] = "waiting"]
        /\ Goto(IF kind = "call" THEN "sender" ELSE "authorize")
        /\ Costs(0)
     \/ Costs(1) /\ Raise("file") /\ UNCHANGED <<started, child>>
  /\ UNCHANGED <<nt, control, late, processes, job, jobTried, ends, pending,
                 authorized, reply, landed, begun>>

(* process.start() *)
Start ==
  /\ pc = "start"
  /\ \/ /\ started' = started \cup {cur}
        /\ child' = [child EXCEPT ![cur] = "waiting"]
        /\ Goto(CASE kind = "call" -> "sender" [] kind = "config" /\ nt -> "job"
                  [] OTHER -> "authorize")
        /\ Costs(0)
     \/ Costs(1) /\ Raise("file") /\ UNCHANGED <<started, child>>
  /\ UNCHANGED <<nt, control, late, processes, job, jobTried, ends, pending,
                 authorized, reply, landed, begun>>

(* The parent's copy of the sending end goes; when it cannot be closed it  *)
(* is kept and the access goes on, to fail at the end.                     *)
CloseSender ==
  /\ pc = "sender"
  /\ \/ /\ ends' = ends \ {<<cur, "sender">>}
        /\ UNCHANGED <<cleanupFailed, pendIpc>> /\ Costs(0)
     \/ /\ cleanupFailed' = TRUE
        /\ pendIpc' = pendIpc \cup {<<cur, "sender">>}
        /\ UNCHANGED ends /\ Costs(1)
  /\ pc' = IF nt THEN "job" ELSE "authorize"
  /\ UNCHANGED <<nt, control, late, failure, answer, started, processes, job, jobTried,
                 pendProc, pendJob, work, begun>>

(* WindowsJobBoundary() and its assign_process *)
CreateJob ==
  /\ pc = "job"
  /\ \/ job' = [job EXCEPT ![cur] = "open"] /\ Goto("assign") /\ Costs(0)
     \/ Costs(1) /\ Raise("file") /\ UNCHANGED job
  /\ UNCHANGED <<nt, control, late, started, processes, jobTried, ends, pending, work, begun>>

AssignJob ==
  /\ pc = "assign"
  /\ \/ job' = [job EXCEPT ![cur] = "assigned"] /\ Goto("authorize") /\ Costs(0)
     \/ Costs(1) /\ Raise("file") /\ UNCHANGED job
  /\ UNCHANGED <<nt, control, late, started, processes, jobTried, ends, pending, work, begun>>

(* The deadline is looked at once more before the child is let go. *)
Authorize ==
  /\ pc = "authorize"
  /\ IF late THEN Raise("deadline") /\ UNCHANGED authorized
     ELSE Goto("await") /\ authorized' = authorized \cup {cur}
  /\ UNCHANGED <<nt, control, late, held, pending, child, reply, landed, begun, faults>>

\* Mutant: the child is joined without a timeout.
AwaitCall_forever ==
  /\ pc = "await" /\ kind = "call"
  /\ ~Alive(cur)
  /\ IF Alive(cur) \/ late \/ (reply[cur] = "none" /\ <<cur, "sender">> \in ends)
     THEN Raise("deadline")
     ELSE IF reply[cur] = "value" THEN Goto("success") ELSE Raise("file")
  /\ UNCHANGED <<nt, control, late, held, pending, work, begun, faults>>

(* _bounded_file_call waits for the child until the deadline.  A child     *)
(* that went without an answer leaves a broken pipe, or an empty one when  *)
(* the parent still has the sending end.                                   *)
AwaitCall ==
  /\ pc = "await" /\ kind = "call"
  /\ late \/ ~Alive(cur)
  /\ IF Alive(cur) \/ late \/ (reply[cur] = "none" /\ <<cur, "sender">> \in ends)
     THEN Raise("deadline")
     ELSE IF reply[cur] = "value" THEN Goto("success") ELSE Raise("file")
  /\ UNCHANGED <<nt, control, late, held, pending, work, begun, faults>>

(* _bounded_file_read waits a tenth of a second, then for the answer, then *)
(* for the end of the child.                                               *)
AwaitRead ==
  /\ pc = "await" /\ kind = "config"
  /\ IF Alive(cur) THEN Goto("get")
     ELSE IF reply[cur] = "none" THEN Raise("file")
     ELSE Goto("success")
  /\ UNCHANGED <<nt, control, late, held, pending, work, begun, faults>>

GetAnswer ==
  /\ pc = "get" /\ reply[cur] # "none"
  /\ Goto("join")
  /\ UNCHANGED <<nt, control, late, held, pending, work, begun, faults>>

JoinChild ==
  /\ pc = "join"
  /\ late \/ ~Alive(cur)
  /\ IF Alive(cur) THEN Raise("file") ELSE Goto("success")
  /\ UNCHANGED <<nt, control, late, held, pending, work, begun, faults>>

-----------------------------------------------------------------------------
(* The cleanup.                                                            *)

(* _close_job_owner: it kills what the job holds, or is kept.  Inside the  *)
(* try block the outcome replaces what cleanup_failed was before.          *)
CloseJob(before) ==
  /\ jobTried' = TRUE
  /\ \/ /\ job' = [job EXCEPT ![cur] = "closed"]
        /\ child' = [child EXCEPT ![cur] = IF job[cur] = "assigned" THEN "exited" ELSE @]
        /\ cleanupFailed' = before
        /\ UNCHANGED pendJob /\ Costs(0)
     \/ /\ cleanupFailed' = TRUE
        /\ pendJob' = pendJob \cup {cur}
        /\ UNCHANGED <<job, child>> /\ Costs(1)

(* No answer came in time: the job is closed before anything else.         *)
GetTimesOut ==
  /\ pc = "get" /\ reply[cur] = "none" /\ late
  /\ IF OpenJob(cur) THEN CloseJob(FALSE)
     ELSE UNCHANGED <<cleanupFailed, job, jobTried, child, pendJob, faults>>
  /\ failure' = "deadline" /\ pc' = "close_job"
  /\ UNCHANGED <<nt, control, late, answer, started, processes, ends, pendProc, pendIpc,
                 authorized, reply, landed, begun>>

(* The answer is there: the job is closed inside the try block, and a read *)
(* looks at the deadline and at the answer only then.                      *)
Success ==
  /\ pc = "success"
  /\ IF OpenJob(cur) THEN CloseJob(FALSE)
     ELSE UNCHANGED <<cleanupFailed, job, jobTried, child, pendJob, faults>>
  /\ failure' = IF kind = "call" THEN "none"
                ELSE IF late THEN "deadline"
                ELSE IF reply[cur] = "error" THEN "file" ELSE "none"
  /\ pc' = "close_job"
  /\ UNCHANGED <<nt, control, late, answer, started, processes, ends, pendProc, pendIpc,
                 authorized, reply, landed, begun>>

(* finally: first the job, if that has not been tried *)
FinallyJob ==
  /\ pc = "close_job"
  /\ IF OpenJob(cur) /\ ~jobTried THEN CloseJob(cleanupFailed)
     ELSE UNCHANGED <<cleanupFailed, job, jobTried, child, pendJob, faults>>
  /\ pc' = "close_process"
  /\ UNCHANGED <<nt, control, late, failure, answer, started, processes, ends, pendProc,
                 pendIpc, authorized, reply, landed, begun>>

\* Mutant: a process that cannot be closed is not kept.
FinallyProcess_forgotten ==
  /\ pc = "close_process"
  /\ IF cur \notin processes
     THEN UNCHANGED <<child, processes, pendProc, cleanupFailed, faults>>
     ELSE \/ /\ child' = [child EXCEPT ![cur] = IF cur \in started THEN "exited" ELSE @]
             /\ processes' = processes \ {cur}
             /\ UNCHANGED <<pendProc, cleanupFailed>> /\ Costs(0)
          \/ /\ child' \in {child, [child EXCEPT ![cur] = IF cur \in started THEN "exited" ELSE @]}
             /\ UNCHANGED pendProc
             /\ cleanupFailed' = TRUE
             /\ UNCHANGED processes /\ Costs(1)
  /\ pc' = "close_ends"
  /\ UNCHANGED <<nt, control, late, failure, answer, started, job, jobTried, ends, pendJob,
                 pendIpc, authorized, reply, landed, begun>>

(* then the process (_close_process_owner: terminate, kill, close)         *)
FinallyProcess ==
  /\ pc = "close_process"
  /\ IF cur \notin processes
     THEN UNCHANGED <<child, processes, pendProc, cleanupFailed, faults>>
     ELSE \/ /\ child' = [child EXCEPT ![cur] = IF cur \in started THEN "exited" ELSE @]
             /\ processes' = processes \ {cur}
             /\ UNCHANGED <<pendProc, cleanupFailed>> /\ Costs(0)
          \/ /\ child' \in {child, [child EXCEPT ![cur] = IF cur \in started THEN "exited" ELSE @]}
             /\ pendProc' = pendProc \cup {cur}
             /\ cleanupFailed' = TRUE
             /\ UNCHANGED processes /\ Costs(1)
  /\ pc' = "close_ends"
  /\ UNCHANGED <<nt, control, late, failure, answer, started, job, jobTried, ends, pendJob,
                 pendIpc, authorized, reply, landed, begun>>

(* then the ends that are not given up yet (_close_output,                 *)
(* _close_ipc_endpoint)                                                    *)
FinallyEnds ==
  /\ pc = "close_ends"
  /\ LET mine == {e \in ends \ pendIpc : e[1] = cur} IN
     \E kept \in SUBSET mine :
       /\ ends' = ends \ (mine \ kept)
       /\ pendIpc' = pendIpc \cup kept
       /\ cleanupFailed' = (cleanupFailed \/ kept # {})
       /\ Costs(Cardinality(kept))
  /\ pc' = "report"
  /\ UNCHANGED <<nt, control, late, failure, answer, started, processes, job, jobTried,
                 pendProc, pendJob, work, begun>>

(* A failed cleanup counts for more than any answer. *)
Report ==
  /\ pc = "report"
  /\ pc' = "idle"
  /\ answer' = [answer EXCEPT ![cur] = IF cleanupFailed THEN "file"
                                       ELSE IF failure # "none" THEN failure ELSE "ok"]
  /\ UNCHANGED <<nt, control, late, failure, cleanupFailed, held, pending, work, begun, faults>>

-----------------------------------------------------------------------------
(* The child (_file_call_child, _file_read_child), and the death of the    *)
(* parent, which closes its jobs.                                          *)
ChildWakes(c) ==
  /\ child[c] = "waiting" /\ c \in authorized
  /\ child' = [child EXCEPT ![c] = "working"]
  /\ UNCHANGED <<nt, pc, control, late, verdict, held, pending, authorized, reply, landed,
                 begun, faults>>

(* The function takes effect. *)
ChildActs(c) ==
  /\ child[c] = "working" /\ c \notin landed
  /\ landed' = landed \cup {c}
  /\ UNCHANGED <<nt, pc, control, late, verdict, held, pending, child, authorized, reply,
                 begun, faults>>

(* It has returned or raised, and the answer goes out - or does not.       *)
ChildAnswers(c) ==
  /\ child[c] = "working"
  /\ \/ c \in landed /\ reply' = [reply EXCEPT ![c] = "value"] /\ Costs(0)
     \/ reply' = [reply EXCEPT ![c] = "error"] /\ Costs(1)
     \/ UNCHANGED reply /\ Costs(1)
  /\ child' = [child EXCEPT ![c] = "leaving"]
  /\ UNCHANGED <<nt, pc, control, late, verdict, held, pending, authorized, landed, begun>>

ChildExits(c) ==
  /\ child[c] = "leaving"
  /\ child' = [child EXCEPT ![c] = "exited"]
  /\ UNCHANGED <<nt, pc, control, late, verdict, held, pending, authorized, reply, landed,
                 begun, faults>>

Crash ==
  /\ pc # "crashed"
  /\ pc' = "crashed"
  /\ child' = [c \in Access |-> IF job[c] = "assigned" THEN "exited" ELSE child[c]]
  /\ job' = [c \in Access |-> IF OpenJob(c) THEN "closed" ELSE job[c]]
  /\ processes' = {} /\ ends' = {} /\ pendProc' = {} /\ pendJob' = {} /\ pendIpc' = {}
  /\ UNCHANGED <<nt, control, late, verdict, started, jobTried, authorized, reply, landed,
                 begun, faults>>

Parent ==
  \/ RetryProcesses \/ RetryJobs \/ RetryEnds \/ AcceptPath
  \/ Create \/ Start \/ CloseSender \/ CreateJob \/ AssignJob \/ Authorize
  \/ AwaitCall \/ AwaitRead \/ GetAnswer \/ GetTimesOut \/ JoinChild \/ Success
  \/ FinallyJob \/ FinallyProcess \/ FinallyEnds \/ Report

Child(c) == ChildWakes(c) \/ ChildActs(c) \/ ChildAnswers(c) \/ ChildExits(c)

Next ==
  \/ \E k \in Kinds : Call(k)
  \/ Parent
  \/ DeadlinePasses
  \/ \E c \in Access : Child(c)
  \/ Crash

Spec == Init /\ [][Next]_vars

(* The parent runs on and time passes; nothing is assumed of the children. *)
FairSpec == Spec /\ WF_vars(Parent) /\ WF_vars(DeadlinePasses)

-----------------------------------------------------------------------------
FileAccess == INSTANCE FileAccess

(* The accesses of a process take effect one after the other: an effect    *)
(* that comes after its access was reported as failed comes before any     *)
(* later access begins, and what is reported as done is done.              *)
ImplementsFileAccess == FileAccess!FASpec

(* Between two accesses, everything an earlier one could not close - its   *)
(* child, its job, its ends - is on the list the next one works through.   *)
NothingForgotten ==
  pc = "idle" =>
    /\ processes \subseteq pendProc
    /\ \A c \in Access : OpenJob(c) => c \in pendJob
    /\ ends \subseteq pendIpc
    /\ \A c \in Access : Alive(c) => c \in pendProc

(* Under Windows nothing is read or written for a process that has died,   *)
(* whenever it dies: a child is let go only once the job holds it.         *)
DiesWithCaller == [][nt /\ pc = "crashed" => landed' = landed]_vars

(* Every access returns, although its child may stay at work for ever.     *)
AccessReturns == pc \notin {"idle", "crashed"} ~> pc \in {"idle", "crashed"}

-----------------------------------------------------------------------------
(* The inductive invariant behind NothingForgotten and the refinement.     *)
Trying == {"create", "start", "sender", "job", "assign", "authorize", "await", "get", "join",
           "success", "close_job", "close_process", "close_ends", "report"}
Closing == {"close_job", "close_process", "close_ends", "report"}
Asked == pc \notin {"idle", "crashed"}

(* Only the access that has begun last has a child, and it has none before *)
(* every earlier one is gone.                                              *)
InTurn ==
  /\ Asked => cur \in Access
  /\ begun <= cur
  /\ pc \in Trying => begun = cur
  /\ Asked /\ pc \notin Trying => begun < cur
  /\ \A c \in Access : Alive(c) => c = begun /\ c \in started
  /\ \A c \in Access : c > begun =>
       child[c] = "none" /\ job[c] = "none" /\ c \notin started \cup pendJob
  /\ pc \in {"create", "start"} => child[cur] = "none"
  /\ pc \in {"job_owners", "ipc_owners", "path", "create", "start"} =>
       \A c \in Access : ~Alive(c)

(* An answer comes from a child whose function has taken effect, and an    *)
(* access without a failure has such an answer.                            *)
Earned ==
  /\ Asked => answer[cur] = "none"
  /\ \A c \in Access : c > cur => answer[c] = "none"
  /\ \A c \in Access : child[c] \in {"none", "waiting", "working"} => reply[c] = "none"
  /\ \A c \in Access : reply[c] = "value" => c \in landed
  /\ pc \in {"get", "join"} => kind = "config"
  /\ pc \in {"join", "success"} => reply[cur] # "none"
  /\ pc = "success" /\ kind = "call" => reply[cur] = "value"
  /\ pc \in Closing /\ failure = "none" => cur \in landed

(* What earlier accesses have left behind is on the lists, ...             *)
Listed ==
  pc # "crashed" =>
    /\ \A c \in Access : pc \notin Trying \/ c # cur =>
         /\ c \in processes => c \in pendProc
         /\ Alive(c) => c \in pendProc
         /\ OpenJob(c) => c \in pendJob
    /\ \A e \in ends : pc \notin Trying \/ e[1] # cur => e \in pendIpc

(* ... and what the present one leaves gets there step by step.            *)
Listing ==
  /\ Asked /\ jobTried => pc \in Closing
  /\ pc \in Closing /\ (jobTried \/ pc # "close_job") /\ OpenJob(cur) => cur \in pendJob
  /\ pc = "start" => cur \in processes
  /\ pc \in Trying \ {"close_ends", "report"} /\ Alive(cur) => cur \in processes
  /\ pc \in {"close_ends", "report"} /\ (cur \in processes \/ Alive(cur)) => cur \in pendProc
  /\ pc = "report" => \A e \in ends : e[1] = cur => e \in pendIpc

IInv == InTurn /\ Earned /\ Listed /\ Listing

(* Under Windows a child that may go on is in its job, or has gone: the    *)
(* invariant behind DiesWithCaller.                                        *)
Boxed ==
  /\ \A c \in authorized : c <= begun
  /\ pc \in {"create", "start", "sender", "job", "assign", "authorize"} => cur \notin authorized
  /\ \A c \in Access : child[c] = "working" => c \in authorized
  /\ nt =>
       /\ pc = "authorize" => job[cur] = "assigned"
       /\ \A c \in authorized : Alive(c) => job[c] = "assigned"
  /\ pc = "crashed" => \A c \in Access : ~OpenJob(c)

=============================================================================
