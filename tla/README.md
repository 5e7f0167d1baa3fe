# TLA+ models of Limitora

Limitora (package `yasb_limitora`, `src/src/yasb_limitora`) is a short-lived
command-line program that asks AI coding tools for their usage limits, and is
run over and over by the YASB status bar.  Each run is a process of its own;
several may run at once, be killed at any moment, or meet a file, a mutex or a
child process that does not do what it was asked.  What the program promises
is mostly about those cases, and this directory states and checks it.

All paths below are relative to the repository; `cache.py` and the like stand
for `src/yasb_limitora/cache.py`.

## The system

| component | state it keeps | operations | talks to |
|---|---|---|---|
| CLI (`cli.py`) | none between runs but the cache files | parse, load config, replay the cache or run one refresh, publish, print, exit code | refresh coordinator, attempt |
| Refresh coordinator (`cache.py`) | cache file, marker file (generation, owner pid and creation token), `_pending_lease`, `_pending_claim` | `get_or_refresh` = `load`, `inspect_state`, `claim_or_wait`, producer, `_finish_claim`, `_recover_pending_claim` | guard, bounded file access, deadline, attempt |
| Cross-process guard (`guard.py`) | a named Windows mutex and leases on it | `acquire_key`, `release`, `close` | coordinator, attempt, configuration lock |
| Deadline (`deadline.py`) | endpoint, duration, reserve | `usable_ns`, `remaining_ns`, `cleanup_ns` | everything that waits |
| Provider attempt (`worker.py`) | process, job, queue, leases and helpers of one attempt; leases not yet finalised | `run`, `run_refresh_attempt`, `_cleanup_resources`, `_release_provider_lease` | guard, Codex executor, OpenCode worker, job boundary |
| Codex executor and helper (`codex_helper.py`, `isolation/protocol.py`) | `_active`, `_retrying`, `_pending_supervisor`; protocol position | `run_with_deadline`, `_retry_cleanup`; contained, READY, GO, result | supervisor |
| Codex supervisor (`codex_supervisor.py`, `codex_*_resources.py`, `_codex_resource_core.py`) | OPEN, PREPARED, ACQUIRED, BROKEN, CLOSED; endpoints with generations; what a rollback could not close | `prepare`, `acquire_with_deadline`, `close`, `_abort`, `_abort_prepared` | pipes, process, job |
| Job boundary (`isolation/windows_job.py`) | CREATED, ASSIGNED, AUTHORIZED, CLOSED, BROKEN; handles; assigned process | `assign_process`, `authorize`, `close`, `close_with_deadline` | Windows job object |
| Bounded file access (`path.py`) | three lists of processes, jobs and pipe ends that could not be closed | `_bounded_file_read`, `_bounded_file_call`, `_retry_pending_*_owners` | child process, job |
| Configuration lock (`_config_lock.py`) | named mutex, or a fallback marker file | `config_lease` | configuration changes |
| Setup assistant (`setup_assist.py`) | a request and its result; `config.json`, its backups | `_run_setup_assist`, `_execute`, `_config_gate_one`, `_consume_config_snapshot`, `_rollback_config_write` | configuration lock, `.env` block, PATH, installer |
| YASB `.env` block (`_env_block.py`) | `.env`, its directory, its backups | `apply`, `_restore` | setup assistant, whoever edits `.env` |
| User PATH (`_path_cleanup.py`) | PATH value, ownership record | append, remove, cleanup of literal state | registry, other programs |
| Installer (`packaging/inno/*.iss`, `*.isi`) | payload directory, `.old` and `.failed` directories, registry entries | prepare, restore, commit, deinitialise | setup assist |
| Documents (`config.py`, `model.py`, `limitora_api.py`, `projection.py`) | none | validate, adapt, project | CLI |
| Discovery, diagnostics (`discovery.py`, `_native_*.py`) | none | read-only probes, logging, deletion of one directory | installer |

### What is hard

* Two processes interleave between any two file or mutex operations of the
  coordinator, the configuration lock and the PATH record.
* A process dies holding the mutex, the marker, or half of a transaction; a
  new process may get the pid of the dead one.
* A write runs in a bounded child: it may be reported as failed although the
  file was replaced, or is replaced later, when the lock it was begun under has
  been given up.
* Releasing, closing and rolling back fail too, and what is left must stay
  owned by somebody who tries again.
* A deadline runs out between any two steps, and an answer arrives after it.
* Waiting has to end whatever the process that is waited for does.

`PROJECT.json` lists these hazards at the lines where they bite, with the
properties that cover them or a note why there is none yet.

### What each part has to get right

* CLI: what is shown from the cache is what this configuration would show, and
  the reader cannot tell whether the cache worked; what a provider has answered
  is not lost to a deadline or a failed cleanup; exit code and document agree.
* Coordinator: one producer per key; a live owner is never displaced; a result
  is never replaced by an older one - each as far as writes that come late allow
  it; every call ends; a crash anywhere does not block a successor.
* Bounded file access: an access that was given up takes no effect once another
  has begun; what could not be closed is found by the next access; nothing is
  done for a process that has died; every access returns.
* Configuration lock: one holder of the mutex, one of the marker; the marker of a
  live holder stands; whoever is refused is refused for a reason; entering ends.
* Setup assistant: what was reported stays, what failed is undone, and the
  configuration changes in one step, unless two are inside by different locks, and
  then what stood before stays; no line of others in `.env` is lost;
  "complete" means that everything asked for is there.
* Provider attempt: nothing works outside the guard; a worker reads nothing
  before it is in its job; what could not be closed is neither forgotten nor
  kept from the document; every run ends.
* Codex executor and supervisor: nothing that was made is lost, whatever fails;
  one helper at a time; no helper outlives its owner; every request ends.
* Job boundary: the whole tree is in the job; the handle outlives the tree; a
  boundary that is being closed gets rid of its tree.
* User PATH: elements of others survive; what is answered is true of PATH and
  record; state is deleted on proof of ownership only.
* Installer: the prior program and its registration can be brought back at every
  instant, after any failure or kill.

## Modules

| module | models | composed with |
|---|---|---|
| `SingleFlight` | what the coordinator promises, with no mutex, file or failure in sight | - |
| `RefreshCoordinator` | `get_or_refresh` of several processes, mutex, marker, cache file | implements `SingleFlight` (`SF`) |
| `FileAccess` | what a bounded file access promises | relied on by `RefreshCoordinator` |
| `BoundedFileCall` | `_bounded_file_call` and `_bounded_file_read`, their children and pending lists | implements `FileAccess` |
| `Document` | views, projection, classification, exit code, validation of a cached document (operators) | - |
| `Cli` | runs of the program over one cache | extends `Document`; coordinator and providers appear as what they may answer |
| `ConfigLock` | `config_lease`: mutex, fallback marker | shown to `ConfigApply` as two locks, each with one holder, freed at its death |
| `ConfigStore` | what a guarded change of `config.json` promises | - |
| `ConfigApply` | the operation `config-apply` of several assistants | implements `ConfigStore` |
| `EnvBlock` | the operation `env-block-apply` of several assistants, edits by others | - |
| `SetupAssist` | requests: their operations in order, the answer, the death of an assistant | composes `ConfigApply` and `EnvBlock` |
| `ProviderAttempt` | orchestrator, attempt, OpenCode worker, guard lease | Codex executor and job boundary appear as what they promise |
| `CodexHelper` | executor, supervisor, transaction, helper and its gate | job as in `WindowsJob` |
| `WindowsJob` | one job, its child and the child's descendants | - |
| `UserPath` | PATH, ownership record, state directory, two assistants | - |
| `InstallerTransaction` | the program-file transaction of Setup, over several Setups | - |
| `..._proof` | theorems about the module of that name; `BoundedFileCall_proof` also about `WindowsJob`, `InstallerTransaction_proof` also about `UserPath` | `EXTENDS` it and `TLAPS` |
| `MC...` | small instances for TLC | `EXTENDS` it |

Conventions: a process instance is a (pid, creation token) pair, so that a pid
can come back without its process; `pc` tells where in a handler an actor is;
code between two accesses to shared state, or two calls that can fail, is one
action; failures are counted by `faults` and bounded by `MaxFaults`; operators
named `X_variant`, marked "Mutant", are faulty versions of `X` used to see that
a property can fail, and are in no specification.

### RefreshCoordinator

State: `life` (a process object can outlive its process while somebody has a
handle), `mutex` (a dead owner has abandoned it), `marker` (generation and
owner, as in `_inactive_marker` / `_active_marker`), `cache`, and for each
instance its place in the call, the marker as read (`view`), its claim and the
two things a coordinator object remembers, `_pending_claim` and
`_pending_lease`.  Actions follow the code from `Call` over the lookup, the
inspection under the mutex, the judgement of the owner, the claim, the producer
and `_finish_claim` to the cleanup.  A bounded file access is done or failed.  A
write that failed leaves a child that may still act (`strayMarker`, `strayCache`:
the entry on `_PENDING_PROCESS_OWNERS`), and `Land` is that it does so, at any
later time, also after its parent has given the mutex up and another process has
read the marker.  The next access of the same process ends the child first, or is
refused; the end of the process takes it along.  This is what `FileAccess` says of one
process, here between several.  `epoch`, `claimAt` and the stamp in `cache` are
history: the code needs none of them, they say which of two results is newer; so
are `firm` (the marker is that of a claim in force) and `astray` (which writes came
after their lease), by which the properties say what late writes break and what
they do not.  A late retirement or a late result takes the marker from nobody
(`ProducerKeepsMarker`); a late claim does, and then a second producer may start
(see the divergences below).  A late result can replace a newer one.  `SingleFlight`
has both as its `Fumble` and `Land`: a change that was allowed when it was begun, is
reported as failed, and is made at most once, before its process begins anything
else.

Left out: the envelope codec, path and ACL validation (an access that fails),
keys other than one (they share nothing), the descriptor and name of the mutex.

### FileAccess and BoundedFileCall

One process makes one access after the other; its program counter follows
`_bounded_file_call` and `_bounded_file_read` with the exceptions kept for the
`finally` clause (`failure`, `cleanupFailed`).  What it holds is split as in the
code: process objects, the job, the ends of pipes and queues, and of each what
could not be closed and is now on `_PENDING_PROCESS_OWNERS`,
`_PENDING_JOB_OWNERS` or `_PENDING_IPC_OWNERS`.  The child is a process of its own
that waits for its event, acts (`landed`), answers or does not, and leaves; it
may stay in any of these states for ever, and the parent may die at any step,
which closes its jobs.  `nt` chooses between the platforms, without a job on
the others.  `FileAccess` has a number of the access begun last and the set of
those that took effect: the promise is that an effect comes after its access
began and before the next one did.

### Document and Cli

`Document` is a set of operators: a view is what one provider came to, `Item` its
place in the public document with the windows of OpenCode grouped, replaced by
placeholders or refused (`OpenCodeWindows`), `Classify` the state and the document
error, `Project` the document with the tooltips cut at the limit at which it fits
(`room`), `ExitCode` and `Diagnostic` what `cli.py` makes of it, and `Publishable`
what `cache.py` checks before it stores bytes or serves them.  Timestamps are left
out, and of texts and quantities there is left what decides: a limit on tooltips
stands for the size limit of the document; a window has scope, period and labels
(plan and unit), of which those in `Unsafe` are the ones `_UNSAFE_VALUE` refuses, and
kinds of quantities, of which `below_one` is the one that `_DECIMAL` refuses
(`Refused`).  The texts of an item are put together from those of its windows and
need no state of their own.

`Cli` is the process: load the configuration, replay the cache if it has a
publishable document, otherwise ask the coordinator for a claim (or learn that
there is none), take the guard, run Codex and OpenCode, clean up, decide what is
cacheable, publish, and write the document of the cache or of the attempt, each
of which may fail.  The deadline may pass before any of these
(`DeadlinePasses`).  Cache files are named by the fingerprint of the
configuration, so that a later run with another configuration meets its own
file only.

### ConfigLock

A process takes the lock at most once, so a marker file is identified with its
creator.  Renaming, replacing and deleting by handle are distinguished: `name`
is the file the name leads to, `deleting` the files marked for deletion whose
last handle is open, `written` the complete ones.  `Outages` says which
processes cannot have the mutex, `Pids` which process ids they get; both are decided
before anything starts.

### ConfigStore and ConfigApply

`ConfigApply` follows `_config_gate_one`: lock, read, validate, back up, prune,
merge, replace, read again, verify, and the rollback when something fails after
the replacement; a crash may come between any two.  Documents are a kind and
the set of writers whose selections they contain.  `Lease` is `config_lease`: a
writer waits for the mutex or is refused because it is held, and when its mutex
call fails it takes the marker (or is refused, the marker being held or failing as
well).  Mutex and marker appear as `ConfigLock` shows them, one holder each; the
holder of the one does not keep out the holder of the other, so two writers can be
inside.  `beside` is history and says of a writer that somebody was inside by the
other lock during its run, `base` is the document that stood when the two met: a
change that the first of them had made and not yet confirmed is not in it.

`ConfigStore` has three steps for one writer - a change, its confirmation, its being
taken back - and the refinement maps to them.  Confirming is the moment after which
the code no longer rolls back.  Two more steps are what is left of the promise when
two are inside (`crowd`): they meet (`Meet`), and until the last of them has left
the document can change in any way that keeps what stood before (`Muddle`).

### EnvBlock and SetupAssist

A text of `.env` is the lines of others in it and the state of the block.  An
application (`Look` to `RestoreCheck`) makes the directory, opens and reads the
file, backs it up, writes a temporary file, replaces, reads again, and when that
fails restores in place or deletes.  There is no lock: other assistants and
other programs (`OthersEdit`) change the file in between, and `met` remembers for
whom.  A file held open for the restore can be neither replaced nor deleted, as
under Windows.  `found` is history: the text when the application began.

`SetupAssist` runs the operations of a request in their order, whatever becomes
of them, and answers "complete" or "partial".  `path-add`, which is the first
operation of the same request, is in `UserPath`.  An assistant that leaves, at its
end or in the middle, lets its lock and its files go.  A change of the
configuration has a `Result` only once its lock has been given back, because what
the release reports is part of it; the `Turn` is that of the first operation
without a result.

### ProviderAttempt

The record of a worker is what is still `owned` of it (process, job, queue, event,
handle), the worker itself is a process that waits at its gate, reads, puts its
result into the queue, or dies.  The guard is a mutex of which a dead owner is
forgotten.  `Begin` and `NextAttempt` are the two ways into an attempt: the
second cleans up after the previous one first.  The Codex executor appears as
"running", "quiescent", "pending" or "terminal", `CodexHelper` shows why.

### CodexHelper

State: the executor's `_pending_supervisor`, `_active` and `_retrying`; for each
thread the place in its request, and whether its time is "usable", the withheld
"reserve" or "over"; for each supervisor its transaction (the `entries` it owns,
acquired and rolled back in the order of `Turn`, and what the rollback under way
has `kept`), the four pipe ends, the inheritable handles, the process and the job; for the helper what it
was told, what it said and whether it lives.

`Request` to `Claim` are the two checks of the executor with its lock released
in between, `Acquire` to `Attach` the steps of `_acquire_locked`, `OpenGate` to
`AwaitResponse` the exchange, `CloseEntry` to `Closed` every form of rollback and
close (`mode` says which), `RetryDone` to `EndRequest` what the executor does
with the result.  `os.close` never returns the value that means "try again", so
an end whose close fails is lost ("terminal") and never closed twice.  Left
out: `run` and `retry_cleanup` with a timeout per call, which the CLI does not
use; `_SPAWN_LOCK`, because there is one executor; the encoding of frames (a
frame is right, an error, or garbage).  When the owner dies its memory and its
handles are gone, so its part of the state returns to the initial one.

### WindowsJob, UserPath, InstallerTransaction

`WindowsJob`: `boundary` is the object (state, handles, assigned process),
`system` what Windows knows (live processes, job members, terminated ones).
The cleanup is one step per native call, with its local flags in `loc`.
`UserPath`: one step per registry access; a PATH is its elements and its type.
`local` has what a running call keeps in Python's locals, with the values it has
read, and says in `purpose` what the compare-and-write under way is for.
What others do to PATH and to the record is an action of its own, at any
moment.  `InstallerTransaction`: directories, uninstall key and snapshot
persist, three globals of Setup do not; the second phase of the uninstaller
(`deleting`) runs on after the uninstaller has returned.

## Runs

| run | question | instance |
|---|---|---|
| `coordinator_safety` | lease discipline, decisions on current markers, single producer, survival of the document, refinement of `SingleFlight` | 2 processes x 2 calls, 1 fault, 1 deletion of the marker |
| `coordinator_liveness` | does every call end, and does a crash block a successor? | 3 processes, two with one pid, 2 waiting rounds, 1 fault |
| `file_call` | what is left of an access, order of effects (refinement of `FileAccess`), orphans, termination | 3 accesses, 2 faults |
| `cli` | does the cache serve what a run would show, do projection, validation and exit code agree? | 2 runs, every configuration, 4 windows, 3 lengths of tooltips |
| `config_lock` | does the marker of a live holder stand while two reclaim that of a dead one, who is refused, does entering end? | 3 processes, mutex for all or for none, own pids or one that is used again, 1 fault |
| `setup_assist` | do changes stay or get undone, is `ConfigStore` implemented, are lines of `.env` kept, are answers true? | 3 assistants, mutex and marker, 2 faults or foreign edits, 1 foreign line |
| `provider_attempt` | guard, containment, leftovers, termination | 2 processes, 3 attempts, 1 fault |
| `codex_helper` | ownership under failures, one helper, end of helpers and requests | 2 threads, 2 requests, 2 faults |
| `windows_job` | containment, the life of the handle, end of the tree | child with 2 descendants, 2 faults |
| `user_path` | truth of the answers, foreign elements, deletion on proof | 2 assistants, 2 requests, 2 troubles |
| `installer` | recoverability, order of program and registration | 3 Setups, 3 faults, 2 kills |
| `installer_commit` | "preserves the recovery state" (finding) | 1 Setup, 1 fault |

Why the bounds are enough to be interesting:

* Two processes are needed for every race of the coordinator; the second call of
  a process meets the pending claim and the pending lease of its first one, and
  one fault is what leaves them, and a write that comes late: it meets a claim, a
  producer or a publication of the other process.  Liveness needs a third process, because a
  successor can be kept waiting by somebody else than the one that died.  The
  theorems below cover the safety part for any number of all of these.
* The lock needs three: the owner that died, and two that live at the same time and
  judge its marker.  How the system gives them process ids is decided before anything
  starts: each one its own, or the two could not both take the marker for one that
  may be reclaimed, or the third that of the first, so that the marker of a process
  that has gone names the pid of one that runs.  A failure excuses a refusal; the
  behaviours of the run without one are those in which it has to be explained.
* Two faults are the failure of a step and of its rollback; the codex run needs
  them to leave a pending supervisor at all before the deadline, and has two
  requests because the second one meets what the first one left.  A third file
  access meets what is left when the second one could not clean up either.
* The second run of `cli` meets the cache of the first, under the same or another
  configuration.  The sample windows have two windows of one period, one of an
  unknown source with texts and quantities that the cache would refuse, one of a
  period without a slot, one with a quantity below one, and so many that with the
  slots they are too many (`MaxWindows` stands for the 32 of
  `MAX_QUOTA_WINDOWS`); the rooms are "does not fit at all", "only without
  tooltips", "cut" and "uncut".
* The behaviours of `setup_assist` are of three kinds: one assistant with the request
  that `setup.exe` makes after its installation, `.env` block and then configuration;
  two that meet in `.env`, where foreign edits are the others that matter; and three
  that meet in `config.json`.  One fault brings a second one inside the configuration
  lock beside the first, the other is for the backup, the replacement, the
  verification or the rollback of one of the two; the third has reported its change
  before them, comes when they have left, or takes the lock that the first gives up.
  The two files share nothing, so an assistant in the one does not meet one in the
  other; the theorems below hold for any number of writers and any requests.
* The installer needs three Setups: one to leave something behind, one to
  misread it, one to see that the prior program is still there.
* Two descendants: one that exists when the job is closed and one started while
  it is.

`CHECK_DEADLOCK FALSE` stands where the system may stop: a process that has made
its accesses or has died, a CLI run that was the last, a closed job boundary, a
Setup that is over, requests that are used up.  Elsewhere the end is an action
(`Over`) whose guard says what has to be finished, or somebody can always go on
(an assistant can leave and come back).

Fairness is per actor and weak: a thread or process that is running goes on, and
where the code waits for a deadline, time passes (`Exhaust`, `Tick`,
`DeadlinePasses`).  The coordinator needs no passing time, for its waiting rounds
are counted.  Nobody has to start, to stop, to die or to answer - nothing at all
is assumed of the children of a file access, of the OpenCode worker or of the
Codex helper; the exceptions are a terminated process, which dies (`Dies` in
`WindowsJob`), a dead process, whose handles Windows closes (`HandlesClosed`), and
a helper that waits at a pipe which has been closed, which returns from its read
(`HearEof`).  `WF(Retry)` in `WindowsJob` is the caller of a boundary that could
not be closed and keeps trying, as the orchestrator and the executor do with what
they retain.

## Proofs

All constants are arbitrary (any set of processes, any assignment of pids, any
bounds): the assumptions are those the modules name (`ConstantsAssumption`,
`BoundsAssumption` and so on: `NoProc` is not a process, every process gets a pid, bounds are natural numbers, the threads of an executor are finitely many,
the snapshots a provider may report are those the constructors of `model.py` let
through).  Each invariant was checked by TLC on the instance of the run before it was proved, and is a
conjunction of named parts with one lemma each.

* `RefreshCoordinator_proof`.  `TypeCorrect` is inductive by itself.  For the
  rest the invariant is `IInv`, of eight parts, each with a lemma that goes
  through the actions: `CallRuns` (who is in a call is running), `LeaseHeld`
  (who is in a critical section has the mutex, who has it otherwise knows by
  `_pending_lease`), `OwnerHasLived`, `MarkerKnown` (between reading and
  writing, a claim in force is as it was read, and any other marker was
  deleted or written late if it is not), `NewestClaim` (the owner of a claim in force
  and whoever is publishing have the newest claim), `StraysKnown` (a child that
  was given up works for a running process that has begun no other access since),
  `StraysHarmless` (a late retirement finds its own claim or nothing) and
  `ProducerKeepsMarker` (unless the file is deleted or a late claim written, a
  process that works under a claim is the owner in the marker).  The last is why
  `SingleProducer` holds,
  which is not inductive: that no second producer starts follows only from what
  the second one must have read in the marker.  From `IInv` follow `Exclusion`,
  `DecisionsAreCurrent`, `AuthorityKept`, `SingleProducerHolds`, and with one
  case per action `Implementation`, the refinement of `SingleFlight`.
  `ResultsNeverGoBack` is a theorem about `SingleFlight` (a cached result is never
  replaced by an older one, unless by a publication that comes late) carried over by
  `Implementation`: what a displaced producer that comes back cannot do.  `DocumentsSurvive` needs that a call has no
  document to lose before its producer has returned (`NoDocumentYet`).
* `ConfigLock_proof`.  The invariant: who is at the lock is running, what was
  written was written by someone who has lived, a file is reclaimed only when
  its creator is gone for good (`JudgedGone`, and creators do not come back: a
  new process with the pid is another instance), who has not been through the
  lock has no file, and who creates or holds a marker owns the name
  (`OwnsTheName`).  Hence `HeldMarkerStandsAlways`, and with `GuardOwned`
  (a lease on the mutex is the mutex) `OneHolderAlways`: of each of the two kinds of
  lock there is one holder.  `RefusalsHaveReasons` adds that a process at the
  lock has no answer yet (`Unanswered`), so that each refusal is a step that the proof
  can look at.
* `BoundedFileCall_proof`.  `NothingForgotten` speaks of the moments between two
  accesses, so the invariant has to follow what the present access holds through
  its `finally` clause (`Listing`) beside what earlier ones left (`Listed`).  For the
  order of effects it needs that the only living child is that of the access
  begun last (`InTurn`: the next access does not begin while a child is on the
  list), and that an answer comes from a child that acted (`Earned`).  Hence
  `NothingIsForgotten` and `AccessesInOrder`, the refinement of `FileAccess`.
  `OrphansIdle` (`DiesWithCaller`) takes one invariant more, `Boxed`: under Windows a
  child that was told to go on is in its job or has gone.  The last section of the
  module is about `WindowsJob`, the boundary the child of an access is put into:
  everything a contained child starts is in the job (`Enclosed`), and a job counted
  as empty stays empty (`CountedEmpty`), because nobody is left in it who could start
  anything.  Hence `TreeContained` and `HandleKept`.
* `SetupAssist_proof`.  Nothing keeps two writers apart that have different locks, so
  the invariant says of whoever is inside that it has one of the two, and that two
  which are inside know of each other (`Locked`; as there are two locks, there is no
  third).  For a writer that is alone the document is what it read, or that with its
  change (`Based`), and what it read is in its backup, which has a number of its own
  (`Recoverable`, `Numbered`).  With two inside, whatever they have read, have in
  their backups or write contains what stood before they met (`Preserved`): that is
  why a change reported before stays although neither of them knows what the other
  is doing.  The answer fits the place in the operation, and what a writer that was
  alone has made or taken back is so known to all that have read since (`Answered`).
  Hence `ReportsStay`, `FailuresUndone` and `ChangesAsPromised`, the refinement of
  `ConfigStore`, for whole requests with their `.env` operations in between.
  `ForeignLinesKept` (`LinesKept`) needs no
  lock at all: by `BackedUp` whatever an application of the block is about to undo is in a
  complete backup, unless there was nothing before.  `AnswersAreTrue` joins the two
  files: "complete" is answered of operations that have all succeeded (`Complete`), and
  what an application of the block says of `.env` is so until somebody else changes
  the file (`Informed`).
* `ProviderAttempt_proof`.  `OneAtWork` is not inductive: the guard is given back
  only after everything is clean, so nothing is at work without the lease
  (`Guarded`), which rests on everything that is not quiet being remembered as the
  current attempt (`Remembered`); `Gated` carries the order of job and gate.
  Hence `OneAttemptAtWork`, `NoOrphanReads` and `NothingIsForgotten`.
* `CodexHelper_proof`.  What is open or alive is in the books of its supervisor
  at every step, those of an acquisition and of a rollback included (`Accounted`,
  `Held`); one thread works at a time, on a supervisor the executor knows of
  (`OneWorker`); and a supervisor that nobody remembers has nothing in its books
  (`Surrendered`).  The hard case is the failed close: an end that is lost goes off
  the books without having been closed again, and `CloseSound` is why it is not
  one left open.  Hence
  `NothingIsLost`; `HelpersOneAtATime` from it, because a helper that may live is in
  the books of a supervisor which the next request closes first.
* `Cli_proof`.  The operators first: `BisectionIsExact` says of the search in
  `project_bytes` that it finds the largest limit at which the document fits, for
  documents of every size.  `Bisect` is a recursive function, and the proof is by
  least counterexample: of the spans for which the search is wrong one is shortest
  (`Least`), and it cannot be, because both halves are shorter.  `OpenCodeAccepted`
  and `ItemAccepted` compare the windows the projection makes with those the
  validation of the cache wants: the three slots are there whatever was reported,
  no identity comes twice, and nothing without a source has kept its values; what
  is left for the two to disagree about are the patterns (`Refused`), and
  `ProjectionIsAccepted` says that it is all.  Of the
  process: what a provider said stays what the views say (`Told`), and with the
  claim, which nobody gets who is misconfigured (`Underway`), the bytes for the cache
  are the projection of the same views that would be written without it
  (`Prepared`); what is stored is fit for the fingerprint it is stored under
  (`Stored`).  Hence one theorem for each property of the run.
* `InstallerTransaction_proof`.  Between two Setups nothing but the disk and the
  registry remembers, so the invariant says what they can be at each stage
  (`Staged`), that the snapshot belongs to the evacuated program as long as that
  exists (`Kept`), and that the program the user had is in `{app}.old` while `{app}` is
  written or deleted - the late second phase of the uninstaller included - and
  that nothing but a whole program is registered once `{app}.old` has gone
  (`Shielded`): otherwise the next Setup would take a torso for the program it has
  to keep.  Hence `ProgramKept` and `RestoredThenAdvertised`, for any number of
  Setups.
  The second half of the module is about `UserPath`, the assist that Setup and the
  uninstaller run.  First the operators on values of any length: appending a route
  and cutting off a last element that is one leave the elements of others where they
  are (`ExtendedText`, `ShortenedText`, `SafeText`).  Then `PathInv`, for each assist:
  what its request means to write follows from what it has read (`Planned`: where the
  value comes from for each of the five purposes of a compare-and-write), what it
  compared last is still so unless that was edited (`Compared`), and, while nobody else
  writes, how far it has got from what it found when it began (`Told`).  `Compared`
  with `Planned` gives `ForeignElementsKept` and `StateDeletedOnProof`; `Told`, whose
  case for the end of a request is the truth of its report, gives `ReportsAreTrue`:
  for any number of assists, requests, edits by others, failing calls and kills.

Only model-checked: all liveness (fairness and `ENABLED` are beyond the prover),
`CrashNeverBlocksSuccessor` and `HelperDiesWithOwner` among it.  The induction
theorems of the library take an operator as a parameter and cannot be used with the
provers at hand; where an induction over data was needed (`Bisect`) the least element
of a set of counterexamples does its work, with `WFMin`.

## Where the code does not do what its documents say

`yasb-limitora.iss`, commit: a deletion of the evacuated program that fails
half-way is followed by a rollback that removes the new program as well, although
the comment there says that a cleanup failure preserves the recovery state (run
`installer_commit`).

The others are seen in the behaviours of the models, and no run is kept for them; the
properties that they concern name them as their exceptions.

`docs/architecture/README.md:89-91`: on a miss one producer runs, and waiters never
launch a duplicate refresh.  A claim whose write is reported as failed can be
written by its child (`path.py:542-546` keeps it on a list) when its process has given
the mutex up and another one has claimed; if the first process then exits, the next
one finds the marker of a process that has gone, claims, and refreshes beside the
second.  `SingleProducer` and `ProducerKeepsMarker` are stated for the time until a
claim is deleted or comes late (`Undisturbed`).

`openspec/changes/release-and-smoke-test-0-2-0/design.md:1014`: `config.json` is
changed under a single-writer lock.  The fallback is decided by each process for
itself (`_config_lock.py:200-216`): one whose mutex calls fail takes the marker while
another one holds the mutex, and neither looks at the other's lock, so that both are
inside.  A change that one of them then reports as made can be taken out by the
other, which writes what it had read before, or rolls back to it;
`ReportedChangeStays`, `FailedChangeUndone` and `AnswersTrue` except the writers that
somebody was inside beside, and `ConfigStore` says what is left.

`docs/specifications/json-output.md`, four places.  Rules 3 and 4 of 4.2 (lines
312-323): a document in which nobody was run is a deadline failure when somebody was
not run for lack of time; a provider that looks at the deadline itself and is too
late (`worker.py:147`, `codex_helper.py:657`) gives `not_run` with the error `null`,
and exit code 0, when it is the only one, and `provider_failed` when the other one is
in error.  Section 12.3 (883): a document failure has exit code 2; too many windows,
or a document that does not fit, give an `internal_error` document with the exit code
of the views (`projection.py:584`).  `ExitTellsDocument` excepts these two.  Rule 2
(309-311, 327-330): a snapshot beside a provider that the deadline kept from starting
is `partial`; the code makes the whole document a deadline failure (`worker.py:511`).
Sections 7 and 13: `0.5` is a canonical decimal, and errors, timeouts and failed
cleanups are what is not published; `_DECIMAL` (`cache.py:55`) refuses every quantity
between 0 and 1, so that such a result is never cached.  `ProjectedIsAccepted` says
that a clean document is accepted exactly when no pattern of the cache refuses
anything in it.

### Observations

Seen while modelling and not checked by a run of their own: the models have the
behaviour, and the properties are stated so that they allow it.

* Coordinator: when the producer raises after the usable time is over, the marker
  cannot be read any more, the claim is neither given up nor remembered, and the
  marker names a live process without an attempt until that process exits
  (`cache.py:1234`; the docstring of `cleanup_attempt` says "Release marker authority
  when an attempt exits before publication").
* Coordinator: with the owner's identity in the marker the generation is
  redundant; a model whose generation never advances has the other properties.
* File access: the failure to close the sender is overwritten by the outcome of
  closing the job (`path.py:524`), so such a call is answered with a value although
  an end is pending.
* Documents: after a guard timeout a misconfigured provider shows its error beside
  the provider that was not run.
* Documents: a scope, period, plan or unit that is a rooted path or has a word like
  `workspace` or `secret` in it is shown, but the document is not cached.
* Configuration change: a lock that cannot be given back turns a change that was
  made and verified into a reported refusal.  The pattern that selects backups
  for pruning is a raw string with doubled backslashes and matches none, so they
  are not bounded to five.
* `.env`: the rollback also runs when the replacement never happened
  (`_env_block.py:252`), and then overwrites or deletes what somebody else has
  written since.  It restores in place, by truncating, so that a kill in the middle
  loses the text (the backup has it).  The directory made for a new file stays when
  rendering is refused or the file is still open, although `design.md:738` says an
  empty home created by the operation is removed.  Backups are never pruned.
* Codex: the answer is awaited through the cleanup reserve up to the endpoint
  itself.  A request that times out has no time left to close its supervisor, and
  is reported as an internal error, not as `provider_timeout`, with the helper alive
  until the CLI ends (`codex_helper.py:724`, `json-output.md:935`).
* Codex: an end that is lost in the final close, or in a rollback after the gate
  was opened, keeps the supervisor broken for good, one lost before is
  forgotten after a successful retry.  READY that does not come is reported as
  a provider error (the acquisition error hides the timeout), and, the endpoint
  having passed, as an internal error in the end.  A READY that is there when
  the endpoint has passed is accepted and the request sent.
* Worker: an orchestrator killed between starting the worker and putting it into
  the job leaves a process that waits at its gate for ever.
* PATH: the comparison before a write and the write are two calls, an edit
  between them is lost.  A `Path` value that is not a string reads like none and
  is overwritten.  A kill between the write of PATH and the write of the record
  leaves an element nobody removes; a stale record makes every later addition
  refuse.  In the uninstall batch an `OSError` of the registry can leave PATH
  without the element and the request refused.  Undoing an addition to an
  absent PATH leaves an empty string.
* Installer: a kill between evacuation and copy leaves `.old`, which the next
  Setup does not notice once `{app}` exists again; later upgrades are refused.
  When the uninstaller and the import of the snapshot both fail, the prior
  program stands under the new registration.  A second Setup that is
  started between the evacuation and the copy of a first one (there is no
  `SetupMutex`) sees no installation and installs into the same directory.

## Not modelled, and why

* `discovery.py`, `_native_proof_observability.py`: read-only probes and logging.
* `_native_state_cleanup.py`: the deletion of one directory by Windows calls.  In
  `UserPath` it is one step that succeeds, fails or fails half-way; when it may be
  taken is the property `DeletedOnProof` there.
* `isolation/protocol.py`: nothing but the tests uses it; the protocol between
  executor and helper is in `CodexHelper`.
* The texts, numbers and timestamps of `config.py`, `model.py`, `limitora_api.py` and
  `projection.py`: no state; their effect on which document comes out is in
  `Document`.
* The widget and popup stubs of YASB, and build, release and proof tooling: not part of
  the program that runs.
* Two executors in one process (`_SPAWN_LOCK`), `run` and `retry_cleanup` with a
  timeout per call: the CLI has neither.
* The consent pages of Setup and the transport of requests and results of the setup
  assistant: input and output without a decision that the properties depend on.

## Plan

Done, in this order: the coordinator with its abstract specification and proofs,
the lock with its proofs, the configuration change, the installer, the job, the
attempt, PATH, the Codex helper; then bounded file access with its abstract
specification, the CLI with its documents, the `.env` block and the requests of
the setup assistant, and the proofs of file access, configuration change,
attempt, job and installer; then those of the Codex helper, the CLI with its
documents, the answers of the setup assistant, and PATH.  What is left, most important first:

1. Two Setups at once, for which `InstallerTransaction` has to have its globals per
   process.
2. `path-add` in the requests of `SetupAssist`, so that one request runs through all
   three files.
