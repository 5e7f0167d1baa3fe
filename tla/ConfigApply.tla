---------------------------- MODULE ConfigApply ----------------------------
(***************************************************************************)
(* The change of config.json by the setup assistant: _config_gate_one and  *)
(* _consume_config_snapshot of src/yasb_limitora/setup_assist.py.  Under   *)
(* the configuration lock the document is read and validated, backed up,   *)
(* merged with the selected fields, replaced, read again and verified;     *)
(* when something fails after the replacement the document is restored     *)
(* from the backup, or deleted if there was none.                          *)
(*                                                                         *)
(* A document is its kind and the selections merged into it; the selection *)
(* of a writer stands under the writer's own name.  The mutex and the      *)
(* marker file appear as what ConfigLock shows of each: one holder, freed  *)
(* when it dies.  Nothing keeps a holder of the one from a holder of the   *)
(* other: a process whose mutex call fails takes the marker, beside        *)
(* whoever has the mutex.  SetupAssist.tla runs this as one operation of a *)
(* request.                                                                *)
(***************************************************************************)
EXTENDS Naturals, FiniteSets

CONSTANTS
  Writer,       \* processes of the setup assistant
  NoWriter,     \* nobody
  MaxRuns,      \* bound: runs of the assistant under one writer's name
  MaxFaults     \* bound: failed file operations in a behaviour

ASSUME ApplyAssumption ==
  /\ NoWriter \notin Writer
  /\ MaxRuns \in Nat /\ MaxFaults \in Nat

VARIABLES
  config,    \* config.json
  backups,   \* the files in backups\: number, content, and whether it is complete
  holder,    \* the holder of the mutex and that of the marker
  beside,    \* history: somebody was inside by the other lock during its run
  base,      \* history: the document that stood when two came to be inside
  pc,        \* where in _config_gate_one each writer is
  snap,      \* the document it read under the lock
  backup,    \* number of its own backup, 0 for none
  outcome,   \* what the operation reports
  runs,      \* runs so far
  faults     \* failures so far

disk == <<config, backups>>
history == <<beside, base>>
vars == <<disk, holder, history, pc, snap, backup, outcome, runs, faults>>

NoDoc == [kind |-> "absent", fields |-> {}]
Docs == [kind : {"absent", "valid", "invalid"}, fields : SUBSET Writer]
Locks == {"mutex", "marker"}
Labels == {"idle", "lease", "snapshot", "backup", "replace", "verify", "prune", "restore",
           "recheck", "release"}
Critical == Labels \ {"idle", "lease"}
Outcomes == {"none", "ok", "refused", "write_failed", "rollback_failed"}

Init ==
  /\ config \in {NoDoc, [kind |-> "valid", fields |-> {}], [kind |-> "invalid", fields |-> {}]}
  /\ backups = {}
  /\ holder = [l \in Locks |-> NoWriter]
  /\ beside = [w \in Writer |-> FALSE] /\ base = NoDoc
  /\ pc = [w \in Writer |-> "idle"]
  /\ snap = [w \in Writer |-> NoDoc]
  /\ backup = [w \in Writer |-> 0]
  /\ outcome = [w \in Writer |-> "none"]
  /\ runs = [w \in Writer |-> 0]
  /\ faults = 0

-----------------------------------------------------------------------------
Goto(w, label) == pc' = [pc EXCEPT ![w] = label]
Report(w, value) == outcome' = [outcome EXCEPT ![w] = value]
NoFault == UNCHANGED faults
Fault == faults < MaxFaults /\ faults' = faults + 1

(* _merge_config_selection                                                 *)
\* Mutant: the merge starts from an empty document.
Merged_empty(d, w) == [kind |-> "valid", fields |-> {w}]

Merged(d, w) == [kind |-> "valid", fields |-> d.fields \cup {w}]

(* The pattern of backup names (a raw string with doubled backslashes)     *)
(* matches no name that _create_config_backup gives, so nothing is pruned. *)
Prunable(files) == {}

(* Those whose change is made and neither confirmed nor taken back; the    *)
(* document without that change; two are inside.                           *)
Unconfirmed == {w \in Writer : pc[w] \in {"verify", "prune", "restore"}}
Changing == IF Unconfirmed = {} THEN NoWriter ELSE CHOOSE w \in Unconfirmed : TRUE
Standing == IF Unconfirmed = {} THEN config ELSE snap[Changing]
Crowd == \E w \in Writer : pc[w] \in Critical /\ beside[w]

(* The lease is had through one of the locks, beside those that are inside *)
(* through another one.                                                    *)
Beside(lock) == {v \in Writer : pc[v] \in Critical /\ \E l \in Locks \ {lock} : holder[l] = v}

Enter(w, lock) ==
  /\ holder[lock] = NoWriter
  /\ holder' = [holder EXCEPT ![lock] = w]
  /\ Goto(w, "snapshot")
  /\ IF Beside(lock) = {} THEN UNCHANGED history
     ELSE /\ beside' = [v \in Writer |-> beside[v] \/ v \in Beside(lock) \cup {w}]
          /\ base' = IF Crowd THEN base ELSE Standing

(* Whatever lock the writer has is given up.                               *)
Free(w) == holder' = [l \in Locks |-> IF holder[l] = w THEN NoWriter ELSE holder[l]]

-----------------------------------------------------------------------------
Run(w) ==
  /\ pc[w] = "idle" /\ outcome[w] = "none" /\ runs[w] < MaxRuns
  /\ runs' = [runs EXCEPT ![w] = @ + 1]
  /\ Goto(w, "lease")
  /\ beside' = [beside EXCEPT ![w] = FALSE]
  /\ UNCHANGED <<disk, holder, base, snap, backup, outcome, faults>>

\* Mutant: the lock is not taken.
Lease_not(w) ==
  /\ pc[w] = "lease"
  /\ NoFault /\ Goto(w, "snapshot") /\ UNCHANGED <<holder, history, outcome>>
  /\ UNCHANGED <<disk, snap, backup, runs>>

(* config_lease: the mutex, the marker if a mutex call fails, or a refusal *)
(* because the lock is busy or the marker fails as well.                   *)
Lease(w) ==
  LET Refused == Goto(w, "idle") /\ Report(w, "refused") /\ UNCHANGED <<holder, history>>
  IN
  /\ pc[w] = "lease"
  /\ \/ NoFault /\ Enter(w, "mutex") /\ UNCHANGED outcome
     \/ NoFault /\ holder["mutex"] # NoWriter /\ Refused
     \/ Fault /\ Enter(w, "marker") /\ UNCHANGED outcome
     \/ Fault /\ Refused
  /\ UNCHANGED <<disk, snap, backup, runs>>

(* _snapshot_from_owned and the merge before anything is written.          *)
Snapshot(w) ==
  /\ pc[w] = "snapshot"
  /\ \/ /\ NoFault /\ config.kind # "invalid"
        /\ snap' = [snap EXCEPT ![w] = config]
        /\ Goto(w, IF config = NoDoc THEN "replace" ELSE "backup") /\ UNCHANGED outcome
     \/ /\ NoFault /\ config.kind = "invalid"
        /\ Goto(w, "release") /\ Report(w, "refused") /\ UNCHANGED snap
     \/ Fault /\ Goto(w, "release") /\ Report(w, "refused") /\ UNCHANGED snap
  /\ UNCHANGED <<disk, holder, history, backup, runs>>

(* The number of a backup is counted on until no file has it.              *)
NextNumber(files) == Cardinality(files) + 1

(* The backup is created under a new name; a failure may leave an          *)
(* incomplete one.                                                         *)
CreateBackup(w) ==
  LET n == NextNumber(backups)
      File(whole) == [n |-> n, doc |-> snap[w], whole |-> whole]
  IN
  /\ pc[w] = "backup"
  /\ \/ /\ NoFault /\ backups' = backups \cup {File(TRUE)}
        /\ backup' = [backup EXCEPT ![w] = n]
        /\ Goto(w, "replace") /\ UNCHANGED outcome
     \/ /\ Fault /\ backups' \in {backups, backups \cup {File(FALSE)}}
        /\ Goto(w, "release") /\ Report(w, "write_failed") /\ UNCHANGED backup
  /\ UNCHANGED <<config, holder, history, snap, runs>>

(* _atomic_config_write: a temporary file is written, flushed and renamed; *)
(* before the renaming a failure changes nothing.                          *)
Replace(w) ==
  /\ pc[w] = "replace"
  /\ \/ NoFault /\ config' = Merged(snap[w], w) /\ Goto(w, "verify") /\ UNCHANGED outcome
     \/ Fault /\ Goto(w, "release") /\ Report(w, "write_failed") /\ UNCHANGED config
  /\ UNCHANGED <<backups, holder, history, snap, backup, runs>>

\* Mutant: the replacement is not remembered, so nothing is rolled back.
Verify_no_rollback(w) ==
  /\ pc[w] = "verify"
  /\ \/ NoFault /\ config = Merged(snap[w], w) /\ Goto(w, "prune") /\ UNCHANGED outcome
     \/ Fault /\ Goto(w, "release") /\ Report(w, "write_failed")
  /\ UNCHANGED <<disk, holder, history, snap, backup, runs>>

(* The document is read again, validated and compared with what was        *)
(* written.                                                                *)
Verify(w) ==
  /\ pc[w] = "verify"
  /\ \/ /\ NoFault /\ config = Merged(snap[w], w)
        /\ Goto(w, "prune")
     \/ NoFault /\ config # Merged(snap[w], w) /\ Goto(w, "restore")
     \/ Fault /\ Goto(w, "restore")
  /\ UNCHANGED <<disk, holder, history, snap, backup, outcome, runs>>

(* A failure to prune still takes the change back.                         *)
Prune(w) ==
  /\ pc[w] = "prune"
  /\ \/ /\ NoFault
        /\ backups' = IF snap[w] = NoDoc THEN backups ELSE backups \ Prunable(backups)
        /\ Goto(w, "release") /\ Report(w, "ok")
     \/ snap[w] # NoDoc /\ Fault /\ Goto(w, "restore") /\ UNCHANGED <<backups, outcome>>
  /\ UNCHANGED <<config, holder, history, snap, backup, runs>>

(* _rollback_config_write: absence is restored by deleting the file, a     *)
(* document from the backup, by the same atomic write.                     *)
Restored(w) ==
  IF backup[w] = 0 THEN NoDoc ELSE (CHOOSE b \in backups : b.n = backup[w]).doc

Restore(w) ==
  /\ pc[w] = "restore"
  /\ \/ NoFault /\ config' = Restored(w) /\ Goto(w, "recheck") /\ UNCHANGED outcome
     \/ Fault /\ Goto(w, "release") /\ Report(w, "rollback_failed") /\ UNCHANGED config
  /\ UNCHANGED <<backups, holder, history, snap, backup, runs>>

Recheck(w) ==
  /\ pc[w] = "recheck"
  /\ Goto(w, "release")
  /\ \/ NoFault /\ Report(w, IF config = Restored(w) THEN "write_failed" ELSE "rollback_failed")
     \/ Fault /\ Report(w, "rollback_failed")
  /\ UNCHANGED <<disk, holder, history, snap, backup, runs>>

(* The end of the with statement.  An error of the lock replaces whatever  *)
(* the operation was going to report.                                      *)
Release(w) ==
  /\ pc[w] = "release" /\ Goto(w, "idle")
  /\ \/ NoFault /\ Free(w) /\ UNCHANGED outcome
     \/ Fault /\ Report(w, "refused") /\ (UNCHANGED holder \/ Free(w))
  /\ snap' = [snap EXCEPT ![w] = NoDoc]
  /\ backup' = [backup EXCEPT ![w] = 0]
  /\ UNCHANGED <<disk, history, runs>>

(* The process ends, after its work or in the middle of it.                *)
Exit(w) ==
  /\ Goto(w, "idle") /\ Report(w, "none")
  /\ Free(w)
  /\ snap' = [snap EXCEPT ![w] = NoDoc]
  /\ backup' = [backup EXCEPT ![w] = 0]
  /\ UNCHANGED <<disk, history, runs, faults>>

ApplyStep(w) ==
  \/ Lease(w) \/ Snapshot(w) \/ CreateBackup(w) \/ Replace(w) \/ Verify(w) \/ Prune(w)
  \/ Restore(w) \/ Recheck(w) \/ Release(w)

-----------------------------------------------------------------------------

(* A change that was reported as made is in the document and stays there,  *)
(* whatever other writers change, fail to change or take back, also beside *)
(* one another, unless somebody was inside beside its own writer.          *)
ReportedChangeStays ==
  \A w \in Writer : outcome[w] = "ok" /\ ~beside[w] => w \in config.fields

(* "config-write-failed" means that the document holds nothing of the      *)
(* failed change, unless somebody was inside beside its writer.            *)
FailedChangeUndone ==
  \A w \in Writer :
    outcome[w] = "write_failed" /\ runs[w] = 1 /\ ~beside[w] => w \notin config.fields

(* The guarded change implements the abstract one.                         *)
Open == IF Crowd THEN NoWriter ELSE Changing
Prior == IF Crowd THEN base ELSE IF Unconfirmed = {} THEN NoDoc ELSE snap[Changing]
Store == INSTANCE ConfigStore WITH doc <- config, open <- Open, crowd <- Crowd, prior <- Prior
ImplementsConfigStore == Store!StoreSpec

-----------------------------------------------------------------------------
(* The inductive invariant behind the three.                               *)
Backup == [n : Nat, doc : Docs, whole : BOOLEAN]
HasRead == {"backup", "replace", "verify", "prune", "restore", "recheck"}

Typed ==
  /\ config \in Docs /\ base \in Docs /\ snap \in [Writer -> Docs]
  /\ pc \in [Writer -> Labels] /\ outcome \in [Writer -> Outcomes]
  /\ holder \in [Locks -> Writer \cup {NoWriter}] /\ beside \in [Writer -> BOOLEAN]
  /\ backup \in [Writer -> Nat] /\ runs \in [Writer -> Nat]
  /\ backups \subseteq Backup /\ IsFiniteSet(backups)

(* One backup has each number, and the next number is not taken.           *)
Numbered ==
  /\ \A b \in backups : b.n \in 1 .. Cardinality(backups)
  /\ \A a, b \in backups : a.n = b.n => a = b

(* Who is inside has a lock, so two that are inside have two locks, and    *)
(* then, but not before, both are beside somebody.                         *)
Locked ==
  /\ \A w \in Writer : pc[w] = "lease" => ~beside[w]
  /\ \A w \in Writer : pc[w] \in Critical => \E l \in Locks : holder[l] = w
  /\ \A v, w \in Writer :
       pc[v] \in Critical /\ pc[w] \in Critical /\ v # w => beside[v] /\ beside[w]

(* The document is what a writer that is alone has read, or has made of    *)
(* it, ...                                                                 *)
Based ==
  \A w \in Writer :
    /\ pc[w] \in HasRead => config.kind # "invalid" /\ snap[w].kind # "invalid"
    /\ ~beside[w] =>
         /\ pc[w] \in {"backup", "replace", "recheck"} => config = snap[w]
         /\ pc[w] \in {"verify", "prune", "restore"} => config = Merged(snap[w], w)

(* ... or, with two inside, has all that stood before, like what they have *)
(* read, ...                                                               *)
Preserved ==
  Crowd =>
    /\ Store!Keeps(base, config)
    /\ \A w \in Writer : pc[w] \in HasRead => Store!Keeps(base, snap[w])

(* ... and what a writer has read is in its backup.                        *)
Recoverable ==
  \A w \in Writer :
    /\ pc[w] \in {"idle", "lease", "snapshot", "backup"} => backup[w] = 0
    /\ pc[w] = "backup" => snap[w] # NoDoc
    /\ pc[w] \in {"replace", "verify", "prune", "restore", "recheck"} =>
         IF snap[w] = NoDoc THEN backup[w] = 0
         ELSE \E b \in backups : b.n = backup[w] /\ b.doc = snap[w]

(* In its first run a writer that is alone is in the document from the     *)
(* replacement to the restore, and after a success; whoever reads it then, *)
(* or before and after, knows.                                             *)
Present(w) == w \in config.fields /\ \A v \in Writer : pc[v] \in HasRead => w \in snap[v].fields
Unseen(w) == w \notin config.fields /\ \A v \in Writer : pc[v] \in HasRead => w \notin snap[v].fields

Answered ==
  \A w \in Writer :
    /\ pc[w] \notin {"idle", "release"} => outcome[w] = "none"
    /\ runs[w] = 0 => pc[w] = "idle" /\ Unseen(w)
    /\ outcome[w] = "ok" /\ ~beside[w] => Present(w)
    /\ runs[w] = 1 /\ ~beside[w] =>
         /\ pc[w] \in {"lease", "snapshot", "backup", "replace", "recheck"} => Unseen(w)
         /\ pc[w] \in {"verify", "prune", "restore"} => w \notin snap[w].fields
         /\ outcome[w] = "write_failed" => Unseen(w)

IInv == Typed /\ Numbered /\ Locked /\ Based /\ Preserved /\ Recoverable /\ Answered

=============================================================================
