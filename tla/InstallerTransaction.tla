------------------------ MODULE InstallerTransaction ------------------------
(***************************************************************************)
(* The installer's program-file transaction                                *)
(* (packaging/inno/yasb-limitora.iss, the "G1 contract"): Setup moves the   *)
(* installed directory {app} to {app}.old before it copies anything,        *)
(* deletes {app}.old once the new program is registered, and otherwise      *)
(* brings the prior program and then its registration back when it ends.    *)
(*                                                                          *)
(* The directories, the uninstall key and the exported snapshot             *)
(* {app}.old.reg persist.  EvacuatedOldDir (evac), FailedQuarantineOwned    *)
(* (owned) and PriorUninstallString (prior) live in the Setup process and   *)
(* are gone when it is killed.  One Setup runs at a time, each installs a   *)
(* version of its own; every call to the file system, to reg.exe and to the *)
(* uninstaller is a step, can fail, and Setup can be killed after it.       *)
(***************************************************************************)
EXTENDS Naturals

CONSTANTS MaxRuns,      \* how often Setup is started
          MaxFailures,  \* how many operating-system calls fail, over all runs
          MaxCrashes    \* how often Setup is killed

ASSUME BoundsAssumption == MaxRuns \in Nat /\ MaxFailures \in Nat /\ MaxCrashes \in Nat

VARIABLES dir,       \* {app}, {app}.old and {app}.failed
          reg,       \* the version the uninstall key advertises, or None
          snap,      \* the registration saved in {app}.old.reg, or None
          deleting,  \* the second phase of the uninstaller is still deleting {app}
          pc, run,   \* where Setup is, and its number
          evac, owned, prior,  \* the globals of the Setup process
          failures, crashes,
          taken,     \* history: the program and the registration last evacuated
          torn,      \* history: a failed deletion of {app}.old removed part of it
          good       \* history: the version last accepted or committed, or None

sys   == <<dir, reg, snap, deleting>>
setup == <<evac, owned, prior>>
hist  == <<taken, torn, good>>
vars  == <<sys, setup, hist, pc, run, failures, crashes>>

None     == 0
Versions == 1 .. MaxRuns + 1
Dirs     == {"app", "old", "failed"}
Files    == {"program", "uninstaller"}
Payload  == [ver : Versions \union {None}, files : SUBSET Files]
NoDir    == [ver |-> None, files |-> {}]

Whole(v)  == [ver |-> v, files |-> Files]
Present(d) == dir[d] # NoDir
New       == run + 1                    \* the version this Setup installs

Init ==
  /\ \E app \in {NoDir, Whole(1)}, r \in {None, 1} :
       /\ app = NoDir => r = None
       /\ dir = [d \in Dirs |-> IF d = "app" THEN app ELSE NoDir]
       /\ reg = r /\ good = r
       /\ taken = [app |-> NoDir, reg |-> None]
  /\ snap = None /\ deleting = FALSE /\ torn = FALSE
  /\ pc = "idle" /\ run = 0 /\ evac = FALSE /\ owned = FALSE /\ prior = None
  /\ failures = 0 /\ crashes = 0

-----------------------------------------------------------------------------
(* Helpers: where Setup goes next, and a call that fails. *)

Go(s)  == pc' = s /\ UNCHANGED <<setup, run, crashes>>
Fine   == UNCHANGED failures
Fails  == failures < MaxFailures /\ failures' = failures + 1

\* The process ends: its globals are gone.
EndRun == /\ pc' = "idle" /\ evac' = FALSE /\ owned' = FALSE /\ prior' = None
          /\ UNCHANGED <<run, crashes>>

\* RenameFile: the target must not exist.
Rename(a, b) == Present(a) /\ ~Present(b) /\ dir' = [dir EXCEPT ![a] = NoDir, ![b] = dir[a]]

\* DelTree goes on after a file it cannot delete: a failure can leave any part.
Residue(d) == {[ver |-> dir[d].ver, files |-> fs] : fs \in SUBSET dir[d].files}
DelTree(d)      == dir' = [dir EXCEPT ![d] = NoDir]
DelTreeFails(d) == \E p \in Residue(d) : dir' = [dir EXCEPT ![d] = p]

\* Both keys name {app}: what tells one install from another is the file there.
HasCoherentPriorInstallOwnership == reg # None /\ "uninstaller" \in dir["app"].files
HasOwnedNewUninstaller           == reg # None /\ "uninstaller" \in dir["app"].files

-----------------------------------------------------------------------------
(* PrepareToInstall. *)

Launch == /\ pc = "idle" /\ run < MaxRuns
          /\ pc' = "prepare" /\ run' = run + 1
          /\ UNCHANGED <<sys, setup, hist, failures, crashes>>

\* Consent arguments that do not parse, or the operator cancels the close gate.
Refuse == pc = "prepare" /\ EndRun /\ Fine /\ UNCHANGED <<sys, hist>>

Inspect ==
  /\ pc = "prepare" /\ Fine /\ UNCHANGED <<sys, hist>>
  /\ \/ /\ Present("failed") \/ (Present("app") /\ (Present("old") \/ ~HasCoherentPriorInstallOwnership))
        /\ EndRun
     \/ /\ ~Present("failed") /\ ~Present("app")
        /\ pc' = "copy" /\ prior' = reg /\ UNCHANGED <<evac, owned, run, crashes>>
     \/ /\ ~Present("failed") /\ Present("app") /\ ~Present("old")
        /\ HasCoherentPriorInstallOwnership
        /\ pc' = "export" /\ prior' = reg /\ UNCHANGED <<evac, owned, run, crashes>>

\* reg.exe export /y, overwriting an older snapshot; a failure deletes the file.
Export ==
  /\ pc = "export" /\ UNCHANGED <<dir, reg, deleting, hist>>
  /\ \/ Fine /\ snap' = reg /\ Go("evacuate")
     \/ Fails /\ snap' = None /\ EndRun

Evacuate ==
  /\ pc = "evacuate" /\ UNCHANGED <<reg, deleting, torn>>
  /\ \/ /\ Fine /\ Rename("app", "old")
        /\ taken' = [app |-> dir["app"], reg |-> snap]
        /\ good' = dir["app"].ver
        /\ pc' = "copy" /\ evac' = TRUE /\ UNCHANGED <<owned, prior, run, crashes, snap>>
     \/ Fails /\ snap' = None /\ EndRun /\ UNCHANGED <<dir, taken, good>>

-----------------------------------------------------------------------------
(* Inno Setup itself: copying, registering, and its own undo. *)

NativeCopy ==
  /\ pc = "copy" /\ Fine
  /\ dir' = [dir EXCEPT !["app"] = Whole(New)]
  /\ Go("register") /\ UNCHANGED <<reg, snap, deleting, hist>>

NativeRegister ==
  /\ pc = "register" /\ Fine
  /\ reg' = New
  /\ Go("commit") /\ UNCHANGED <<dir, snap, deleting, hist>>

\* An error, or the user cancels: what was copied is undone, perhaps not all.
NativeAbort ==
  /\ pc \in {"copy", "register"} /\ Fails
  /\ \E p \in {NoDir} \union [ver : {New}, files : SUBSET Files] : dir' = [dir EXCEPT !["app"] = p]
  /\ Go("deinit") /\ UNCHANGED <<reg, snap, deleting, hist>>

-----------------------------------------------------------------------------
(* CurStepChanged(ssPostInstall). *)

Commit ==
  /\ pc = "commit" /\ UNCHANGED <<reg, snap, deleting>>
  /\ \/ /\ ~evac /\ Fine
        /\ good' = New
        /\ EndRun /\ UNCHANGED <<dir, taken, torn>>
     \/ /\ evac /\ Fine /\ DelTree("old")
        /\ good' = New
        /\ Go("forget") /\ UNCHANGED <<taken, torn>>
     \/ /\ evac /\ Fails /\ DelTreeFails("old")
        /\ torn' = (torn \/ dir' # dir)
        /\ Go("deinit") /\ UNCHANGED <<taken, good>>

\* The snapshot goes only after {app}.old; DeleteFile's result is not looked at.
\* The assistance that follows is never fatal and touches none of this.
ForgetSnapshot ==
  /\ pc = "forget" /\ UNCHANGED <<dir, reg, deleting, hist>>
  /\ (Fine /\ snap' = None) \/ (Fails /\ UNCHANGED snap)
  /\ EndRun

-----------------------------------------------------------------------------
(* DeinitializeSetup and RestoreEvacuatedPriorInstall. *)

DeinitializeSetup ==
  /\ pc = "deinit" /\ Fine /\ UNCHANGED <<sys, hist>>
  /\ (evac /\ Go("uninstall")) \/ (~evac /\ EndRun)

\* Step 1: the uninstaller's exit is checked, but a failure does not stop the
\* rollback.  It removes the key; its second phase goes on after it returns.
RunUninstaller ==
  /\ pc = "uninstall" /\ UNCHANGED <<dir, snap, hist>>
  /\ \/ ~HasOwnedNewUninstaller /\ Fine /\ Go("quarantine") /\ UNCHANGED <<reg, deleting>>
     \/ HasOwnedNewUninstaller /\ Fine /\ reg' = None /\ deleting' = TRUE /\ Go("wait")
     \/ HasOwnedNewUninstaller /\ Fails /\ Go("quarantine") /\ UNCHANGED <<reg, deleting>>

\* The second phase ends: {app} is gone, or part of it could not be deleted.
UninstallerDeletes ==
  /\ deleting /\ deleting' = FALSE
  /\ (Fine /\ DelTree("app")) \/ (Fails /\ DelTreeFails("app"))
  /\ UNCHANGED <<reg, snap, setup, hist, pc, run, crashes>>

\* Mutant: the rollback goes on when the budget is spent.
AwaitCleanup_goes_on == pc = "wait" /\ Fine /\ UNCHANGED <<sys, hist>> /\ Go("quarantine")

\* Step 1b: within the budget {app} disappears, or the rollback stops here.
AwaitCleanup ==
  /\ pc = "wait" /\ Fine /\ UNCHANGED <<sys, hist>>
  /\ (~Present("app") /\ Go("quarantine")) \/ (Present("app") /\ EndRun)

\* Step 2: what is left of the new program moves to {app}.failed.  The rollback
\* runs once in a process, so no quarantine of its own can be there before.
Quarantine ==
  /\ pc = "quarantine" /\ UNCHANGED <<reg, snap, deleting, hist>>
  /\ \/ ~Present("app") /\ Fine /\ Go("restore") /\ UNCHANGED dir
     \/ /\ Fine /\ Rename("app", "failed")
        /\ pc' = "restore" /\ owned' = TRUE /\ UNCHANGED <<evac, prior, run, crashes>>
     \/ Present("app") /\ Fails /\ EndRun /\ UNCHANGED dir

\* Mutant: step 4 before step 3, the registration ahead of its program.
RestorePrior_registry_first ==
  /\ pc = "restore" /\ UNCHANGED <<deleting, hist>>
  /\ reg' = snap /\ UNCHANGED snap
  /\ \/ Fine /\ Rename("old", "app") /\ Go("clear")
     \/ /\ Fails /\ EndRun
        /\ (owned /\ Rename("failed", "app")) \/ UNCHANGED dir

\* Step 3: the prior program comes back; if not, the quarantine is undone.
RestorePrior ==
  /\ pc = "restore" /\ UNCHANGED <<reg, snap, deleting, hist>>
  /\ \/ Fine /\ Rename("old", "app") /\ Go("clear")
     \/ /\ Fails /\ EndRun
        /\ (owned /\ Rename("failed", "app")) \/ UNCHANGED dir

ClearQuarantine ==
  /\ pc = "clear" /\ UNCHANGED <<reg, snap, deleting, hist>>
  /\ \/ /\ Fine
        /\ (owned /\ DelTree("failed")) \/ (~owned /\ UNCHANGED dir)
        /\ pc' = "import" /\ owned' = FALSE /\ evac' = FALSE /\ UNCHANGED <<prior, run, crashes>>
     \/ owned /\ Fails /\ DelTreeFails("failed") /\ EndRun

\* Step 4: the prior registration follows its program.
ImportRegistry ==
  /\ pc = "import" /\ UNCHANGED <<dir, deleting, hist>> /\ EndRun
  /\ \/ Fine /\ prior # None /\ reg' = snap /\ snap' = None
     \/ Fails /\ UNCHANGED <<reg, snap>>

-----------------------------------------------------------------------------
(* Setup is killed; the user uninstalls the installed program. *)

Crash == /\ pc # "idle" /\ crashes < MaxCrashes
         /\ pc' = "idle" /\ evac' = FALSE /\ owned' = FALSE /\ prior' = None
         /\ crashes' = crashes + 1
         /\ UNCHANGED <<sys, hist, run, failures>>

UserUninstalls ==
  /\ pc = "idle" /\ ~deleting /\ HasOwnedNewUninstaller
  /\ reg' = None /\ DelTree("app")
  /\ good' = IF good = dir["app"].ver THEN None ELSE good
  /\ UNCHANGED <<snap, deleting, setup, taken, torn, pc, run, failures, crashes>>

Next == \/ Launch \/ Refuse \/ Inspect \/ Export \/ Evacuate
        \/ NativeCopy \/ NativeRegister \/ NativeAbort
        \/ Commit \/ ForgetSnapshot
        \/ DeinitializeSetup \/ RunUninstaller \/ AwaitCleanup \/ Quarantine
        \/ RestorePrior \/ ClearQuarantine \/ ImportRegistry
        \/ UninstallerDeletes \/ Crash \/ UserUninstalls

Spec == Init /\ [][Next]_vars

-----------------------------------------------------------------------------
(* Properties. *)

\* The program the user had (accepted by PrepareToInstall or committed) is
\* complete in {app} or {app}.old at every instant, whatever fails or is
\* killed, unless the deletion at the commit removed part of it; and as long as
\* {app}.old exists, it is the evacuated program and {app}.old.reg is the
\* registration it had, also when later Setups have come and gone: the two can
\* be put back by hand.
PriorRecoverable ==
  ~torn => /\ good # None => \E d \in {"app", "old"} : dir[d] = Whole(good)
           /\ Present("old") => dir["old"] = taken.app /\ snap = taken.reg

\* Apart from Inno's own registration, the key is written only when the
\* evacuated program is back in {app}, and then with the value it had.
ReadvertisedAfterRestore ==
  [][pc # "register" /\ reg' \notin {reg, None} =>
        reg' = taken.reg /\ (torn \/ dir'["app"] = taken.app)]_vars

\* "a cleanup failure is fatal and preserves the recovery state": a complete
\* program is on the disk as long as the user has not uninstalled it.
SomeProgramSurvives == good # None => \E d \in Dirs : dir[d].files = Files

-----------------------------------------------------------------------------
(* The inductive invariant behind the first two. *)

Typed ==
  /\ dir \in [Dirs -> Payload]
  /\ \A d \in Dirs : dir[d].ver = None => dir[d] = NoDir
  /\ {reg, snap, good} \subseteq Versions \union {None}
  /\ run \in 0 .. MaxRuns
  /\ {deleting, evac, owned, torn} \subseteq BOOLEAN

\* While {app} belongs to the new program.
Replacing == {"copy", "register", "commit", "deinit", "uninstall", "wait", "quarantine", "restore"}

Staged ==
  /\ pc \in {"idle", "prepare", "export", "evacuate"} => ~evac
  /\ pc \in {"export", "evacuate"} => ~Present("old") /\ HasCoherentPriorInstallOwnership
  /\ pc = "evacuate" => snap = reg
  /\ pc \in {"register", "commit"} => dir["app"] = Whole(New)
  /\ pc \in Replacing /\ evac => Present("old")
  /\ pc = "forget" => ~Present("old")
  /\ pc \in {"uninstall", "wait", "quarantine", "restore"} => evac
  /\ deleting => Present("app") /\ Present("old") /\ pc \in {"idle", "prepare", "wait"}

\* The snapshot stays that of the evacuated program until both are back.
Kept ==
  /\ Present("old") => snap = taken.reg /\ (torn \/ dir["old"] = taken.app)
  /\ pc \in {"clear", "import"} =>
       ~Present("old") /\ snap = taken.reg /\ (torn \/ dir["app"] = taken.app)

\* While {app} is written or deleted the good program is in {app}.old; and
\* nothing but a whole program is registered once {app}.old has gone.
Shielded == ~torn =>
  /\ good # None => \E d \in {"app", "old"} : dir[d] = Whole(good)
  /\ good # None /\ (pc \in Replacing \/ deleting) => dir["old"] = Whole(good)
  /\ Present("old") => \E v \in Versions : dir["old"] = Whole(v)
  /\ ~Present("old") /\ reg # None => \E v \in Versions : dir["app"] = Whole(v)
  /\ ~Present("old") /\ pc \in {"copy", "register"} => reg = None
  /\ pc \in {"clear", "import"} => \E v \in Versions : dir["app"] = Whole(v)

IInv == Typed /\ Staged /\ Kept /\ Shielded

=============================================================================
