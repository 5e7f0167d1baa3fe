---------------------- MODULE InstallerTransaction_proof ----------------------
(***************************************************************************)
(* Theorems about InstallerTransaction, for any number of Setups, failing  *)
(* calls and crashes, and about UserPath, the assist that Setup runs.      *)
(***************************************************************************)
EXTENDS InstallerTransaction, UserPath, SequenceTheorems, TLAPS

(* A directory is gone, or part of it is left. *)
LEMMA TreeDeleted ==
  ASSUME Typed, NEW d \in Dirs, DelTree(d) \/ DelTreeFails(d)
  PROVE  /\ dir' \in [Dirs -> Payload]
         /\ \A e \in Dirs : dir'[e].ver = None => dir'[e] = NoDir
         /\ \A e \in Dirs \ {d} : dir'[e] = dir[e]
         /\ DelTreeFails(d) => dir'[d].ver = dir[d].ver
<1> USE DEF Typed, Payload, NoDir, Residue, None
<1>1. CASE DelTree(d)
  <2>1. NoDir \in Payload
    BY DEF Versions, Files
  <2>2. dir' = [dir EXCEPT ![d] = NoDir]
    BY ONLY <1>1 DEF DelTree
  <2>3. DelTreeFails(d) => dir'[d].ver = dir[d].ver
    BY DEF DelTreeFails
  <2>. QED BY <2>1, <2>2, <2>3
<1>2. CASE DelTreeFails(d)
  <2>1. PICK fs \in SUBSET dir[d].files : dir' = [dir EXCEPT ![d] = [ver |-> dir[d].ver, files |-> fs]]
    BY ONLY <1>2 DEF DelTreeFails, Residue
  <2>2. [ver |-> dir[d].ver, files |-> fs] \in Payload
    OBVIOUS
  <2>3. dir[d].ver = None => dir[d].files = {}
    OBVIOUS
  <2>. QED BY <2>1, <2>2, <2>3
<1>. QED BY <1>1, <1>2

(* The variables keep their types. *)
LEMMA TypedStep ==
  ASSUME IInv, [Next]_vars
  PROVE  Typed'
<1> USE BoundsAssumption DEF Versions, Dirs, Files, Payload, NoDir, Whole, Present, New, None, Go, Fine, Fails, sys, setup, hist, HasCoherentPriorInstallOwnership, HasOwnedNewUninstaller, Typed
<1>1. ASSUME Launch PROVE Typed'
  BY <1>1 DEF IInv, Launch
<1>2. ASSUME Refuse PROVE Typed'
  BY <1>2 DEF IInv, Refuse, EndRun
<1>3. ASSUME Inspect PROVE Typed'
  BY <1>3 DEF IInv, Inspect, EndRun
<1>4. ASSUME Export PROVE Typed'
  BY <1>4 DEF IInv, Export, EndRun
<1>5. ASSUME Evacuate PROVE Typed'
  <2>1. dir' \in [Dirs -> Payload] /\ \A d \in Dirs : dir'[d].ver = None => dir'[d] = NoDir
    BY <1>5 DEF IInv, Evacuate, Rename
  <2>2. good' = good \/ good' = dir["app"].ver
    BY ONLY <1>5 DEF Evacuate
  <2>3. dir["app"] \in Payload
    BY DEF IInv
  <2>. QED BY <1>5, <2>1, <2>2, <2>3 DEF IInv, Evacuate, EndRun
<1>6. ASSUME NativeCopy PROVE Typed'
  BY <1>6 DEF IInv, NativeCopy
<1>7. ASSUME NativeRegister PROVE Typed'
  BY <1>7 DEF IInv, NativeRegister
<1>8. ASSUME NativeAbort PROVE Typed'
  BY <1>8 DEF IInv, NativeAbort
<1>9. ASSUME Commit PROVE Typed'
  <2>1. (dir' = dir \/ DelTree("old") \/ DelTreeFails("old")) /\ torn' \in BOOLEAN
    BY ONLY <1>9, IInv DEF Commit, IInv, Typed
  <2>2. dir' \in [Dirs -> Payload] /\ \A d \in Dirs : dir'[d].ver = None => dir'[d] = NoDir
    BY <2>1, TreeDeleted DEF IInv
  <2>3. New \in Versions
    BY DEF IInv
  <2>. QED BY <1>9, <2>1, <2>2, <2>3 DEF IInv, Commit, EndRun
<1>10. ASSUME ForgetSnapshot PROVE Typed'
  BY <1>10 DEF IInv, ForgetSnapshot, EndRun
<1>11. ASSUME DeinitializeSetup PROVE Typed'
  BY <1>11 DEF IInv, DeinitializeSetup, EndRun
<1>12. ASSUME RunUninstaller PROVE Typed'
  BY <1>12 DEF IInv, RunUninstaller
<1>13. ASSUME AwaitCleanup PROVE Typed'
  BY <1>13 DEF IInv, AwaitCleanup, EndRun
<1>14. ASSUME Quarantine PROVE Typed'
  BY <1>14 DEF IInv, Quarantine, EndRun, Rename
<1>15. ASSUME RestorePrior PROVE Typed'
  BY <1>15 DEF IInv, RestorePrior, EndRun, Rename
<1>16. ASSUME ClearQuarantine PROVE Typed'
  <2>1. dir' = dir \/ DelTree("failed") \/ DelTreeFails("failed")
    BY ONLY <1>16 DEF ClearQuarantine
  <2>2. dir' \in [Dirs -> Payload] /\ \A d \in Dirs : dir'[d].ver = None => dir'[d] = NoDir
    BY <2>1, TreeDeleted DEF IInv
  <2>. QED BY <1>16, <2>2 DEF IInv, ClearQuarantine, EndRun
<1>17. ASSUME ImportRegistry PROVE Typed'
  BY <1>17 DEF IInv, ImportRegistry, EndRun
<1>18. ASSUME UninstallerDeletes PROVE Typed'
  <2>1. dir' \in [Dirs -> Payload] /\ \A d \in Dirs : dir'[d].ver = None => dir'[d] = NoDir
    BY <1>18, TreeDeleted DEF IInv, UninstallerDeletes
  <2>. QED BY <1>18, <2>1 DEF IInv, UninstallerDeletes
<1>19. ASSUME Crash PROVE Typed'
  BY <1>19 DEF IInv, Crash
<1>20. ASSUME UserUninstalls PROVE Typed'
  BY <1>20 DEF IInv, UserUninstalls, DelTree
<1>21. ASSUME UNCHANGED vars PROVE Typed'
  BY <1>21 DEF IInv, vars
<1>22. CASE Launch \/ Refuse \/ Inspect \/ Export \/ Evacuate
               \/ NativeCopy \/ NativeRegister \/ NativeAbort \/ Commit \/ ForgetSnapshot
  BY ONLY <1>22, <1>1, <1>2, <1>3, <1>4, <1>5, <1>6, <1>7, <1>8, <1>9, <1>10
<1>. QED BY ONLY [Next]_vars, <1>11, <1>12, <1>13, <1>14, <1>15, <1>16, <1>17, <1>18, <1>19, <1>20, <1>21, <1>22 DEF Next

(* What holds at each stage of a Setup. *)
LEMMA StagedStep ==
  ASSUME IInv, [Next]_vars
  PROVE  Staged'
<1> USE BoundsAssumption DEF Versions, Dirs, Files, Payload, NoDir, Whole, Present, New, None, Go, Fine, Fails, sys, setup, hist, HasCoherentPriorInstallOwnership, HasOwnedNewUninstaller, Typed, Staged, Replacing
<1>1. ASSUME Launch PROVE Staged'
  BY <1>1 DEF IInv, Launch
<1>2. ASSUME Refuse PROVE Staged'
  BY <1>2 DEF IInv, Refuse, EndRun
<1>3. ASSUME Inspect PROVE Staged'
  BY <1>3 DEF IInv, Inspect, EndRun
<1>4. ASSUME Export PROVE Staged'
  BY <1>4 DEF IInv, Export, EndRun
<1>5. ASSUME Evacuate PROVE Staged'
  BY <1>5 DEF IInv, Evacuate, EndRun, Rename
<1>6. ASSUME NativeCopy PROVE Staged'
  BY <1>6 DEF IInv, NativeCopy
<1>7. ASSUME NativeRegister PROVE Staged'
  BY <1>7 DEF IInv, NativeRegister
<1>8. ASSUME NativeAbort PROVE Staged'
  BY <1>8 DEF IInv, NativeAbort
<1>9. ASSUME Commit PROVE Staged'
  <2>1. pc' \in {"idle", "forget", "deinit"} /\ UNCHANGED <<run, deleting>> /\ pc = "commit"
    BY ONLY <1>9 DEF Commit, EndRun, Go
  <2>2. pc' = "idle" => ~evac'
    BY ONLY <1>9 DEF Commit, EndRun, Go
  <2>3. pc' = "forget" => dir'["old"] = NoDir
    BY <1>9 DEF IInv, Commit, EndRun, DelTree
  <2>4. pc' = "deinit" /\ evac' => evac /\ DelTreeFails("old")
    BY ONLY <1>9 DEF Commit, EndRun, Go, setup
  <2>5. evac => Present("old")
    BY <2>1 DEF IInv
  <2>6. pc' = "deinit" /\ evac' => Present("old")'
    BY <2>4, <2>5, TreeDeleted DEF IInv
  <2>. QED BY <2>1, <2>2, <2>3, <2>6 DEF IInv
<1>10. ASSUME ForgetSnapshot PROVE Staged'
  BY <1>10 DEF IInv, ForgetSnapshot, EndRun
<1>11. ASSUME DeinitializeSetup PROVE Staged'
  BY <1>11 DEF IInv, DeinitializeSetup, EndRun
<1>12. ASSUME RunUninstaller PROVE Staged'
  <2>1. UNCHANGED <<dir, snap, evac, run>> /\ pc = "uninstall" /\ pc' \in {"wait", "quarantine"}
    BY ONLY <1>12 DEF RunUninstaller, Go, setup
  <2>2. deleting' = deleting \/ (HasOwnedNewUninstaller /\ pc' = "wait")
    BY ONLY <1>12 DEF RunUninstaller, Go
  <2>3. HasOwnedNewUninstaller => Present("app")
    BY DEF IInv
  <2>. QED BY <2>1, <2>2, <2>3 DEF IInv
<1>13. ASSUME AwaitCleanup PROVE Staged'
  BY <1>13 DEF IInv, AwaitCleanup, EndRun
<1>14. ASSUME Quarantine PROVE Staged'
  BY <1>14 DEF IInv, Quarantine, EndRun, Rename
<1>15. ASSUME RestorePrior PROVE Staged'
  BY <1>15 DEF IInv, RestorePrior, EndRun, Rename
<1>16. ASSUME ClearQuarantine PROVE Staged'
  BY <1>16 DEF IInv, ClearQuarantine, EndRun, DelTree, DelTreeFails, Residue
<1>17. ASSUME ImportRegistry PROVE Staged'
  BY <1>17 DEF IInv, ImportRegistry, EndRun
<1>18. ASSUME UninstallerDeletes PROVE Staged'
  BY <1>18 DEF IInv, UninstallerDeletes, DelTree, DelTreeFails, Residue
<1>19. ASSUME Crash PROVE Staged'
  BY <1>19 DEF IInv, Crash
<1>20. ASSUME UserUninstalls PROVE Staged'
  BY <1>20 DEF IInv, UserUninstalls, DelTree
<1>21. ASSUME UNCHANGED vars PROVE Staged'
  BY <1>21 DEF IInv, vars
<1>22. CASE Launch \/ Refuse \/ Inspect \/ Export \/ Evacuate
               \/ NativeCopy \/ NativeRegister \/ NativeAbort \/ Commit \/ ForgetSnapshot
  BY ONLY <1>22, <1>1, <1>2, <1>3, <1>4, <1>5, <1>6, <1>7, <1>8, <1>9, <1>10
<1>. QED BY ONLY [Next]_vars, <1>11, <1>12, <1>13, <1>14, <1>15, <1>16, <1>17, <1>18, <1>19, <1>20, <1>21, <1>22 DEF Next

(* The snapshot is that of the evacuated program. *)
LEMMA KeptStep ==
  ASSUME IInv, [Next]_vars
  PROVE  Kept'
<1> USE BoundsAssumption DEF Versions, Dirs, Files, Payload, NoDir, Whole, Present, New, None, Go, Fine, Fails, sys, setup, hist, HasCoherentPriorInstallOwnership, HasOwnedNewUninstaller, Typed, Staged, Kept, Replacing
<1>1. ASSUME Launch PROVE Kept'
  BY <1>1 DEF IInv, Launch
<1>2. ASSUME Refuse PROVE Kept'
  BY <1>2 DEF IInv, Refuse, EndRun
<1>3. ASSUME Inspect PROVE Kept'
  BY <1>3 DEF IInv, Inspect, EndRun
<1>4. ASSUME Export PROVE Kept'
  BY <1>4 DEF IInv, Export, EndRun
<1>5. ASSUME Evacuate PROVE Kept'
  BY <1>5 DEF IInv, Evacuate, EndRun, Rename
<1>6. ASSUME NativeCopy PROVE Kept'
  BY <1>6 DEF IInv, NativeCopy
<1>7. ASSUME NativeRegister PROVE Kept'
  BY <1>7 DEF IInv, NativeRegister
<1>8. ASSUME NativeAbort PROVE Kept'
  BY <1>8 DEF IInv, NativeAbort
<1>9. ASSUME Commit PROVE Kept'
  BY <1>9 DEF IInv, Commit, EndRun, DelTree, DelTreeFails, Residue
<1>10. ASSUME ForgetSnapshot PROVE Kept'
  BY <1>10 DEF IInv, ForgetSnapshot, EndRun
<1>11. ASSUME DeinitializeSetup PROVE Kept'
  BY <1>11 DEF IInv, DeinitializeSetup, EndRun
<1>12. ASSUME RunUninstaller PROVE Kept'
  BY <1>12 DEF IInv, RunUninstaller
<1>13. ASSUME AwaitCleanup PROVE Kept'
  BY <1>13 DEF IInv, AwaitCleanup, EndRun
<1>14. ASSUME Quarantine PROVE Kept'
  BY <1>14 DEF IInv, Quarantine, EndRun, Rename
<1>15. ASSUME RestorePrior PROVE Kept'
  BY <1>15 DEF IInv, RestorePrior, EndRun, Rename
<1>16. ASSUME ClearQuarantine PROVE Kept'
  BY <1>16 DEF IInv, ClearQuarantine, EndRun, DelTree, DelTreeFails, Residue
<1>17. ASSUME ImportRegistry PROVE Kept'
  BY <1>17 DEF IInv, ImportRegistry, EndRun
<1>18. ASSUME UninstallerDeletes PROVE Kept'
  BY <1>18 DEF IInv, UninstallerDeletes, DelTree, DelTreeFails, Residue
<1>19. ASSUME Crash PROVE Kept'
  BY <1>19 DEF IInv, Crash
<1>20. ASSUME UserUninstalls PROVE Kept'
  BY <1>20 DEF IInv, UserUninstalls, DelTree
<1>21. ASSUME UNCHANGED vars PROVE Kept'
  BY <1>21 DEF IInv, vars
<1>22. CASE Launch \/ Refuse \/ Inspect \/ Export \/ Evacuate
               \/ NativeCopy \/ NativeRegister \/ NativeAbort \/ Commit \/ ForgetSnapshot
  BY ONLY <1>22, <1>1, <1>2, <1>3, <1>4, <1>5, <1>6, <1>7, <1>8, <1>9, <1>10
<1>. QED BY ONLY [Next]_vars, <1>11, <1>12, <1>13, <1>14, <1>15, <1>16, <1>17, <1>18, <1>19, <1>20, <1>21, <1>22 DEF Next

(* The good program is out of the way of what writes and deletes. *)
LEMMA ShieldedStep ==
  ASSUME IInv, [Next]_vars
  PROVE  Shielded'
<1> USE BoundsAssumption DEF Versions, Dirs, Files, Payload, NoDir, Whole, Present, New, None, Go, Fine, Fails, sys, setup, hist, HasCoherentPriorInstallOwnership, HasOwnedNewUninstaller, Typed, Staged, Kept, Replacing
<1>1. ASSUME Launch PROVE Shielded'
  BY <1>1 DEF IInv, Shielded, Launch
<1>2. ASSUME Refuse PROVE Shielded'
  BY <1>2 DEF IInv, Shielded, Refuse, EndRun
<1>3. ASSUME Inspect PROVE Shielded'
  BY <1>3 DEF IInv, Shielded, Inspect, EndRun
<1>4. ASSUME Export PROVE Shielded'
  BY <1>4 DEF IInv, Shielded, Export, EndRun
<1>5. ASSUME Evacuate PROVE Shielded'
  <2>1. CASE pc' = "copy"
    <3>1. ~torn => \E v \in Versions : dir["app"] = Whole(v)
      BY <1>5 DEF IInv, Shielded, Evacuate
    <3>2. dir'["old"] = dir["app"] /\ good' = dir["app"].ver /\ torn' = torn /\ Present("app")
      BY <1>5, <2>1 DEF IInv, Shielded, Evacuate, Rename, EndRun
    <3>3. ~torn => dir'["old"] = Whole(good') /\ \E v \in Versions : dir'["old"] = Whole(v)
      <4> SUFFICES ASSUME ~torn
                   PROVE  dir'["old"] = Whole(good') /\ \E v \in Versions : dir'["old"] = Whole(v)
        OBVIOUS
      <4>1. PICK v \in Versions : dir["app"] = Whole(v)
        BY ONLY <3>1, ~torn
      <4>2. dir["app"].ver = v
        BY ONLY <4>1 DEF Whole
      <4>. QED BY ONLY <3>2, <4>1, <4>2
    <3>4. dir'["old"] # NoDir
      BY ONLY <3>2 DEF Present
    <3>5. pc' \notin {"clear", "import"}
      BY <2>1
    <3>. QED BY ONLY <3>2, <3>3, <3>4, <3>5 DEF Shielded, Present
  <2>2. CASE pc' = "idle"
    BY <1>5, <2>2 DEF IInv, Shielded, Evacuate, EndRun
  <2>. QED BY ONLY <1>5, <2>1, <2>2 DEF Evacuate, EndRun
<1>6. ASSUME NativeCopy PROVE Shielded'
  BY <1>6 DEF IInv, Shielded, NativeCopy
<1>7. ASSUME NativeRegister PROVE Shielded'
  BY <1>7 DEF IInv, Shielded, NativeRegister
<1>8. ASSUME NativeAbort PROVE Shielded'
  BY <1>8 DEF IInv, Shielded, NativeAbort
<1>9. ASSUME Commit PROVE Shielded'
  <2>1. dir["app"] = Whole(New) /\ New \in Versions /\ ~deleting
    BY <1>9 DEF IInv, Shielded, Commit
  <2>2. dir'["app"] = Whole(New) /\ run' = run /\ deleting' = deleting
    BY <1>9, <2>1, TreeDeleted DEF IInv, Shielded, Commit, EndRun
  <2>3. CASE evac /\ DelTree("old") /\ good' = New /\ pc' = "forget"
    BY <2>1, <2>2, <2>3 DEF DelTree, IInv, Shielded
  <2>4. CASE pc' = "idle" /\ dir' = dir /\ good' = New /\ torn' = torn /\ reg' = reg
    BY <2>1, <2>2, <2>4 DEF IInv, Shielded
  <2>5. CASE pc' = "deinit" /\ good' = good /\ torn' = (torn \/ dir' # dir) /\ reg' = reg
    <3>1. ~torn' => ~torn /\ dir' = dir
      BY <2>5
    <3>. QED BY <1>9, <2>1, <2>2, <2>5, <3>1 DEF IInv, Shielded, Commit
  <2>. QED BY ONLY <1>9, <2>3, <2>4, <2>5 DEF Commit, EndRun, Go
<1>10. ASSUME ForgetSnapshot PROVE Shielded'
  BY <1>10 DEF IInv, Shielded, ForgetSnapshot, EndRun
<1>11. ASSUME DeinitializeSetup PROVE Shielded'
  BY <1>11 DEF IInv, Shielded, DeinitializeSetup, EndRun
<1>12. ASSUME RunUninstaller PROVE Shielded'
  BY <1>12 DEF IInv, Shielded, RunUninstaller
<1>13. ASSUME AwaitCleanup PROVE Shielded'
  BY <1>13 DEF IInv, Shielded, AwaitCleanup, EndRun
<1>14. ASSUME Quarantine PROVE Shielded'
  BY <1>14 DEF IInv, Shielded, Quarantine, EndRun, Rename
<1>15. ASSUME RestorePrior PROVE Shielded'
  BY <1>15 DEF IInv, Shielded, RestorePrior, EndRun, Rename
<1>16. ASSUME ClearQuarantine PROVE Shielded'
  BY <1>16 DEF IInv, Shielded, ClearQuarantine, EndRun, DelTree, DelTreeFails, Residue
<1>17. ASSUME ImportRegistry PROVE Shielded'
  BY <1>17 DEF IInv, Shielded, ImportRegistry, EndRun
<1>18. ASSUME UninstallerDeletes PROVE Shielded'
  BY <1>18 DEF IInv, Shielded, UninstallerDeletes, DelTree, DelTreeFails, Residue
<1>19. ASSUME Crash PROVE Shielded'
  BY <1>19 DEF IInv, Shielded, Crash
<1>20. ASSUME UserUninstalls PROVE Shielded'
  BY <1>20 DEF IInv, Shielded, UserUninstalls, DelTree
<1>21. ASSUME UNCHANGED vars PROVE Shielded'
  BY <1>21 DEF IInv, Shielded, vars
<1>22. CASE Launch \/ Refuse \/ Inspect \/ Export \/ Evacuate
               \/ NativeCopy \/ NativeRegister \/ NativeAbort \/ Commit \/ ForgetSnapshot
  BY ONLY <1>22, <1>1, <1>2, <1>3, <1>4, <1>5, <1>6, <1>7, <1>8, <1>9, <1>10
<1>. QED BY ONLY [Next]_vars, <1>11, <1>12, <1>13, <1>14, <1>15, <1>16, <1>17, <1>18, <1>19, <1>20, <1>21, <1>22 DEF Next

(* The invariant holds at the start and is kept by every step. *)
THEOREM InductiveInvariant == Spec => []IInv
<1>1. Init => IInv
  <2> SUFFICES ASSUME Init PROVE IInv
    OBVIOUS
  <2> USE BoundsAssumption DEF Versions, Dirs, Files, Payload, NoDir, Whole, Present, None
  <2>1. PICK app \in {NoDir, Whole(1)}, r \in {None, 1} :
          /\ app = NoDir => r = None
          /\ dir = [d \in Dirs |-> IF d = "app" THEN app ELSE NoDir]
          /\ reg = r /\ good = r
    BY DEF Init
  <2>2. 1 \in Versions
    OBVIOUS
  <2>3. Typed
    <3>1. app \in Payload /\ NoDir \in Payload /\ (app.ver = None => app = NoDir)
      BY <2>1, <2>2
    <3>2. dir \in [Dirs -> Payload] /\ \A d \in Dirs : dir[d].ver = None => dir[d] = NoDir
      BY <2>1, <3>1
    <3>3. {reg, snap, good} \subseteq Versions \union {None}
      BY <2>1, <2>2 DEF Init
    <3>4. run \in 0 .. MaxRuns
      BY DEF Init
    <3>5. {deleting, evac, owned, torn} \subseteq BOOLEAN
      BY ONLY Init DEF Init
    <3>. QED BY ONLY <3>2, <3>3, <3>4, <3>5 DEF Typed
  <2>4. Staged /\ Kept
    BY <2>1, <2>2 DEF Init, Staged, Kept, Replacing
  <2>5. Shielded
    BY <2>1, <2>2 DEF Init, Shielded, Replacing
  <2>. QED BY <2>3, <2>4, <2>5 DEF IInv
<1>2. IInv /\ [Next]_vars => IInv'
  BY TypedStep, StagedStep, KeptStep, ShieldedStep DEF IInv
<1>. QED BY <1>1, <1>2, PTL DEF Spec

(* However often Setup is started, fails and is killed: the program the    *)
(* user had is complete in one of two directories, with its registration   *)
(* saved beside it, unless the deletion at the commit was cut short.       *)
THEOREM ProgramKept == Spec => []PriorRecoverable
<1>1. IInv => PriorRecoverable
  BY DEF IInv, Kept, Shielded, PriorRecoverable
<1>. QED BY <1>1, InductiveInvariant, PTL

(* The prior program is advertised again only when it is back in its       *)
(* place, with the value its registration had.                             *)
THEOREM RestoredThenAdvertised == Spec => ReadvertisedAfterRestore
<1>1. IInv /\ [Next]_vars => [pc # "register" /\ reg' \notin {reg, None} =>
                                reg' = taken.reg /\ (torn \/ dir'["app"] = taken.app)]_vars
  <2> SUFFICES ASSUME IInv, [Next]_vars, pc # "register", reg' \notin {reg, None}
               PROVE  reg' = taken.reg /\ (torn \/ dir'["app"] = taken.app)
    OBVIOUS
  <2>1. ImportRegistry
    BY DEF Next, Launch, Refuse, Inspect, Export, Evacuate, NativeCopy, NativeRegister, NativeAbort, Commit,
           ForgetSnapshot, DeinitializeSetup, RunUninstaller, AwaitCleanup, Quarantine, RestorePrior,
           ClearQuarantine, UninstallerDeletes, Crash, UserUninstalls, vars, sys
  <2>. QED BY <2>1 DEF ImportRegistry, IInv, Kept
<1>. QED BY <1>1, InductiveInvariant, PTL DEF Spec, ReadvertisedAfterRestore

----------------------------------------------------------------------------
(***************************************************************************)
(* The setup assist that Setup and the uninstaller run: theorems about     *)
(* UserPath, for any number of assists, requests and troubles.  First what *)
(* the operators on PATH values do; then what each kind of step makes of   *)
(* the locals of a request (Planned), of its last comparison (Compared)    *)
(* and of how far it has got (Told); the invariant; the properties.        *)
(***************************************************************************)
(* What stands for no value, or for no record, is neither.                 *)
LEMMA Apart ==
  /\ Foreign \notin Route /\ Empty \notin Route /\ Foreign # Empty
  /\ Absent # NotText /\ Absent \notin Texts /\ NotText \notin Texts
  /\ NoRecord # Garbage /\ NoRecord \notin Records /\ Garbage \notin Records
BY PathAssumption

(* Appending an element, and a route in particular.                        *)
LEMMA ExtendedText ==
  ASSUME NEW v \in Texts, NEW e \in Route \cup {Foreign, Empty}
  PROVE  /\ Extended(v, e) \in Texts
         /\ Has(Extended(v, e), e)
         /\ Extended(v, e).type = v.type
         /\ e \in Route => Fits(v, Extended(v, e))
<1> DEFINE E == Route \cup {Foreign, Empty}
           s == v.elems
           t == Append(s, e)
<1>1. s \in Seq(E) /\ s # <<>> /\ v.type \in Type /\ Len(s) \in Nat
  BY DEF Texts
<1>2. t \in Seq(E) /\ Len(t) = Len(s) + 1 /\ t[Len(t)] = e /\ \A i \in 1..Len(s) : t[i] = s[i]
  BY <1>1
<1>3. DOMAIN s = 1..Len(s) /\ DOMAIN t = 1..Len(t) /\ t # <<>>
  BY <1>1, <1>2
<1>4. Extended(v, e) = [elems |-> t, type |-> v.type]
  BY DEF Extended, Text
<1> HIDE DEF t, s, E
<1>5. Extended(v, e) \in Texts
  BY <1>1, <1>2, <1>3, <1>4 DEF Texts, E
<1>6. Has(Extended(v, e), e)
  BY <1>1, <1>2, <1>3, <1>4, <1>5, Apart DEF Has, ToSet
<1>7. ASSUME e \in Route PROVE Fits(v, Extended(v, e))
  <2>1. e # Foreign
    BY <1>7, Apart
  <2>2. {i \in DOMAIN t : t[i] = Foreign} = {i \in DOMAIN s : s[i] = Foreign}
    BY <2>1, <1>1, <1>2, <1>3
  <2>. QED BY <1>4, <1>5, <2>2, Apart DEF Fits, Theirs, s
<1>. QED BY <1>4, <1>5, <1>6, <1>7

(* Taking the last element away, and a route in particular.                *)
LEMMA ShortenedText ==
  ASSUME NEW v \in Texts
  PROVE  /\ Shortened(v) \in Texts
         /\ Shortened(v).type = v.type
         /\ Last(v.elems) \in Route => Fits(v, Shortened(v)) /\ Fits(Shortened(v), v)
<1> DEFINE E == Route \cup {Foreign, Empty}
           s == v.elems
           t == IF Len(s) = 1 THEN <<Empty>> ELSE Front(s)
<1>1. s \in Seq(E) /\ s # <<>> /\ v.type \in Type /\ Len(s) \in Nat /\ Len(s) > 0 /\ DOMAIN s = 1..Len(s)
  BY DEF Texts
<1>2. CASE Len(s) = 1
  <2>1. t = <<Empty>> /\ t \in Seq(E) /\ t # <<>> /\ DOMAIN t = {1} /\ t[1] = Empty
    BY <1>2
  <2>2. Shortened(v) = [elems |-> t, type |-> v.type]
    BY DEF Shortened, Text
  <2>3. s[1] = Last(v.elems) /\ DOMAIN s = {1}
    BY <1>1, <1>2 DEF Last
  <2> HIDE DEF t, s, E
  <2>4. Shortened(v) \in Texts
    BY <1>1, <2>1, <2>2 DEF Texts, E
  <2>5. Last(v.elems) \in Route => {i \in DOMAIN t : t[i] = Foreign} = {i \in DOMAIN s : s[i] = Foreign}
    BY <2>1, <2>3, Apart
  <2>. QED BY <2>2, <2>4, <2>5, Apart DEF Fits, Theirs, s
<1>3. CASE Len(s) # 1
  <2>1. /\ t \in Seq(E) /\ t # <<>> /\ Len(t) = Len(s) - 1 /\ DOMAIN t = 1..Len(t)
        /\ \A i \in 1..Len(t) : t[i] = s[i]
    <3>1. t = SubSeq(s, 1, Len(s) - 1)
      BY <1>3 DEF Front
    <3>2. Len(s) - 1 \in Int /\ 1 <= Len(s) - 1
      <4> HIDE DEF s, E, t
      <4>. QED BY <1>1, <1>3
    <3>4. \A i \in 1..(Len(s) - 1) : s[i] \in E
      <4> HIDE DEF s, E, t
      <4>. QED BY <1>1, <3>2
    <3>3. /\ SubSeq(s, 1, Len(s) - 1) \in Seq(E)
          /\ Len(SubSeq(s, 1, Len(s) - 1)) = Len(s) - 1
          /\ \A i \in 1..(Len(s) - 1) : SubSeq(s, 1, Len(s) - 1)[i] = s[i]
      <4> HIDE DEF s, E, t
      <4> DEFINE n == Len(s) - 1
      <4>1. n \in Int /\ n - 1 + 1 = n /\ \A i \in 1..n : s[i] \in E
        BY <3>2, <3>4
      <4> HIDE DEF n
      <4>2. /\ SubSeq(s, 1, n) \in Seq(E)
            /\ Len(SubSeq(s, 1, n)) = IF 1 <= n THEN n - 1 + 1 ELSE 0
            /\ \A i \in 1..(n - 1 + 1) : SubSeq(s, 1, n)[i] = s[1 + i - 1]
        BY <4>1, SubSeqProperties
      <4>3. \A i \in 1..n : 1 + i - 1 = i
        BY <4>1
      <4>4. 1 <= n
        BY <3>2 DEF n
      <4>5. /\ SubSeq(s, 1, n) \in Seq(E) /\ Len(SubSeq(s, 1, n)) = n
            /\ \A i \in 1..n : SubSeq(s, 1, n)[i] = s[i]
        BY <4>1, <4>2, <4>3, <4>4
      <4>. QED BY ONLY <4>5 DEF n
    <3>. QED
      <4> HIDE DEF s, E, t
      <4>1. t \in Seq(E) /\ Len(t) = Len(s) - 1 /\ \A i \in 1..(Len(s) - 1) : t[i] = s[i]
        BY <3>1, <3>3
      <4>2. t # <<>>
        BY <1>1, <3>2, <4>1
      <4>3. DOMAIN t = 1..Len(t)
        BY <4>1
      <4>. QED BY <4>1, <4>2, <4>3
  <2>2. Shortened(v) = [elems |-> t, type |-> v.type]
    BY DEF Shortened, Text
  <2>3. s[Len(s)] = Last(v.elems)
    BY DEF Last
  <2> HIDE DEF t, s, E
  <2>4. Shortened(v) \in Texts
    BY <1>1, <2>1, <2>2 DEF Texts, E
  <2>5. Last(v.elems) \in Route => {i \in DOMAIN t : t[i] = Foreign} = {i \in DOMAIN s : s[i] = Foreign}
    <3>1. SUFFICES ASSUME Last(v.elems) \in Route
                   PROVE  \A i : i \in DOMAIN t /\ t[i] = Foreign <=> i \in DOMAIN s /\ s[i] = Foreign
      OBVIOUS
    <3>2. s[Len(s)] # Foreign
      BY <3>1, <2>3, Apart
    <3>. QED BY <1>1, <2>1, <3>2
  <2>. QED BY <2>2, <2>4, <2>5, Apart DEF Fits, Theirs, s
<1>. QED BY <1>2, <1>3

(* The empty string that stands for no value has nothing of others.        *)
LEMMA SafeText ==
  ASSUME NEW v \in Values
  PROVE  /\ Safe(v) \in Texts
         /\ Theirs(Safe(v)) = Theirs(v)
         /\ v # Absent => Safe(v) = v
         /\ Safe(Safe(v)) = Safe(v)
<1>1. CASE v = Absent
  <2> DEFINE t == <<Empty>>
  <2>1. t \in Seq(Route \cup {Foreign, Empty}) /\ t # <<>> /\ DOMAIN t = {1} /\ t[1] = Empty
    OBVIOUS
  <2>2. Safe(v) = [elems |-> t, type |-> "REG_EXPAND_SZ"]
    BY <1>1 DEF Safe, Text
  <2> HIDE DEF t
  <2>3. Safe(v) \in Texts
    BY <2>1, <2>2 DEF Texts, Type
  <2>. QED BY <1>1, <2>1, <2>2, <2>3, Apart DEF Theirs, Safe
<1>2. CASE v # Absent
  BY <1>2 DEF Safe, Values
<1>. QED BY <1>1, <1>2

(* Taking any element out of a value that has more than one.               *)
LEMMA RemovedText ==
  ASSUME NEW v \in Texts, NEW i \in DOMAIN v.elems, Len(v.elems) > 1
  PROVE  Text(RemoveAt(v.elems, i), v.type) \in Texts
<1> DEFINE E == Route \cup {Foreign, Empty}
           s == v.elems
           a == SubSeq(s, 1, i - 1)
           b == SubSeq(s, i + 1, Len(s))
<1>1. s \in Seq(E) /\ v.type \in Type /\ Len(s) \in Nat /\ DOMAIN s = 1..Len(s)
  BY DEF Texts
<1>2. i \in 1..Len(s) /\ i - 1 \in Int /\ i + 1 \in Int /\ Len(s) \in Int /\ Len(s) > 1
  BY <1>1
<1> HIDE DEF s, E
<1>3. \A j \in 1..Len(s) : s[j] \in E
  BY <1>1
<1>4. \A j \in 1..(i - 1) : s[j] \in E
  BY <1>2, <1>3
<1>5. \A j \in (i + 1)..Len(s) : s[j] \in E
  BY <1>2, <1>3
<1>6. a \in Seq(E) /\ Len(a) = IF 1 <= i - 1 THEN i - 1 - 1 + 1 ELSE 0
  BY <1>2, <1>4, SubSeqProperties
<1>7. b \in Seq(E) /\ Len(b) = IF i + 1 <= Len(s) THEN Len(s) - (i + 1) + 1 ELSE 0
  BY <1>2, <1>5, SubSeqProperties
<1>8. Len(a) + Len(b) > 0
  <2>1. i - 1 >= 1 \/ i + 1 <= Len(s)
    BY <1>2
  <2> HIDE DEF a, b
  <2>2. Len(a) \in Nat /\ Len(b) \in Nat
    BY <1>6, <1>7
  <2>3. i - 1 >= 1 => Len(a) > 0
    BY <1>2, <1>6
  <2>4. i + 1 <= Len(s) => Len(b) > 0
    BY <1>2, <1>7
  <2>. QED BY <2>1, <2>2, <2>3, <2>4
<1> HIDE DEF a, b
<1>9. a \o b \in Seq(E) /\ Len(a \o b) = Len(a) + Len(b)
  BY <1>6, <1>7, ConcatProperties
<1>10. a \o b # <<>>
  BY <1>8, <1>9
<1>11. RemoveAt(v.elems, i) = a \o b
  BY DEF RemoveAt, a, b, s
<1>. QED BY <1>1, <1>9, <1>10, <1>11 DEF Text, Texts, E

(* What is read as PATH is no value or a text.                             *)
LEMMA LiveValue ==
  ASSUME path \in {NotText} \cup Values
  PROVE  /\ LivePath \in Values
         /\ path # NotText => LivePath = path
         /\ LivePath # Absent => LivePath = path
         /\ LivePath \in Texts => LivePath = path
BY Apart DEF LivePath, Values

(* Whatever others make of PATH can be read.                               *)
LEMMA EditsTyped ==
  ASSUME path \in {NotText} \cup Values
  PROVE  Edits \subseteq {NotText} \cup Values
<1>1. \A t \in Type : Text(<<Foreign>>, t) \in Texts
  BY DEF Texts, Text
<1>2. ASSUME LivePath # Absent
      PROVE  /\ \A e \in {Foreign} \cup Route : Extended(path, e) \in Texts
             /\ \A i \in DOMAIN path.elems : Len(path.elems) > 1 =>
                  Text(RemoveAt(path.elems, i), path.type) \in Texts
             /\ \A t \in Type : Text(path.elems, t) \in Texts
  <2>1. path \in Texts
    BY <1>2, LiveValue DEF LivePath, Values
  <2>2. \A t \in Type : Text(path.elems, t) \in Texts
    BY <2>1 DEF Texts, Text
  <2>3. \A e \in {Foreign} \cup Route : Extended(path, e) \in Texts
    BY <2>1, ExtendedText
  <2>4. \A i \in DOMAIN path.elems : Len(path.elems) > 1 => Text(RemoveAt(path.elems, i), path.type) \in Texts
    BY <2>1, RemovedText
  <2>. QED BY <2>2, <2>3, <2>4
<1>. QED BY <1>1, <1>2 DEF Edits, Values

(* The locals before the first request.                                    *)
LEMMA RestTyped == Rest \in Locals
<1>1. Absent \in Values
  BY DEF Values
<1>2. "idle" \in PCs /\ "none" \in Words
  BY DEF PCs, Words
<1>3. [path |-> "none", state |-> "none"] \in [path : Words, state : Words]
  BY <1>2
<1>. QED BY <1>1, <1>2, <1>3 DEF Rest, Locals

LEMMA DonePlanned ==
  ASSUME NEW r, r.pc = "idle", r.purpose = "none", r.guided = FALSE, r.op = "path-add" => r.route \in Route
  PROVE  Planned(r)
BY DEF Planned, Placed, Rechecks

(* The locals of an assist that is done.                                   *)
LEMMA EndIs ==
  ASSUME PathTyped, NEW p \in Assist, Planned(local[p]), NEW a \in Words, NEW b \in Words
  PROVE  /\ End(p, a, b) \in Locals /\ Planned(End(p, a, b))
         /\ End(p, a, b).pc = "idle" /\ End(p, a, b).purpose = "none" /\ End(p, a, b).guided = FALSE
         /\ End(p, a, b).op = local[p].op /\ End(p, a, b).route = local[p].route
         /\ End(p, a, b).said = [path |-> a, state |-> b]
<1>1. local[p] \in Locals
  BY DEF PathTyped
<1>2. /\ End(p, a, b).pc = "idle" /\ End(p, a, b).purpose = "none" /\ End(p, a, b).guided = FALSE
      /\ End(p, a, b).op = local[p].op /\ End(p, a, b).route = local[p].route
      /\ End(p, a, b).said = [path |-> a, state |-> b]
  BY DEF End, Rest
<1>3. End(p, a, b) \in Locals
  <2>1. local[p].op \in {"none", "path-add", "path-remove", "batch", "state-cleanup"}
        /\ local[p].route \in Route \cup {Empty}
    BY <1>1 DEF Locals
  <2>2. [path |-> a, state |-> b] \in [path : Words, state : Words]
    OBVIOUS
  <2>. QED BY <2>1, <2>2, RestTyped DEF End, Locals
<1>4. local[p].op = "path-add" => local[p].route \in Route
  BY DEF Planned
<1>. QED BY ONLY <1>2, <1>3, <1>4, DonePlanned

(* A compare-and-write is set up.                                          *)
LEMMA CompareAndWriteIs ==
  ASSUME PathTyped, NEW p \in Assist, NEW x \in {"add", "remove", "batch", "undo", "restore"},
         NEW expect \in Values, NEW want \in Values
  PROVE  LET r == CompareAndWrite(p, x, expect, want)
         IN /\ r \in Locals
            /\ r.pc = "compare" /\ r.purpose = x /\ r.expect = expect /\ r.want = want
            /\ r.op = local[p].op /\ r.route = local[p].route /\ r.path = local[p].path
            /\ r.record = local[p].record /\ r.guided = local[p].guided
<1>1. local[p] \in Locals
  BY DEF PathTyped
<1>2. "compare" \in PCs
  BY DEF PCs
<1>3. CompareAndWrite(p, x, expect, want) \in Locals
  BY <1>1, <1>2 DEF CompareAndWrite, Locals
<1>. QED BY <1>1, <1>3 DEF CompareAndWrite, Locals

(* A request goes on.                                                      *)
LEMMA MoveIs ==
  ASSUME PathTyped, NEW p \in Assist, NEW at \in PCs
  PROVE  LET r == Move(p, at)
         IN /\ r \in Locals
            /\ r.pc = at /\ r.purpose = local[p].purpose /\ r.expect = local[p].expect
            /\ r.want = local[p].want /\ r.op = local[p].op /\ r.route = local[p].route
            /\ r.path = local[p].path /\ r.record = local[p].record /\ r.guided = local[p].guided
<1>1. local[p] \in Locals
  BY DEF PathTyped
<1>. QED BY <1>1 DEF Move, Locals

(* A change that fits after a change that fits.                            *)
LEMMA FitsTransitive ==
  ASSUME NEW u \in Texts, NEW v \in Texts, NEW w, Fits(u, v), Fits(v, w)
  PROVE  Fits(u, w)
BY Apart DEF Fits

(* Where a request is tells what it is doing there.                        *)
LEMMA Whereabouts ==
  ASSUME PathTyped, NEW p \in Assist, Planned(local[p])
  PROVE  LET r == local[p]
         IN /\ r.pc \in {"live", "owned", "idle"} => r.purpose = "none"
            /\ r.pc = "record" => r.purpose = "add"
            /\ r.pc = "notify" => r.purpose = "batch"
            /\ r.pc \in Rechecks => r.purpose \in {"none", "batch"}
            /\ r.pc = "clear" => r.purpose \in {"none", "remove", "batch"}
            /\ r.pc \in {"compare", "write"} => r.purpose \in {"add", "remove", "batch", "undo", "restore"}
<1>1. local[p].purpose \in {"none", "add", "remove", "batch", "undo", "restore"}
  BY DEF PathTyped, Locals
<1>2. local[p].pc \in PCs
  BY DEF PathTyped, Locals
<1>3. Placed(local[p])
  BY DEF Planned
<1>. QED BY ONLY <1>1, <1>2, <1>3 DEF Placed, PCs, Rechecks

(* The values that a request has read.                                     *)
LEMMA LocalTyped ==
  ASSUME PathTyped, NEW p \in Assist
  PROVE  LET r == local[p]
         IN /\ r \in Locals
            /\ r.path \in Values /\ r.expect \in Values /\ r.want \in Values
            /\ r.record \in {NoRecord, Garbage} \cup Records
            /\ r.route \in Route \cup {Empty} /\ r.retry \in BOOLEAN /\ r.guided \in BOOLEAN
            /\ r.purpose \in {"none", "add", "remove", "batch", "undo", "restore"}
            /\ r.op \in {"none", "path-add", "path-remove", "batch", "state-cleanup"}
            /\ r.pc \in PCs
<1>1. local[p] \in Locals
  BY DEF PathTyped
<1>. QED BY <1>1 DEF Locals

(* A step of p changes the locals of p only, and the others learn of it    *)
(* when it has changed anything.                                           *)
LEMMA GotoIs ==
  ASSUME PathTyped, NEW p \in Assist, NEW l \in Locals, Goto(p, l) \/ Fault(p, l)
  PROVE  /\ local' \in [Assist -> Locals] /\ local'[p] = l
         /\ begun' = begun /\ requests' = requests /\ troubles' \in Nat
         /\ met' \in [Assist -> [others : BOOLEAN, failed : Nat]]
         /\ raced' \in [Assist -> BOOLEAN]
         /\ met'[p].others = met[p].others
         /\ Goto(p, l) => met'[p] = met[p] /\ raced'[p] = (raced[p] /\ At(p, "path-again"))
         /\ Fault(p, l) => met'[p].failed = met[p].failed + 1 /\ raced'[p] = FALSE
         /\ \A q \in Assist \ {p} :
              /\ local'[q] = local[q]
              /\ ~met'[q].others => ~met[q].others /\ shared' = shared /\ met'[q] = met[q]
              /\ ~raced'[q] => ~raced[q] /\ path' = path /\ record' = record
<1> DEFINE Notes == [others : BOOLEAN, failed : Nat]
<1>1. /\ local \in [Assist -> Locals] /\ met \in [Assist -> Notes] /\ raced \in [Assist -> BOOLEAN]
      /\ troubles \in Nat /\ met[p] \in Notes
  BY DEF PathTyped
<1>2. \A q \in Assist : Met(q) \in Notes /\ (Met(q).others \/ (Met(q) = met[q] /\ ~Disturbed))
  <2>1. SUFFICES ASSUME NEW q \in Assist
                 PROVE  Met(q) \in Notes /\ (Met(q).others \/ (Met(q) = met[q] /\ ~Disturbed))
    OBVIOUS
  <2>2. met[q] \in Notes
    BY <1>1
  <2>3. [met[q] EXCEPT !.others = TRUE] \in Notes /\ [met[q] EXCEPT !.others = TRUE].others
    BY <2>2
  <2>. QED BY ONLY <2>2, <2>3 DEF Met
<1>3. (~Disturbed => shared' = shared) /\ (~Rewritten => path' = path /\ record' = record)
  BY DEF Disturbed, Rewritten
<1>4. /\ local' = [local EXCEPT ![p] = l] /\ begun' = begun /\ requests' = requests
      /\ troubles' \in Nat
  <2>1. CASE Goto(p, l)
    BY ONLY <1>1, <2>1 DEF Goto
  <2>2. CASE Fault(p, l)
    BY ONLY <1>1, <2>2 DEF Fault
  <2>. QED BY <2>1, <2>2
<1>5. local' \in [Assist -> Locals] /\ local'[p] = l /\ \A q \in Assist \ {p} : local'[q] = local[q]
  BY ONLY <1>1, <1>4, p \in Assist, l \in Locals
<1>6. PICK m \in Notes :
        /\ met' = [q \in Assist |-> IF q = p THEN m ELSE Met(q)]
        /\ m.others = met[p].others /\ (m = met[p] \/ m.failed = met[p].failed + 1)
        /\ Goto(p, l) => m = met[p]
        /\ Fault(p, l) => m.failed = met[p].failed + 1
  <2>1. CASE Goto(p, l)
    <3>1. met' = [q \in Assist |-> IF q = p THEN met[p] ELSE Met(q)]
      BY ONLY <2>1 DEF Goto
    <3>2. Fault(p, l) => met'[p].failed = met[p].failed + 1
      <4>1. Fault(p, l) => met' = [q \in Assist |-> IF q = p THEN [met[p] EXCEPT !.failed = met[p].failed + 1] ELSE Met(q)]
        BY ONLY TRUE DEF Fault
      <4>. QED BY ONLY <4>1, <1>1, p \in Assist
    <3>3. met'[p] = met[p]
      BY ONLY <3>1, p \in Assist
    <3> HIDE DEF Notes
    <3>. QED BY ONLY <1>1, <3>1, <3>2, <3>3
  <2>2. CASE Fault(p, l) /\ ~Goto(p, l)
    <3> DEFINE m == [met[p] EXCEPT !.failed = met[p].failed + 1]
    <3>1. met' = [q \in Assist |-> IF q = p THEN m ELSE Met(q)]
      BY ONLY <2>2 DEF Fault
    <3>2. m \in Notes /\ m.others = met[p].others /\ m.failed = met[p].failed + 1
      BY ONLY <1>1, p \in Assist
    <3> HIDE DEF Notes, m
    <3>. QED BY ONLY <2>2, <3>1, <3>2
  <2>. QED BY ONLY <2>1, <2>2, Goto(p, l) \/ Fault(p, l)
<1>7. PICK c \in BOOLEAN :
        /\ raced'[p] = c
        /\ Goto(p, l) => c = (raced[p] /\ At(p, "path-again"))
        /\ Fault(p, l) => c = FALSE
        /\ raced' \in [Assist -> BOOLEAN]
        /\ \A q \in Assist \ {p} : ~raced'[q] => ~raced[q] /\ path' = path /\ record' = record
  <2>1. CASE Goto(p, l)
    <3> DEFINE c == raced[p] /\ At(p, "path-again")
    <3>1. raced' = [q \in Assist |-> IF q = p THEN c ELSE raced[q] \/ Rewritten]
      BY ONLY <2>1 DEF Goto
    <3>2. Fault(p, l) => raced'[p] = FALSE
      BY ONLY <1>1, p \in Assist DEF Fault
    <3>3. raced'[p] = c
      BY ONLY <3>1, p \in Assist
    <3>4. c \in BOOLEAN
      OBVIOUS
    <3>5. Fault(p, l) => c = FALSE
      BY ONLY <3>2, <3>3, <3>4
    <3> HIDE DEF c
    <3>6. Goto(p, l) => c = (raced[p] /\ At(p, "path-again"))
      BY DEF c
    <3>7. Rewritten \in BOOLEAN
      BY DEF Rewritten
    <3>8. raced' \in [Assist -> BOOLEAN]
      BY ONLY <3>1, <3>4, <3>7
    <3>9. \A q \in Assist \ {p} : ~raced'[q] => ~raced[q] /\ ~Rewritten
      BY ONLY <3>1
    <3>. QED BY ONLY <1>3, <3>3, <3>4, <3>5, <3>6, <3>8, <3>9
  <2>2. CASE Fault(p, l) /\ ~Goto(p, l)
    <3>1. raced' = [raced EXCEPT ![p] = FALSE] /\ path' = path /\ record' = record
      BY ONLY <2>2 DEF Fault
    <3>. QED BY ONLY <1>1, <2>2, <3>1, p \in Assist
  <2>. QED BY ONLY <2>1, <2>2, Goto(p, l) \/ Fault(p, l)
<1>. QED BY ONLY <1>2, <1>3, <1>4, <1>5, <1>6, <1>7, p \in Assist

(* The ways to be done.                                                    *)
LEMMA DoneIs ==
  ASSUME PathTyped, NEW p \in Assist, Planned(local[p]), NEW b \in Words
  PROVE  /\ EndState(p, b) = End(p, IF local[p].guided THEN "unchanged" ELSE "none", b)
         /\ EndState(p, b) \in Locals /\ Planned(EndState(p, b))
         /\ Raised(p) \in Locals /\ Planned(Raised(p))
         /\ Rest \in Locals /\ Planned(Rest)
         /\ Changed(p) \in Locals /\ Planned(Changed(p))
<1>1. {"unchanged", "none", "raised", "path-access-failed", "changed", "path-ownership-changed"} \subseteq Words
  BY DEF Words
<1>2. \A c \in Words : End(p, "unchanged", c) \in Locals /\ Planned(End(p, "unchanged", c))
  BY <1>1, EndIs
<1>3. \A c \in Words : End(p, "none", c) \in Locals /\ Planned(End(p, "none", c))
  BY <1>1, EndIs
<1>4. /\ End(p, "path-access-failed", "none") \in Locals /\ Planned(End(p, "path-access-failed", "none"))
      /\ End(p, "raised", "raised") \in Locals /\ Planned(End(p, "raised", "raised"))
      /\ End(p, "changed", "path-ownership-changed") \in Locals
      /\ Planned(End(p, "changed", "path-ownership-changed"))
  BY <1>1, EndIs
<1>5. \A c \in Words : /\ EndState(p, c) = End(p, IF local[p].guided THEN "unchanged" ELSE "none", c)
                       /\ EndState(p, c) \in Locals /\ Planned(EndState(p, c))
  BY <1>2, <1>3 DEF EndState
<1>6. Raised(p) \in Locals /\ Planned(Raised(p))
  BY <1>4 DEF Raised
<1>7. Rest.pc = "idle" /\ Rest.purpose = "none" /\ Rest.guided = FALSE /\ Rest.op = "none"
  BY DEF Rest
<1>8. Planned(Rest)
  BY <1>7, DonePlanned
<1>9. Changed(p) \in Locals /\ Planned(Changed(p))
  BY <1>1, <1>4, <1>5 DEF Changed
<1>. QED BY <1>5, <1>6, <1>8, <1>9, RestTyped

(* Setting up to write PATH with the route appended.                       *)
LEMMA AddPlanned ==
  ASSUME PathTyped, NEW p \in Assist, Planned(local[p]), local[p].op = "path-add",
         NEW v \in Texts, Fits(Safe(local[p].path), v)
  PROVE  LET l == CompareAndWrite(p, "add", local[p].path, Extended(v, local[p].route))
         IN l \in Locals /\ Planned(l)
<1> DEFINE r == local[p]
           w == Extended(v, r.route)
           l == CompareAndWrite(p, "add", r.path, w)
<1>1. r.route \in Route /\ r.guided = FALSE
  BY LocalTyped DEF Planned
<1>2. r.path \in Values /\ Safe(r.path) \in Texts
  BY LocalTyped, SafeText
<1>3. w \in Texts /\ Has(w, r.route) /\ Fits(v, w)
  BY <1>1, ExtendedText
<1>4. Fits(Safe(r.path), w)
  BY <1>2, <1>3, FitsTransitive
<1>5. w \in Values
  BY <1>3 DEF Values
<1>6. /\ l \in Locals
      /\ l.pc = "compare" /\ l.purpose = "add" /\ l.expect = r.path /\ l.want = w
      /\ l.op = r.op /\ l.route = r.route /\ l.path = r.path
      /\ l.record = r.record /\ l.guided = r.guided
  BY <1>2, <1>5, CompareAndWriteIs
<1> HIDE DEF l, w
<1>7. Planned(l)
  BY <1>1, <1>3, <1>4, <1>6 DEF Planned, Placed
<1>. QED BY <1>6, <1>7 DEF l, w

LEMMA AddWithIs ==
  ASSUME PathTyped, NEW p \in Assist, Planned(local[p]), local[p].op = "path-add",
         NEW rec \in {NoRecord, Garbage} \cup Records
  PROVE  AddWith(p, rec) \in Locals /\ Planned(AddWith(p, rec))
<1> DEFINE r == local[p]
           value == Safe(r.path)
           add(base) == CompareAndWrite(p, "add", r.path, Extended(base, r.route))
<1>1. r.path \in Values /\ value \in Texts /\ Fits(value, value)
  BY LocalTyped, SafeText DEF Fits
<1>2. /\ End(p, "path-record-invalid", "none") \in Locals /\ Planned(End(p, "path-record-invalid", "none"))
      /\ End(p, "path-ownership-changed", "none") \in Locals /\ Planned(End(p, "path-ownership-changed", "none"))
      /\ End(p, "path-correction-consent-required", "none") \in Locals
      /\ Planned(End(p, "path-correction-consent-required", "none"))
  <2>1. {"path-record-invalid", "path-ownership-changed", "path-correction-consent-required", "none"} \subseteq Words
    BY DEF Words
  <2>. QED BY <2>1, EndIs
<1>3. add(value) \in Locals /\ Planned(add(value))
  BY <1>1, AddPlanned
<1>4. ASSUME rec \in Records, r.path = rec.path, AtEnd(rec)
      PROVE  add(Shortened(value)) \in Locals /\ Planned(add(Shortened(value)))
  <2>1. r.path \in Texts /\ Last(r.path.elems) \in Route
    BY <1>4 DEF Records, AtEnd
  <2>2. value = r.path
    BY <1>1, <2>1, SafeText, Apart
  <2>3. Shortened(value) \in Texts /\ Fits(value, Shortened(value))
    BY <2>1, <2>2, ShortenedText
  <2>. QED BY <2>3, AddPlanned
<1> HIDE DEF add, value
<1>5. AddWith(p, rec) =
        IF rec = NoRecord THEN add(value)
        ELSE IF rec = Garbage THEN End(p, "path-record-invalid", "none")
        ELSE IF r.path # rec.path \/ ~AtEnd(rec) THEN End(p, "path-ownership-changed", "none")
        ELSE IF ~r.consent THEN End(p, "path-correction-consent-required", "none")
        ELSE add(Shortened(value))
  BY Apart DEF AddWith, add, value
<1>. QED BY <1>2, <1>3, <1>4, <1>5

(* A request goes on as it must: what it means to write follows from what  *)
(* it has read.                                                            *)
LEMMA PlannedStep ==
  ASSUME PathTyped, NEW p \in Assist, Planned(local[p]), Step(p), ~Begin(p)
  PROVE  /\ Shares'
         /\ local'[p] \in Locals /\ Planned(local'[p])
         /\ Goto(p, local'[p]) \/ Fault(p, local'[p])
<1> DEFINE r == local[p]
           Good(l) == l \in Locals /\ Planned(l) /\ (Goto(p, l) \/ Fault(p, l))
<1>a. Shares /\ LivePath \in Values
  BY LiveValue DEF PathTyped, Shares
<1>b. UNCHANGED shared => Shares'
  BY <1>a DEF Shares, shared
<1>c. \A l \in Locals : Goto(p, l) \/ Fault(p, l) => local'[p] = l
  BY GotoIs
<1>d. /\ r \in Locals
      /\ r.path \in Values /\ r.expect \in Values /\ r.want \in Values
      /\ r.record \in {NoRecord, Garbage} \cup Records
      /\ r.route \in Route \cup {Empty} /\ r.guided \in BOOLEAN
  BY LocalTyped
<1>e. \A a, b \in Words : End(p, a, b) \in Locals /\ Planned(End(p, a, b))
  BY EndIs
<1>f. \A b \in Words : EndState(p, b) \in Locals /\ Planned(EndState(p, b))
  BY DoneIs
<1>g. /\ Raised(p) \in Locals /\ Planned(Raised(p))
      /\ Rest \in Locals /\ Planned(Rest)
      /\ Changed(p) \in Locals /\ Planned(Changed(p))
  <2>1. "none" \in Words
    BY DEF Words
  <2>. QED BY <2>1, DoneIs
<1>h. r.op = "path-add" => r.route \in Route
  BY DEF Planned
<1>1. ASSUME AddReadPath(p) PROVE Shares' /\ \E l : Good(l)
  <2> DEFINE m == [Move(p, "owned") EXCEPT !.path = LivePath]
  <2>1. r.pc = "live" /\ r.op = "path-add" /\ r.purpose = "none" /\ r.guided = FALSE
    BY <1>1, <1>d, Whereabouts DEF AddReadPath, At, Planned
  <2>2. m \in Locals /\ m.pc = "owned" /\ m.purpose = "none" /\ m.op = "path-add" /\ m.route = r.route /\ m.guided = FALSE
    <3>1. "owned" \in PCs
      BY DEF PCs
    <3>. QED BY <2>1, <3>1, <1>a, MoveIs DEF Locals
  <2>3. Planned(m)
    BY ONLY <2>2, <1>h, <2>1 DEF Planned, Placed, Rechecks
  <2>4. End(p, "unchanged", "none") \in Locals /\ Planned(End(p, "unchanged", "none"))
    <3>1. {"unchanged", "none"} \subseteq Words
      BY DEF Words
    <3>. QED BY <3>1, <1>e
  <2> HIDE DEF m
  <2>5. UNCHANGED shared /\ (Goto(p, End(p, "unchanged", "none")) \/ Goto(p, m))
    BY <1>1 DEF AddReadPath, Read, m
  <2>. QED BY <1>b, <2>2, <2>3, <2>4, <2>5
<1>2. ASSUME AddReadRecord(p) PROVE Shares' /\ \E l : Good(l)
  <2>1. r.op = "path-add" /\ record \in {NoRecord, Garbage} \cup Records
    BY <1>2, <1>a DEF AddReadRecord, Shares
  <2>2. AddWith(p, record) \in Locals /\ Planned(AddWith(p, record))
    BY <2>1, AddWithIs
  <2>. QED BY <1>2, <1>b, <2>2 DEF AddReadRecord, Read
<1>3. ASSUME WriteRecord(p) PROVE Shares' /\ \E l : Good(l)
  <2>1. r.purpose = "add" /\ r.want \in Texts /\ r.route \in Route
    BY <1>3, <1>h, Whereabouts DEF WriteRecord, At, Planned
  <2>2. record' \in Records
    BY <1>3, <2>1 DEF WriteRecord, Record, Records
  <2>3. End(p, "changed", "none") \in Locals /\ Planned(End(p, "changed", "none"))
    <3>1. {"changed", "none"} \subseteq Words
      BY DEF Words
    <3>. QED BY <3>1, <1>e
  <2>. QED BY <1>3, <1>a, <2>2, <2>3 DEF WriteRecord, Shares
<1>4. ASSUME ReadRecord(p) PROVE Shares' /\ \E l : Good(l)
  <2> DEFINE m == [Move(p, "live") EXCEPT !.record = record]
             Ends == \E a, b \in Words : Goto(p, End(p, a, b))
  <2>1. r.pc = "owned" /\ r.op # "path-add" /\ r.purpose = "none"
    BY <1>4, Whereabouts DEF ReadRecord, At
  <2>2. /\ m \in Locals /\ m.pc = "live" /\ m.purpose = "none" /\ m.op = r.op /\ m.route = r.route
        /\ m.guided = r.guided /\ m.record = record
    <3>1. "live" \in PCs /\ record \in {NoRecord, Garbage} \cup Records
      BY <1>a DEF PCs, Shares
    <3>. QED BY <2>1, <3>1, MoveIs DEF Locals
  <2>3. r.guided => r.op = "batch"
    BY DEF Planned
  <2>4. ASSUME Valid(record), r.op = "batch" => AtEnd(record) PROVE Planned(m)
    <3>1. record \in Records
      BY <1>a, <2>4 DEF Shares, Valid
    <3> HIDE DEF m
    <3>. QED BY ONLY <2>1, <2>2, <2>3, <2>4, <3>1 DEF Planned, Placed, Rechecks
  <2>5. {"unchanged", "none", "path-ownership-changed", "state-record-missing", "path-remove-failed"} \subseteq Words
    BY DEF Words
  <2>6. UNCHANGED shared
    BY <1>4 DEF ReadRecord, Read
  <2> HIDE DEF m
  <2>7. \/ Goto(p, m) /\ Valid(record) /\ (r.op = "batch" => AtEnd(record))
        \/ Goto(p, EndState(p, "path-ownership-changed"))
        \/ Goto(p, End(p, "unchanged", "none")) \/ Goto(p, End(p, "unchanged", "state-record-missing"))
        \/ Goto(p, End(p, "none", "state-record-missing"))
        \/ Goto(p, End(p, "path-ownership-changed", "path-remove-failed"))
    BY <1>4, <2>1 DEF ReadRecord, Read, m
  <2>. QED BY <1>b, <1>e, <1>f, <2>2, <2>4, <2>5, <2>6, <2>7
<1>5. ASSUME RemoveReadPath(p) PROVE Shares' /\ \E l : Good(l)
  <2> DEFINE w == Shortened(LivePath)
             c == CompareAndWrite(p, "remove", LivePath, w)
             m == [c EXCEPT !.path = LivePath]
  <2>1. r.pc = "live" /\ r.op = "path-remove" /\ r.purpose = "none" /\ r.guided = FALSE /\ r.record \in Records
    BY <1>5, <1>d, Whereabouts DEF RemoveReadPath, At, Planned
  <2>2. ASSUME LivePath = r.record.path, AtEnd(r.record) PROVE m \in Locals /\ Planned(m)
    <3>1. LivePath \in Texts
      BY <2>1, <2>2 DEF Records
    <3>2. w \in Texts /\ w \in Values
      BY <3>1, ShortenedText DEF Values
    <3>3. /\ c \in Locals
          /\ c.pc = "compare" /\ c.purpose = "remove" /\ c.expect = LivePath /\ c.want = w
          /\ c.op = r.op /\ c.route = r.route /\ c.record = r.record /\ c.guided = r.guided
      BY <1>a, <3>2, CompareAndWriteIs
    <3> HIDE DEF c, w
    <3>4. /\ m \in Locals
          /\ m.pc = "compare" /\ m.purpose = "remove" /\ m.expect = LivePath /\ m.want = w /\ m.path = LivePath
          /\ m.op = r.op /\ m.route = r.route /\ m.record = r.record /\ m.guided = r.guided
      BY ONLY <3>3, <1>a DEF Locals
    <3> HIDE DEF m
    <3>5. Planned(m)
      BY ONLY <2>1, <2>2, <3>4 DEF Planned, Placed, Rechecks, Provides, w
    <3>. QED BY <3>4, <3>5
  <2>3. {"unchanged", "none", "path-ownership-changed"} \subseteq Words
    BY DEF Words
  <2> HIDE DEF m, w, c
  <2>4. /\ UNCHANGED shared
        /\ \/ Goto(p, m) /\ LivePath = r.record.path /\ AtEnd(r.record)
           \/ Goto(p, End(p, "unchanged", "none"))
           \/ Goto(p, End(p, "path-ownership-changed", "none"))
    BY <1>5 DEF RemoveReadPath, Read, m, c, w
  <2>. QED BY <1>b, <1>e, <2>2, <2>3, <2>4
<1>6. ASSUME BatchReadPath(p) PROVE Shares' /\ \E l : Good(l)
  <2> DEFINE w == Shortened(LivePath)
             c == CompareAndWrite(p, "batch", LivePath, w)
             m == [c EXCEPT !.path = LivePath]
             k == [Move(p, "owned") EXCEPT !.guided = TRUE]
  <2>1. /\ r.pc = "live" /\ r.op = "batch" /\ r.purpose = "none" /\ r.guided = FALSE
        /\ r.record \in Records /\ AtEnd(r.record)
    BY <1>6, <1>d, Whereabouts DEF BatchReadPath, At, Planned
  <2>2. ASSUME LivePath = r.record.path PROVE m \in Locals /\ Planned(m)
    <3>1. LivePath \in Texts
      BY <2>1, <2>2 DEF Records
    <3>2. w \in Texts /\ w \in Values
      BY <3>1, ShortenedText DEF Values
    <3>3. /\ c \in Locals
          /\ c.pc = "compare" /\ c.purpose = "batch" /\ c.expect = LivePath /\ c.want = w
          /\ c.op = r.op /\ c.route = r.route /\ c.record = r.record /\ c.guided = r.guided
      BY <1>a, <3>2, CompareAndWriteIs
    <3> HIDE DEF c, w
    <3>4. /\ m \in Locals
          /\ m.pc = "compare" /\ m.purpose = "batch" /\ m.expect = LivePath /\ m.want = w /\ m.path = LivePath
          /\ m.op = r.op /\ m.route = r.route /\ m.record = r.record /\ m.guided = r.guided
      BY ONLY <3>3, <1>a DEF Locals
    <3> HIDE DEF m
    <3>5. Planned(m)
      BY ONLY <2>1, <2>2, <3>4 DEF Planned, Placed, Rechecks, Provides, w
    <3>. QED BY <3>4, <3>5
  <2>3. k \in Locals /\ Planned(k)
    <3>1. "owned" \in PCs
      BY DEF PCs
    <3> DEFINE n == Move(p, "owned")
    <3>4. n \in Locals /\ n.pc = "owned" /\ n.purpose = r.purpose /\ n.op = r.op /\ n.route = r.route
      BY <3>1, MoveIs
    <3> HIDE DEF n
    <3>5. k = [n EXCEPT !.guided = TRUE]
      BY DEF n
    <3> HIDE DEF k
    <3>2. /\ k \in Locals /\ k.pc = "owned" /\ k.purpose = "none" /\ k.op = "batch" /\ k.route = r.route
          /\ k.guided = TRUE
      BY ONLY <2>1, <3>4, <3>5 DEF Locals
    <3>3. Planned(k)
      BY ONLY <3>2 DEF Planned, Placed, Rechecks
    <3>. QED BY <3>2, <3>3
  <2>4. {"path-remove-failed", "path-ownership-changed"} \subseteq Words
    BY DEF Words
  <2> HIDE DEF m, w, c, k
  <2>5. /\ UNCHANGED shared
        /\ \/ Goto(p, m) /\ LivePath = r.record.path
           \/ Goto(p, End(p, "path-ownership-changed", "path-remove-failed"))
           \/ Goto(p, k)
    BY <1>6 DEF BatchReadPath, Read, m, c, w, k
  <2>. QED BY <1>b, <1>e, <2>2, <2>3, <2>4, <2>5
<1>7. ASSUME CleanupReadPath(p) PROVE Shares' /\ \E l : Good(l)
  <2> DEFINE m == [Move(p, "record-again") EXCEPT !.want = LivePath]
  <2>1. /\ r.pc = "live" /\ r.purpose = "none" /\ r.op # "path-add" /\ r.record \in Records
        /\ r.guided => r.op = "batch"
    BY <1>7, Whereabouts DEF CleanupReadPath, At, Planned
  <2>2. ASSUME LivePath = r.record.path PROVE m \in Locals /\ Planned(m)
    <3>1. "record-again" \in PCs
      BY DEF PCs
    <3>2. /\ m \in Locals /\ m.pc = "record-again" /\ m.purpose = "none" /\ m.op = r.op /\ m.route = r.route
          /\ m.guided = r.guided /\ m.want = LivePath /\ m.record = r.record
      BY <1>a, <2>1, <3>1, MoveIs DEF Locals
    <3> HIDE DEF m
    <3>3. Planned(m)
      BY ONLY <2>1, <2>2, <3>2 DEF Planned, Placed, Rechecks
    <3>. QED BY <3>2, <3>3
  <2>3. "path-ownership-changed" \in Words
    BY DEF Words
  <2> HIDE DEF m
  <2>4. /\ UNCHANGED shared
        /\ (Goto(p, m) /\ LivePath = r.record.path) \/ Goto(p, EndState(p, "path-ownership-changed"))
    BY <1>7 DEF CleanupReadPath, Read, m
  <2>. QED BY <1>b, <1>f, <2>2, <2>3, <2>4
<1>8. ASSUME Compare(p) PROVE Shares' /\ \E l : Good(l)
  <2> DEFINE m == Move(p, "write")
             again == [Rest EXCEPT !.pc = "live", !.op = r.op, !.route = r.route,
                                   !.consent = r.consent, !.retry = TRUE]
  <2>1. r.pc = "compare" /\ r.purpose \in {"add", "remove", "batch", "undo", "restore"}
    BY <1>8, Whereabouts DEF Compare, At
  <2>2. m \in Locals /\ Planned(m)
    <3>1. "write" \in PCs
      BY DEF PCs
    <3>2. /\ m \in Locals /\ m.pc = "write" /\ m.purpose = r.purpose /\ m.expect = r.expect
          /\ m.want = r.want /\ m.op = r.op /\ m.route = r.route
          /\ m.path = r.path /\ m.record = r.record /\ m.guided = r.guided
      BY <3>1, MoveIs
    <3> HIDE DEF m
    <3>3. Planned(m)
      BY ONLY <2>1, <3>2, Planned(local[p]) DEF Planned, Placed, Rechecks
    <3>. QED BY <3>2, <3>3
  <2>3. ASSUME r.purpose = "add" PROVE again \in Locals /\ Planned(again)
    <3>1. r.op = "path-add" /\ r.route \in Route /\ r.consent \in BOOLEAN
      BY <1>d, <1>h, <2>3 DEF Planned, Locals
    <3>2. "live" \in PCs
      BY DEF PCs
    <3>3. /\ again \in Locals /\ again.pc = "live" /\ again.purpose = "none" /\ again.op = "path-add"
          /\ again.route \in Route /\ again.guided = FALSE
      <4>1. again \in Locals
        BY <3>1, <3>2, RestTyped DEF Locals
      <4>. QED BY <3>1, <4>1 DEF Rest
    <3> HIDE DEF again
    <3>4. Planned(again)
      BY ONLY <3>3 DEF Planned, Placed, Rechecks
    <3>. QED BY <3>3, <3>4
  <2>4. {"path-concurrency-unsafe", "none", "path-remove-failed", "path-bookkeeping-rollback-failed",
         "changed", "path-restore-failed"} \subseteq Words
    BY DEF Words
  <2> HIDE DEF m, again
  <2>5. /\ UNCHANGED shared
        /\ \/ Goto(p, m) \/ (r.purpose = "add" /\ Goto(p, again))
           \/ Goto(p, End(p, "path-concurrency-unsafe", "none"))
           \/ Goto(p, End(p, "path-concurrency-unsafe", "path-remove-failed"))
           \/ Goto(p, End(p, "path-bookkeeping-rollback-failed", "none"))
           \/ Goto(p, End(p, "changed", "path-restore-failed"))
    BY <1>8, <2>1 DEF Compare, Read, m, again
  <2>. QED BY <1>b, <1>e, <2>2, <2>3, <2>4, <2>5
<1>9. ASSUME Write(p) PROVE Shares' /\ \E l : Good(l)
  <2>1. r.pc = "write" /\ r.purpose \in {"add", "remove", "batch", "undo", "restore"}
    BY <1>9, Whereabouts DEF Write, At
  <2>2. Shares'
    BY <1>9, <1>a, <1>d DEF Write, Shares
  <2>3. ASSUME NEW at \in {"record", "clear", "notify"},
               \/ at = "record" /\ r.purpose = "add"
               \/ at = "clear" /\ r.purpose = "remove"
               \/ at = "notify" /\ r.purpose = "batch"
        PROVE  Move(p, at) \in Locals /\ Planned(Move(p, at))
    <3> DEFINE m == Move(p, at)
    <3>1. at \in PCs
      BY DEF PCs
    <3>2. /\ m \in Locals /\ m.pc = at /\ m.purpose = r.purpose /\ m.expect = r.expect
          /\ m.want = r.want /\ m.op = r.op /\ m.route = r.route
          /\ m.path = r.path /\ m.record = r.record /\ m.guided = r.guided
      BY <3>1, MoveIs
    <3> HIDE DEF m
    <3>3. Planned(m)
      BY ONLY <2>1, <2>3, <3>2, Planned(local[p]) DEF Planned, Placed, Rechecks
    <3>. QED BY <3>2, <3>3 DEF m
  <2>4. {"path-bookkeeping-failed", "none", "state-delete-failed"} \subseteq Words
    BY DEF Words
  <2>5. \/ r.purpose = "add" /\ Goto(p, Move(p, "record"))
        \/ r.purpose = "remove" /\ Goto(p, Move(p, "clear"))
        \/ r.purpose = "batch" /\ Goto(p, Move(p, "notify"))
        \/ Goto(p, End(p, "path-bookkeeping-failed", "none"))
        \/ Goto(p, End(p, "state-delete-failed", "state-delete-failed"))
    BY <1>9, <2>1 DEF Write
  <2>6. ASSUME NEW at \in {"record", "clear", "notify"}, Goto(p, Move(p, at)),
               \/ at = "record" /\ r.purpose = "add"
               \/ at = "clear" /\ r.purpose = "remove"
               \/ at = "notify" /\ r.purpose = "batch"
        PROVE  \E l : Good(l)
    BY <2>3, <2>6
  <2>7. ASSUME NEW a \in Words, NEW b \in Words, Goto(p, End(p, a, b)) PROVE \E l : Good(l)
    BY <1>e, <2>7
  <2> HIDE DEF Good
  <2>. QED BY <2>2, <2>4, <2>5, <2>6, <2>7
<1>i. ASSUME NEW at \in {"record-again", "path-again", "delete", "clear"},
             r.pc \in Rechecks \cup {"notify"}, r.pc = "notify" => at = "record-again",
             r.pc # "notify" => r.purpose \in {"none", "batch"}
      PROVE  Move(p, at) \in Locals /\ Planned(Move(p, at))
  <2> DEFINE m == Move(p, at)
  <2>1. at \in PCs
    BY DEF PCs
  <2>2. /\ m \in Locals /\ m.pc = at /\ m.purpose = r.purpose /\ m.expect = r.expect
        /\ m.want = r.want /\ m.op = r.op /\ m.route = r.route
        /\ m.path = r.path /\ m.record = r.record /\ m.guided = r.guided
    BY <2>1, MoveIs
  <2>3. r.pc = "notify" => r.purpose = "batch"
    BY Whereabouts
  <2> HIDE DEF m
  <2>4. Planned(m)
    BY ONLY <1>i, <2>2, <2>3, Planned(local[p]) DEF Planned, Placed, Rechecks
  <2>. QED BY <2>2, <2>4 DEF m
<1>10. ASSUME Notify(p) PROVE Shares' /\ \E l : Good(l)
  <2>1. UNCHANGED shared /\ r.pc = "notify" /\ Goto(p, Move(p, "record-again"))
    BY <1>10 DEF Notify, Read, At
  <2>. QED BY <1>b, <1>i, <2>1
<1>11. ASSUME RecheckRecord(p) PROVE Shares' /\ \E l : Good(l)
  <2>1. UNCHANGED shared /\ r.pc = "record-again" /\ (Goto(p, Move(p, "path-again")) \/ Goto(p, Changed(p)))
    BY <1>11 DEF RecheckRecord, Read, At
  <2>2. r.purpose \in {"none", "batch"}
    BY <2>1, Whereabouts DEF Rechecks
  <2>3. r.pc \in Rechecks
    BY <2>1 DEF Rechecks
  <2>. QED BY <1>b, <1>g, <1>i, <2>1, <2>2, <2>3
<1>12. ASSUME RecheckPath(p) PROVE Shares' /\ \E l : Good(l)
  <2>1. UNCHANGED shared /\ r.pc = "path-again" /\ (Goto(p, Move(p, "delete")) \/ Goto(p, Changed(p)))
    BY <1>12 DEF RecheckPath, Read, At
  <2>2. r.purpose \in {"none", "batch"}
    BY <2>1, Whereabouts DEF Rechecks
  <2>3. r.pc \in Rechecks
    BY <2>1 DEF Rechecks
  <2>. QED BY <1>b, <1>g, <1>i, <2>1, <2>2, <2>3
<1>13. ASSUME Delete(p) PROVE Shares' /\ \E l : Good(l)
  <2>1. r.pc = "delete" /\ Goto(p, Move(p, "clear")) /\ state' = "gone" /\ UNCHANGED <<path, record>>
    BY <1>13 DEF Delete, At
  <2>2. r.purpose \in {"none", "batch"}
    BY <2>1, Whereabouts DEF Rechecks
  <2>3. r.pc \in Rechecks
    BY <2>1 DEF Rechecks
  <2>4. Shares'
    BY <1>a, <2>1 DEF Shares
  <2>. QED BY <1>i, <2>1, <2>2, <2>3, <2>4
<1>14. ASSUME DeleteFails(p) PROVE Shares' /\ \E l : Good(l)
  <2> DEFINE m == CompareAndWrite(p, "restore", r.want, r.record.path)
  <2>1. r.pc = "delete" /\ r.purpose \in {"none", "batch"}
    BY <1>14, Whereabouts DEF DeleteFails, At, Rechecks
  <2>2. ASSUME r.purpose = "batch" PROVE m \in Locals /\ Planned(m)
    <3>1. r.record \in Records /\ r.op = "batch" /\ Provides(r.record) /\ r.want = Shortened(r.record.path) /\ r.guided = FALSE
      BY <1>d, <2>2 DEF Planned, Provides
    <3>2. r.record.path \in Values /\ r.record \in Records
      BY <3>1 DEF Records, Values
    <3>3. /\ m \in Locals
          /\ m.pc = "compare" /\ m.purpose = "restore" /\ m.expect = r.want /\ m.want = r.record.path
          /\ m.op = r.op /\ m.route = r.route /\ m.record = r.record /\ m.guided = r.guided
      BY <1>d, <3>2, CompareAndWriteIs
    <3> HIDE DEF m
    <3>4. Planned(m)
      BY ONLY <3>1, <3>3 DEF Planned, Placed, Rechecks
    <3>. QED BY <3>3, <3>4
  <2>3. "state-delete-failed" \in Words
    BY DEF Words
  <2>4. NotDeleted(p) \in Locals /\ Planned(NotDeleted(p))
    <3> HIDE DEF m
    <3>1. NotDeleted(p) = IF r.purpose = "batch" THEN m ELSE EndState(p, "state-delete-failed")
      BY DEF NotDeleted, m
    <3>. QED BY <1>f, <2>2, <2>3, <3>1
  <2>5. Shares' /\ (Goto(p, NotDeleted(p)) \/ Fault(p, NotDeleted(p)))
    <3>1. CASE Read(p, NotDeleted(p))
      BY <1>b, <3>1 DEF Read
    <3>2. CASE state' \in {state, "part"} /\ Fault(p, NotDeleted(p))
      BY <1>a, <3>2 DEF Fault, Shares
    <3>. QED BY <1>14, <3>1, <3>2 DEF DeleteFails
  <2>. QED BY <2>4, <2>5
<1>15. ASSUME ClearRecord(p) PROVE Shares' /\ \E l : Good(l)
  <2>1. {"changed", "none"} \subseteq Words
    BY DEF Words
  <2>2. Shares'
    BY <1>15, <1>a DEF ClearRecord, Shares
  <2>3. \/ Goto(p, End(p, "changed", "none")) \/ Goto(p, End(p, "changed", "changed"))
        \/ Goto(p, EndState(p, "changed"))
    BY <1>15 DEF ClearRecord
  <2>. QED BY <1>e, <1>f, <2>1, <2>2, <2>3
<1>16. ASSUME CallFails(p) PROVE Shares' /\ \E l : Good(l)
  <2>1. UNCHANGED shared /\ Fault(p, Caught(p))
    BY <1>16 DEF CallFails, Fault, shared
  <2>2. ASSUME r.pc = "record" PROVE UndoAdd(p) \in Locals /\ Planned(UndoAdd(p))
    <3> DEFINE v == Safe(r.path)
               m == CompareAndWrite(p, "undo", r.want, v)
    <3>1. r.purpose = "add" /\ r.op = "path-add" /\ r.want \in Texts /\ Fits(v, r.want) /\ r.guided = FALSE
      BY <1>d, <2>2, Whereabouts DEF Planned
    <3>2. v \in Texts /\ v \in Values
      BY <1>d, SafeText DEF Values
    <3>3. r.want.type = v.type
      BY <3>1, <3>2, Apart DEF Fits
    <3>4. Text(v.elems, v.type) = v
      BY <3>2 DEF Text, Texts
    <3>5. UndoAdd(p) = m
      BY <3>3, <3>4 DEF UndoAdd
    <3>6. /\ m \in Locals
          /\ m.pc = "compare" /\ m.purpose = "undo" /\ m.expect = r.want /\ m.want = v
          /\ m.op = r.op /\ m.route = r.route /\ m.record = r.record /\ m.guided = r.guided /\ m.path = r.path
      BY <1>d, <3>2, CompareAndWriteIs
    <3> HIDE DEF m
    <3>7. Planned(m)
      BY ONLY <1>h, <3>1, <3>6 DEF Planned, Placed, Rechecks
    <3>. QED BY <3>5, <3>6, <3>7
  <2>3. ASSUME r.pc = "clear", r.purpose = "remove" PROVE UndoRemove(p) \in Locals /\ Planned(UndoRemove(p))
    <3> DEFINE m == CompareAndWrite(p, "undo", r.want, r.path)
    <3>1. /\ r.op = "path-remove" /\ Provides(r.record) /\ r.path = r.record.path /\ r.want = Shortened(r.path)
          /\ r.guided = FALSE
      BY <1>d, <2>3 DEF Planned
    <3>2. r.path \in Texts /\ Last(r.path.elems) \in Route
      BY <3>1 DEF Provides, Records, AtEnd
    <3>3. r.want \in Texts /\ Fits(r.path, r.want)
      BY <3>1, <3>2, ShortenedText
    <3>4. Safe(r.path) = r.path
      BY <3>2, Apart DEF Safe
    <3>5. /\ m \in Locals
          /\ m.pc = "compare" /\ m.purpose = "undo" /\ m.expect = r.want /\ m.want = r.path
          /\ m.op = r.op /\ m.route = r.route /\ m.record = r.record /\ m.guided = r.guided /\ m.path = r.path
      BY <1>d, CompareAndWriteIs
    <3> HIDE DEF m
    <3>6. Planned(m)
      BY ONLY <3>1, <3>3, <3>4, <3>5 DEF Planned, Placed, Rechecks
    <3>. QED BY <3>5, <3>6 DEF UndoRemove, m
  <2>4. {"changed", "state-bookkeeping-failed", "path-restore-failed"} \subseteq Words
    BY DEF Words
  <2>5. \/ r.pc = "record" /\ Caught(p) = UndoAdd(p)
        \/ r.pc = "clear" /\ r.purpose = "remove" /\ Caught(p) = UndoRemove(p)
        \/ Caught(p) = End(p, "changed", "state-bookkeeping-failed")
        \/ Caught(p) = EndState(p, "state-bookkeeping-failed")
        \/ Caught(p) = End(p, "changed", "path-restore-failed")
        \/ Caught(p) = Raised(p)
    BY DEF Caught
  <2>6. Caught(p) \in Locals /\ Planned(Caught(p))
    BY <1>e, <1>f, <1>g, <2>2, <2>3, <2>4, <2>5
  <2>. QED BY <1>b, <2>1, <2>6
<1>17. ASSUME Killed(p) PROVE Shares' /\ \E l : Good(l)
  <2>1. UNCHANGED shared /\ Fault(p, Rest)
    BY <1>17 DEF Killed, Fault, shared
  <2>. QED BY <1>b, <1>g, <2>1
<1>18. Shares' /\ \E l : Good(l)
  <2> HIDE DEF Good
  <2>. QED BY <1>1, <1>2, <1>3, <1>4, <1>5, <1>6, <1>7, <1>8, <1>9, <1>10, <1>11, <1>12, <1>13, <1>14,
              <1>15, <1>16, <1>17 DEF Step
<1>. QED BY <1>c, <1>18

(* A request begins, and changes nothing that is shared.                   *)
LEMMA BeginIs ==
  ASSUME PathTyped, NEW p \in Assist, Begin(p)
  PROVE  /\ PathTyped' /\ Planned(local'[p]) /\ UNCHANGED shared
         /\ local'[p].purpose = "none" /\ local'[p].guided = FALSE
         /\ \/ local'[p].pc = "live" /\ local'[p].op = "path-add"
            \/ local'[p].pc = "owned" /\ local'[p].op # "path-add"
         /\ begun'[p] = [path |-> path, record |-> record, state |-> state]
         /\ raced'[p] = FALSE
         /\ \A q \in Assist \ {p} : local'[q] = local[q] /\ begun'[q] = begun[q] /\ met'[q] = met[q]
                                    /\ raced'[q] = raced[q]
<1>1. /\ local \in [Assist -> Locals] /\ met \in [Assist -> [others : BOOLEAN, failed : Nat]]
      /\ raced \in [Assist -> BOOLEAN] /\ requests \in Nat /\ troubles \in Nat /\ Shares
      /\ begun \in [Assist -> [path : {NotText} \cup Values, record : {NoRecord, Garbage} \cup Records,
                               state : {"whole", "part", "gone"}]]
  BY DEF PathTyped
<1>2. PICK l \in Requests : local' = [local EXCEPT ![p] = l]
  BY ONLY Begin(p) DEF Begin
<1>3. /\ begun' = [begun EXCEPT ![p] = [path |-> path, record |-> record, state |-> state]]
      /\ met' = [met EXCEPT ![p] = [others |-> FALSE, failed |-> 0]]
      /\ raced' = [raced EXCEPT ![p] = FALSE]
      /\ requests' = requests + 1
      /\ UNCHANGED <<path, record, state, troubles>>
  BY ONLY Begin(p) DEF Begin
<1>4. "live" \in PCs /\ "owned" \in PCs
  BY DEF PCs
<1>5. \A x \in Route, c \in BOOLEAN :
        /\ Addition(x, c) \in Locals /\ Addition(x, c).pc = "live" /\ Addition(x, c).op = "path-add"
        /\ Addition(x, c).route \in Route /\ Addition(x, c).purpose = "none" /\ Addition(x, c).guided = FALSE
  <2>1. ASSUME NEW x \in Route, NEW c \in BOOLEAN PROVE Addition(x, c) \in Locals
    BY <1>4, RestTyped DEF Locals, Addition
  <2>2. ASSUME NEW x \in Route, NEW c \in BOOLEAN
        PROVE  /\ Addition(x, c).pc = "live" /\ Addition(x, c).op = "path-add"
               /\ Addition(x, c).route \in Route
               /\ Addition(x, c).purpose = "none" /\ Addition(x, c).guided = FALSE
    BY DEF Rest, Addition
  <2>. QED BY <2>1, <2>2
<1>6. \A op \in {"path-remove", "batch", "state-cleanup"} :
        /\ Removal(op) \in Locals /\ Removal(op).pc = "owned" /\ Removal(op).op = op
        /\ Removal(op).purpose = "none" /\ Removal(op).guided = FALSE
  <2>1. ASSUME NEW op \in {"path-remove", "batch", "state-cleanup"} PROVE Removal(op) \in Locals
    BY <1>4, RestTyped DEF Locals, Removal
  <2>2. ASSUME NEW op \in {"path-remove", "batch", "state-cleanup"}
        PROVE  /\ Removal(op).pc = "owned" /\ Removal(op).op = op
               /\ Removal(op).purpose = "none" /\ Removal(op).guided = FALSE
    BY DEF Rest, Removal
  <2>. QED BY <2>1, <2>2
<1>7. /\ l \in Locals /\ l.purpose = "none" /\ l.guided = FALSE
      /\ \/ l.pc = "live" /\ l.op = "path-add" /\ l.route \in Route
         \/ l.pc = "owned" /\ l.op # "path-add"
  <2>1. (\E x \in Route, c \in BOOLEAN : l = Addition(x, c))
        \/ \E op \in {"path-remove", "batch", "state-cleanup"} : l = Removal(op)
    BY DEF Requests
  <2>. QED BY <2>1, <1>5, <1>6
<1>8. Planned(l)
  BY <1>7 DEF Planned, Placed, Rechecks
<1>9. local' \in [Assist -> Locals] /\ local'[p] = l
  BY <1>1, <1>2, <1>7
<1>10. Shares' /\ UNCHANGED shared
  BY <1>1, <1>3 DEF Shares, shared
<1>11. begun' \in [Assist -> [path : {NotText} \cup Values, record : {NoRecord, Garbage} \cup Records,
                              state : {"whole", "part", "gone"}]]
  BY <1>1, <1>3 DEF Shares
<1>12. /\ met' \in [Assist -> [others : BOOLEAN, failed : Nat]] /\ raced' \in [Assist -> BOOLEAN]
       /\ requests' \in Nat /\ troubles' \in Nat
  BY <1>1, <1>3
<1>13. PathTyped'
  BY <1>9, <1>10, <1>11, <1>12 DEF PathTyped
<1>. QED BY <1>1, <1>2, <1>3, <1>7, <1>8, <1>9, <1>10, <1>13

(* What a step of p leaves of the other requests.                          *)
LEMMA StepIs ==
  ASSUME PathTyped, NEW p \in Assist, Planned(local[p]), Step(p)
  PROVE  /\ PathTyped' /\ Planned(local'[p])
         /\ \A q \in Assist \ {p} :
              /\ local'[q] = local[q] /\ begun'[q] = begun[q]
              /\ ~met'[q].others => ~met[q].others /\ shared' = shared /\ met'[q] = met[q]
              /\ ~raced'[q] => ~raced[q] /\ path' = path /\ record' = record
<1>1. CASE Begin(p)
  <2>1. /\ PathTyped' /\ Planned(local'[p]) /\ UNCHANGED shared
        /\ \A q \in Assist \ {p} : local'[q] = local[q] /\ begun'[q] = begun[q] /\ met'[q] = met[q]
                                   /\ raced'[q] = raced[q]
    BY <1>1, BeginIs
  <2>2. shared' = shared /\ path' = path /\ record' = record
    BY <2>1 DEF shared
  <2>. QED BY ONLY <2>1, <2>2
<1>2. CASE ~Begin(p)
  <2>1. Shares' /\ local'[p] \in Locals /\ Planned(local'[p]) /\ (Goto(p, local'[p]) \/ Fault(p, local'[p]))
    BY <1>2, PlannedStep
  <2> DEFINE l == local'[p]
  <2>2. /\ local' \in [Assist -> Locals]
        /\ begun' = begun /\ requests' = requests /\ troubles' \in Nat
        /\ met' \in [Assist -> [others : BOOLEAN, failed : Nat]]
        /\ raced' \in [Assist -> BOOLEAN]
        /\ \A q \in Assist \ {p} :
             /\ local'[q] = local[q]
             /\ ~met'[q].others => ~met[q].others /\ shared' = shared /\ met'[q] = met[q]
             /\ ~raced'[q] => ~raced[q] /\ path' = path /\ record' = record
    BY <2>1, GotoIs
  <2>3. PathTyped'
    BY <2>1, <2>2 DEF PathTyped
  <2>. QED BY <2>1, <2>2, <2>3
<1>. QED BY <1>1, <1>2

(* Where a step of p gets to.                                              *)
LEMMA ValueIs ==
  ASSUME PathTyped, NEW p \in Assist, NEW l, Goto(p, l) \/ Fault(p, l)
  PROVE  local'[p] = l /\ begun' = begun
<1>1. local \in [Assist -> Locals]
  BY DEF PathTyped
<1>2. local' = [local EXCEPT ![p] = l] /\ begun' = begun
  <2>1. CASE Goto(p, l)
    BY ONLY <2>1 DEF Goto
  <2>2. CASE Fault(p, l)
    BY ONLY <2>2 DEF Fault
  <2>. QED BY <2>1, <2>2
<1>. QED BY <1>1, <1>2

LEMMA EndPlace ==
  ASSUME NEW p, NEW a, NEW b
  PROVE  /\ End(p, a, b).pc = "idle" /\ EndState(p, b).pc = "idle"
         /\ Raised(p).pc = "idle" /\ Changed(p).pc = "idle" /\ Rest.pc = "idle"
<1>1. \A x, y : End(p, x, y).pc = "idle"
  BY DEF End, Rest
<1>2. \A y : EndState(p, y).pc = "idle"
  BY <1>1 DEF EndState
<1>3. Rest.pc = "idle"
  BY DEF Rest
<1>. QED BY <1>1, <1>2, <1>3 DEF Raised, Changed

(* What is compared is so until somebody else changes it.                  *)
LEMMA ComparedStep ==
  ASSUME PathTyped, NEW p \in Assist, Planned(local[p]), Compared(p), Step(p)
  PROVE  Compared(p)'
<1> DEFINE r == local[p]
           Far == {"write", "path-again", "delete"}
<1>0. r \in Locals /\ PathTyped'
  BY LocalTyped, StepIs
<1>a. ASSUME local'[p].pc \notin Far PROVE Compared(p)'
  BY <1>a DEF Compared, At
<1>b. ASSUME NEW l, Goto(p, l) \/ Fault(p, l), l.pc \notin Far PROVE Compared(p)'
  BY ONLY <1>b, <1>a, ValueIs, PathTyped, p \in Assist
<1>c. \A a, b : /\ End(p, a, b).pc \notin Far /\ EndState(p, b).pc \notin Far
                /\ Raised(p).pc \notin Far /\ Changed(p).pc \notin Far /\ Rest.pc \notin Far
  BY EndPlace
<1>d. \A at \in PCs : Move(p, at).pc = at /\ Move(p, at) \in Locals
  BY MoveIs
<1>e. \A x, v, w : CompareAndWrite(p, x, v, w).pc = "compare"
  BY <1>0 DEF CompareAndWrite, Locals
<1>1. CASE Begin(p)
  BY <1>1, <1>a, BeginIs
<1>2. CASE AddReadPath(p)
  <2> DEFINE m == [Move(p, "owned") EXCEPT !.path = LivePath]
  <2>1. m.pc \notin Far
    <3>1. "owned" \in PCs
      BY DEF PCs
    <3>. QED BY <1>d, <3>1 DEF Locals
  <2> HIDE DEF m
  <2>2. Goto(p, End(p, "unchanged", "none")) \/ Goto(p, m)
    BY <1>2 DEF AddReadPath, Read, m
  <2>. QED BY <1>b, <1>c, <2>1, <2>2
<1>3. CASE AddReadRecord(p)
  <2>1. Goto(p, AddWith(p, record))
    BY <1>3 DEF AddReadRecord, Read
  <2>2. AddWith(p, record).pc \in {"compare", "idle"}
    <3> HIDE DEF Far
    <3>1. \A a, b : End(p, a, b).pc = "idle"
      BY EndPlace
    <3>. QED BY <1>e, <3>1 DEF AddWith
  <2>. QED BY <1>b, <2>1, <2>2
<1>4. CASE WriteRecord(p)
  <2>1. Goto(p, End(p, "changed", "none"))
    BY <1>4 DEF WriteRecord
  <2>. QED BY <1>b, <1>c, <2>1
<1>5. CASE ReadRecord(p)
  <2> DEFINE m == [Move(p, "live") EXCEPT !.record = record]
  <2>1. m.pc \notin Far
    <3>1. "live" \in PCs
      BY DEF PCs
    <3>. QED BY <1>d, <3>1 DEF Locals
  <2> HIDE DEF m
  <2>2. \/ Goto(p, m)
        \/ Goto(p, EndState(p, "path-ownership-changed"))
        \/ Goto(p, End(p, "unchanged", "none")) \/ Goto(p, End(p, "unchanged", "state-record-missing"))
        \/ Goto(p, End(p, "none", "state-record-missing"))
        \/ Goto(p, End(p, "path-ownership-changed", "path-remove-failed"))
    BY <1>5 DEF ReadRecord, Read, m
  <2>. QED BY <1>b, <1>c, <2>1, <2>2
<1>6. CASE RemoveReadPath(p)
  <2> DEFINE c == CompareAndWrite(p, "remove", LivePath, Shortened(LivePath))
             m == [c EXCEPT !.path = LivePath]
  <2>1. m.pc \notin Far
    BY <1>e
  <2> HIDE DEF m
  <2>2. Goto(p, m) \/ Goto(p, End(p, "unchanged", "none")) \/ Goto(p, End(p, "path-ownership-changed", "none"))
    BY <1>6 DEF RemoveReadPath, Read, m
  <2>. QED BY <1>b, <1>c, <2>1, <2>2
<1>7. CASE BatchReadPath(p)
  <2> DEFINE c == CompareAndWrite(p, "batch", LivePath, Shortened(LivePath))
             m == [c EXCEPT !.path = LivePath]
             k == [Move(p, "owned") EXCEPT !.guided = TRUE]
  <2>1. m.pc \notin Far
    BY <1>e
  <2>2. k.pc \notin Far
    <3>1. "owned" \in PCs
      BY DEF PCs
    <3>. QED BY <1>d, <3>1 DEF Locals
  <2> HIDE DEF m, k
  <2>3. Goto(p, m) \/ Goto(p, k) \/ Goto(p, End(p, "path-ownership-changed", "path-remove-failed"))
    BY <1>7 DEF BatchReadPath, Read, m, k
  <2>. QED BY <1>b, <1>c, <2>1, <2>2, <2>3
<1>8. CASE CleanupReadPath(p)
  <2> DEFINE m == [Move(p, "record-again") EXCEPT !.want = LivePath]
  <2>1. m.pc \notin Far
    <3>1. "record-again" \in PCs
      BY DEF PCs
    <3>. QED BY <1>d, <3>1 DEF Locals
  <2> HIDE DEF m
  <2>2. Goto(p, m) \/ Goto(p, EndState(p, "path-ownership-changed"))
    BY <1>8 DEF CleanupReadPath, Read, m
  <2>. QED BY <1>b, <1>c, <2>1, <2>2
<1>9. CASE Compare(p)
  <2> DEFINE m == Move(p, "write")
             again == [Rest EXCEPT !.pc = "live", !.op = r.op, !.route = r.route,
                                   !.consent = r.consent, !.retry = TRUE]
  <2>1. again.pc \notin Far
    BY DEF Rest
  <2>2. m.pc = "write" /\ m.expect = r.expect
    <3>1. "write" \in PCs
      BY DEF PCs
    <3>. QED BY <3>1, MoveIs
  <2>3. r.purpose \in {"add", "remove", "batch", "undo", "restore"}
    BY <1>9, Whereabouts DEF Compare, At
  <2> HIDE DEF m, again
  <2>4. /\ UNCHANGED shared
        /\ \/ LivePath = r.expect /\ Goto(p, m)
           \/ Goto(p, again)
           \/ Goto(p, End(p, "path-concurrency-unsafe", "none"))
           \/ Goto(p, End(p, "path-concurrency-unsafe", "path-remove-failed"))
           \/ Goto(p, End(p, "path-bookkeeping-rollback-failed", "none"))
           \/ Goto(p, End(p, "changed", "path-restore-failed"))
    BY <1>9, <2>3 DEF Compare, Read, m, again
  <2>5. ASSUME LivePath = r.expect, Goto(p, m) PROVE Compared(p)'
    <3>1. local'[p] = m
      BY <2>5, ValueIs
    <3>2. LivePath' = LivePath
      BY <2>4 DEF LivePath, shared
    <3>. QED BY <2>2, <2>5, <3>1, <3>2 DEF Compared, At
  <2>. QED BY <1>b, <1>c, <2>1, <2>4, <2>5
<1>10. CASE Write(p)
  <2>1. r.purpose \in {"add", "remove", "batch", "undo", "restore"}
    BY <1>10, Whereabouts DEF Write, At
  <2>2. \/ Goto(p, Move(p, "record")) \/ Goto(p, Move(p, "clear")) \/ Goto(p, Move(p, "notify"))
        \/ Goto(p, End(p, "path-bookkeeping-failed", "none"))
        \/ Goto(p, End(p, "state-delete-failed", "state-delete-failed"))
    BY <1>10, <2>1 DEF Write
  <2>3. {"record", "clear", "notify"} \subseteq PCs
    BY DEF PCs
  <2>. QED BY <1>b, <1>c, <1>d, <2>2, <2>3
<1>11. CASE Notify(p)
  <2>1. Goto(p, Move(p, "record-again")) /\ "record-again" \in PCs
    BY <1>11 DEF Notify, Read, PCs
  <2>. QED BY <1>b, <1>d, <2>1
<1>12. CASE RecheckRecord(p)
  <2> DEFINE m == Move(p, "path-again")
  <2>1. /\ UNCHANGED shared
        /\ (record = r.record /\ Goto(p, m)) \/ Goto(p, Changed(p))
    BY <1>12 DEF RecheckRecord, Read
  <2>2. m.pc = "path-again" /\ m.record = r.record
    <3>1. "path-again" \in PCs
      BY DEF PCs
    <3>. QED BY <3>1, MoveIs
  <2> HIDE DEF m
  <2>3. ASSUME record = r.record, Goto(p, m) PROVE Compared(p)'
    <3>1. local'[p] = m
      BY <2>3, ValueIs
    <3>. QED BY <2>1, <2>2, <2>3, <3>1 DEF Compared, At, shared
  <2>. QED BY <1>b, <1>c, <2>1, <2>3
<1>13. CASE RecheckPath(p)
  <2> DEFINE m == Move(p, "delete")
  <2>1. /\ UNCHANGED shared /\ r.pc = "path-again"
        /\ (LivePath = r.want /\ Goto(p, m)) \/ Goto(p, Changed(p))
    BY <1>13 DEF RecheckPath, Read, At
  <2>2. m.pc = "delete" /\ m.record = r.record /\ m.want = r.want /\ m \in Locals
    <3>1. "delete" \in PCs
      BY DEF PCs
    <3>. QED BY <3>1, MoveIs
  <2> HIDE DEF m
  <2>3. ASSUME LivePath = r.want, Goto(p, m) PROVE Compared(p)'
    <3>1. local'[p] = m /\ raced'[p] = (raced[p] /\ At(p, "path-again"))
      BY <2>2, <2>3, GotoIs
    <3>2. LivePath' = LivePath /\ record' = record
      BY <2>1 DEF LivePath, shared
    <3>3. ~raced'[p] => record = r.record
      BY <2>1, <3>1 DEF Compared, At
    <3>. QED BY <2>2, <2>3, <3>1, <3>2, <3>3 DEF Compared, At
  <2>. QED BY <1>b, <1>c, <2>1, <2>3
<1>14. CASE Delete(p)
  <2>1. Goto(p, Move(p, "clear")) /\ "clear" \in PCs
    BY <1>14 DEF Delete, PCs
  <2>. QED BY <1>b, <1>d, <2>1
<1>15. CASE DeleteFails(p)
  <2>1. Goto(p, NotDeleted(p)) \/ Fault(p, NotDeleted(p))
    BY <1>15 DEF DeleteFails, Read
  <2>2. NotDeleted(p).pc \in {"compare", "idle"}
    BY <1>e, EndPlace DEF NotDeleted
  <2>. QED BY <1>b, <2>1, <2>2
<1>16. CASE ClearRecord(p)
  <2>1. \/ Goto(p, End(p, "changed", "none")) \/ Goto(p, End(p, "changed", "changed"))
        \/ Goto(p, EndState(p, "changed"))
    BY <1>16 DEF ClearRecord
  <2>. QED BY <1>b, <1>c, <2>1
<1>17. CASE CallFails(p)
  <2>1. Fault(p, Caught(p))
    BY <1>17 DEF CallFails
  <2>2. Caught(p).pc \in {"compare", "idle"}
    <3>1. UndoAdd(p).pc = "compare" /\ UndoRemove(p).pc = "compare"
      BY <1>e DEF UndoAdd, UndoRemove
    <3>2. \/ Caught(p) = UndoAdd(p) \/ Caught(p) = UndoRemove(p)
          \/ Caught(p) = End(p, "changed", "state-bookkeeping-failed")
          \/ Caught(p) = EndState(p, "state-bookkeeping-failed")
          \/ Caught(p) = End(p, "changed", "path-restore-failed")
          \/ Caught(p) = Raised(p)
      BY DEF Caught
    <3>. QED BY <3>1, <3>2, EndPlace
  <2>. QED BY <1>b, <2>1, <2>2
<1>18. CASE Killed(p)
  <2>1. Fault(p, Rest)
    BY <1>18 DEF Killed
  <2>. QED BY <1>b, <1>c, <2>1
<1>. QED BY <1>1, <1>2, <1>3, <1>4, <1>5, <1>6, <1>7, <1>8, <1>9, <1>10, <1>11, <1>12, <1>13, <1>14,
            <1>15, <1>16, <1>17, <1>18 DEF Step

(* What a request has to have got to when it ends with a report.           *)
LEMMA ReportIs ==
  ASSUME PathTyped, NEW p \in Assist, Planned(local[p]), NEW a \in Words, NEW b \in Words,
         local'[p] = End(p, a, b), begun'[p] = begun[p],
         local[p].op \in {"path-add", "path-remove"} /\ a \notin {"none", "changed"} =>
           /\ met'[p].failed < 2 => AsFound(p)'
           /\ a \notin {"path-concurrency-unsafe", "path-bookkeeping-rollback-failed"},
         local[p].op = "batch" /\ a \notin {"none", "raised"} =>
           /\ a # "changed" => AsFound(p)'
           /\ b \notin {"changed", "state-bookkeeping-failed"} =>
                (state' = "gone" => begun[p].state = "gone"),
         local[p].op = "path-add" /\ a \in {"changed", "unchanged"} =>
           /\ Has(LivePath', local[p].route)
           /\ a = "changed" => record' = Record(local[p].route, path'),
         local[p].op \in {"path-remove", "batch"} /\ a = "changed" =>
           Valid(begun[p].record) /\ path' = Shortened(begun[p].record.path),
         b = "changed" \/ (local[p].op = "path-remove" /\ a = "changed") => record' = NoRecord,
         b = "changed" => state' = "gone"
  PROVE  Reached(p)'
<1> DEFINE e == End(p, a, b)
<1>0. /\ e.pc = "idle" /\ e.op = local[p].op /\ e.route = local[p].route
      /\ e.said = [path |-> a, state |-> b]
  BY DEF End, Rest
<1>a. local'[p] = e
  OBVIOUS
<1> HIDE DEF e
<1>1. /\ local'[p].pc = "idle" /\ local'[p].op = local[p].op /\ local'[p].route = local[p].route
      /\ local'[p].said = [path |-> a, state |-> b]
  BY ONLY <1>0, <1>a
<1>2. local'[p].said.path = a /\ local'[p].said.state = b
  BY <1>1
<1>3. Has(LivePath, local[p].route)' <=> Has(LivePath', local'[p].route)
  BY DEF Has, LivePath
<1>4. Answered(p)'
  BY <1>1, <1>2, <1>3 DEF Answered, Has, Valid
<1>. QED BY <1>1, <1>4 DEF Reached

(* A request that ends before it has changed PATH or the record.           *)
LEMMA FoundEnd ==
  ASSUME PathTyped, NEW p \in Assist, Planned(local[p]), NEW a \in Words, NEW b \in Words,
         local'[p] = End(p, a, b), begun'[p] = begun[p], Found(p),
         UNCHANGED <<path, record>>, state' = state \/ state' # "gone",
         a \notin {"changed", "path-concurrency-unsafe", "path-bookkeeping-rollback-failed"},
         b # "changed",
         local[p].op = "path-add" /\ a = "unchanged" => Has(LivePath, local[p].route)
  PROVE  Reached(p)'
<1>1. AsFound(p)'
  BY DEF AsFound, Found, Safe
<1>2. state' = "gone" => begun[p].state = "gone"
  BY DEF Found
<1>3. LivePath' = LivePath
  BY DEF LivePath
<1>. QED BY <1>1, <1>2, <1>3, ReportIs

(* A request that is killed has said nothing.                              *)
LEMMA RestReached ==
  ASSUME NEW p \in Assist, local'[p] = Rest
  PROVE  Reached(p)'
<1>1. /\ local'[p].pc = "idle" /\ local'[p].op = "none"
      /\ local'[p].said.path = "none" /\ local'[p].said.state = "none"
  BY DEF Rest
<1>2. Answered(p)'
  BY <1>1 DEF Answered
<1>. QED BY <1>1, <1>2 DEF Reached

(* A request that has changed nothing yet goes on.                         *)
LEMMA FoundOn ==
  ASSUME PathTyped, NEW p \in Assist, begun'[p] = begun[p], Found(p), UNCHANGED shared,
         local'[p].pc \notin {"idle", "clear"}, local'[p].purpose = "none",
         local'[p].pc = "live" /\ local'[p].op # "path-add" => local'[p].record = record,
         local'[p].pc = "owned" /\ local'[p].op = "path-add" => local'[p].path = LivePath,
         local'[p].guided => /\ local'[p].record = record /\ LivePath # local'[p].record.path
                             /\ local'[p].pc \notin Rechecks
  PROVE  Reached(p)'
<1>1. Found(p)' /\ LivePath' = LivePath /\ record' = record
  BY DEF Found, shared, LivePath
<1>. QED BY <1>1 DEF Reached

(* How far a request is by the time it is where it is: the cases of        *)
(* Reached, one by one.                                                    *)
LEMMA ReachedNone ==
  ASSUME NEW p \in Assist, Reached(p), local[p].purpose = "none", local[p].pc \notin {"idle", "clear"}
  PROVE  /\ Found(p)
         /\ local[p].pc = "live" /\ local[p].op # "path-add" => local[p].record = record
         /\ local[p].pc = "owned" /\ local[p].op = "path-add" => local[p].path = LivePath
         /\ local[p].guided => /\ local[p].record = record /\ LivePath # local[p].record.path
                               /\ local[p].pc \notin Rechecks
BY DEF Reached

LEMMA ReachedAdd ==
  ASSUME NEW p \in Assist, Reached(p), local[p].purpose = "add", local[p].pc # "idle"
  PROVE  /\ IF local[p].pc = "record"
            THEN path = local[p].want /\ record = begun[p].record /\ state = begun[p].state
            ELSE Found(p) /\ LivePath = local[p].path
         /\ begun[p].path # NotText => local[p].path = begun[p].path
BY DEF Reached

LEMMA ReachedRemove ==
  ASSUME NEW p \in Assist, Reached(p), local[p].purpose = "remove", local[p].pc # "idle"
  PROVE  /\ IF local[p].pc = "clear"
            THEN path = local[p].want /\ record = begun[p].record /\ state = begun[p].state
            ELSE Found(p)
         /\ begun[p].path = local[p].path /\ local[p].record = begun[p].record
BY DEF Reached

LEMMA ReachedBatch ==
  ASSUME NEW p \in Assist, Reached(p), local[p].purpose = "batch", local[p].pc # "idle"
  PROVE  /\ IF local[p].pc \in {"compare", "write"} THEN path = local[p].expect ELSE path = local[p].want
         /\ begun[p].path = local[p].expect /\ record = begun[p].record /\ local[p].record = begun[p].record
         /\ IF local[p].pc = "clear" THEN state = "gone" ELSE state = begun[p].state
BY DEF Reached

LEMMA ReachedUndo ==
  ASSUME NEW p \in Assist, Reached(p), local[p].purpose = "undo", local[p].pc # "idle"
  PROVE  /\ path = local[p].expect /\ record = begun[p].record /\ met[p].failed > 0
         /\ begun[p].path # NotText => local[p].path = begun[p].path
BY DEF Reached

LEMMA ReachedRestore ==
  ASSUME NEW p \in Assist, Reached(p), local[p].purpose = "restore", local[p].pc # "idle"
  PROVE  /\ path = local[p].expect /\ record = begun[p].record /\ local[p].record = begun[p].record
         /\ begun[p].path = local[p].want /\ (state = "gone" => begun[p].state = "gone")
BY DEF Reached

(* Told, kept by the steps that read the shared values.                    *)
LEMMA ReadsTold ==
  ASSUME PathTyped, NEW p \in Assist, Planned(local[p]), Reached(p),
         \/ AddReadPath(p) \/ AddReadRecord(p) \/ ReadRecord(p)
         \/ RemoveReadPath(p) \/ BatchReadPath(p) \/ CleanupReadPath(p)
  PROVE  Reached(p)'
<1> DEFINE r == local[p]
<1>a. /\ UNCHANGED shared /\ r.pc \in {"live", "owned"} /\ r.purpose = "none"
  <2>1. UNCHANGED shared /\ r.pc \in {"live", "owned"}
    BY DEF AddReadPath, AddReadRecord, ReadRecord, RemoveReadPath, BatchReadPath, CleanupReadPath, Read, At
  <2>. QED BY <2>1, Whereabouts
<1>b. Shares /\ LivePath \in Values /\ (LivePath # Absent => LivePath = path) /\ (LivePath \in Texts => LivePath = path)
      /\ (path # NotText => LivePath = path)
  BY LiveValue DEF PathTyped, Shares
<1>c. /\ r \in Locals
      /\ r.path \in Values /\ r.expect \in Values /\ r.want \in Values
      /\ r.record \in {NoRecord, Garbage} \cup Records
      /\ r.route \in Route \cup {Empty} /\ r.guided \in BOOLEAN
  BY LocalTyped
<1>d. /\ Found(p)
      /\ r.pc = "live" /\ r.op # "path-add" => r.record = record
      /\ r.pc = "owned" /\ r.op = "path-add" => r.path = LivePath
      /\ r.guided => r.record = record /\ LivePath # r.record.path
  BY <1>a, ReachedNone
<1>e. UNCHANGED <<path, record>> /\ state' = state /\ LivePath' = LivePath
  BY <1>a DEF shared, LivePath
<1>f. \A l : Goto(p, l) => local'[p] = l /\ begun'[p] = begun[p]
  BY ValueIs
<1>g. ASSUME NEW a \in Words \ {"changed", "path-concurrency-unsafe", "path-bookkeeping-rollback-failed"},
             NEW b \in Words \ {"changed"}, Goto(p, End(p, a, b)),
             r.op = "path-add" /\ a = "unchanged" => Has(LivePath, r.route)
      PROVE  Reached(p)'
  BY <1>d, <1>e, <1>f, <1>g, FoundEnd
<1>h. ASSUME NEW b \in Words \ {"changed"}, Goto(p, EndState(p, b)), r.op # "path-add" PROVE Reached(p)'
  <2>1. EndState(p, b) = End(p, "unchanged", b) \/ EndState(p, b) = End(p, "none", b)
    BY DEF EndState
  <2>2. {"unchanged", "none"} \subseteq Words
    BY DEF Words
  <2>. QED BY <1>h, <1>g, <2>1, <2>2
<1>i. {"unchanged", "none", "path-ownership-changed", "state-record-missing", "path-remove-failed",
       "path-record-invalid", "path-correction-consent-required"} \subseteq Words
  BY DEF Words
<1>j. begun'[p] = begun[p] /\ Found(p)' /\ begun[p].path = path /\ begun[p].record = record
  <2>1. Goto(p, local'[p])
    <3>1. \E l : Goto(p, l)
      BY DEF AddReadPath, AddReadRecord, ReadRecord, RemoveReadPath, BatchReadPath, CleanupReadPath, Read
    <3>. QED BY <3>1, <1>f
  <2>2. begun'[p] = begun[p]
    BY <2>1, <1>f
  <2>. QED BY <1>d, <1>e, <2>2 DEF Found
<1>1. CASE AddReadPath(p)
  <2> DEFINE m == [Move(p, "owned") EXCEPT !.path = LivePath]
  <2>1. r.op = "path-add" /\ r.guided = FALSE /\ r.route \in Route
    BY <1>1, <1>c DEF AddReadPath, Planned
  <2>2. m.pc = "owned" /\ m.purpose = "none" /\ m.op = "path-add" /\ m.guided = FALSE /\ m.path = LivePath
    <3>1. "owned" \in PCs
      BY DEF PCs
    <3>. QED BY <2>1, <3>1, <1>a, MoveIs DEF Locals
  <2>3. Has(Safe(LivePath), r.route) => Has(LivePath, r.route)
    <3>1. Has(Safe(Absent), r.route) => r.route = Empty
      BY DEF Has, Safe, Text, ToSet
    <3>2. r.route # Empty
      BY <2>1, Apart
    <3>3. LivePath # Absent => Safe(LivePath) = LivePath
      BY <1>b, SafeText
    <3>. QED BY <3>1, <3>2, <3>3
  <2> HIDE DEF m
  <2>4. (Goto(p, End(p, "unchanged", "none")) /\ Has(LivePath, r.route)) \/ Goto(p, m)
    BY <1>1, <2>3 DEF AddReadPath, Read, m
  <2>5. ASSUME Goto(p, m) PROVE Reached(p)'
    <3>1. local'[p] = m
      BY <2>5, <1>f
    <3>. QED BY <1>a, <1>d, <1>j, <2>2, <3>1, FoundOn
  <2>. QED BY <1>g, <1>i, <2>4, <2>5
<1>2. CASE AddReadRecord(p)
  <2> DEFINE add(base) == CompareAndWrite(p, "add", r.path, Extended(base, r.route))
             m1 == add(Safe(r.path))
             m2 == add(Shortened(Safe(r.path)))
  <2>1. r.op = "path-add" /\ r.pc = "owned" /\ r.path = LivePath
    BY <1>2, <1>d DEF AddReadRecord, At
  <2>2. \A base : add(base).pc = "compare" /\ add(base).purpose = "add" /\ add(base).path = r.path
    BY <1>c DEF CompareAndWrite, Locals
  <2>3. m1.pc = "compare" /\ m1.purpose = "add" /\ m1.path = r.path
    BY <2>2
  <2>4. m2.pc = "compare" /\ m2.purpose = "add" /\ m2.path = r.path
    BY <2>2
  <2>5. /\ \/ Goto(p, m1) \/ Goto(p, m2)
           \/ Goto(p, End(p, "path-record-invalid", "none"))
           \/ Goto(p, End(p, "path-ownership-changed", "none"))
           \/ Goto(p, End(p, "path-correction-consent-required", "none"))
    <3>1. Goto(p, AddWith(p, record))
      BY <1>2 DEF AddReadRecord, Read
    <3> HIDE DEF m1, m2
    <3>2. \/ AddWith(p, record) = m1 \/ AddWith(p, record) = m2
          \/ AddWith(p, record) = End(p, "path-record-invalid", "none")
          \/ AddWith(p, record) = End(p, "path-ownership-changed", "none")
          \/ AddWith(p, record) = End(p, "path-correction-consent-required", "none")
      BY Apart DEF AddWith, m1, m2
    <3>. QED BY <3>1, <3>2
  <2> HIDE DEF m1, m2, add
  <2>6. ASSUME NEW m, m \in {m1, m2}, Goto(p, m) PROVE Reached(p)'
    <3>1. local'[p] = m /\ m.pc = "compare" /\ m.purpose = "add" /\ m.path = r.path
      BY <2>6, <1>f, <2>3, <2>4
    <3>2. begun[p].path # NotText => r.path = begun[p].path
      BY <2>1, <1>b, <1>j
    <3>. QED BY <1>e, <1>j, <2>1, <3>1, <3>2 DEF Reached
  <2>. QED BY <1>g, <1>i, <2>5, <2>6
<1>3. CASE ReadRecord(p)
  <2> DEFINE m == [Move(p, "live") EXCEPT !.record = record]
  <2>1. r.op # "path-add"
    BY <1>3 DEF ReadRecord
  <2>2. /\ m.pc = "live" /\ m.purpose = "none" /\ m.op = r.op /\ m.guided = r.guided /\ m.record = record
    <3>1. "live" \in PCs
      BY DEF PCs
    <3>. QED BY <1>a, <3>1, MoveIs DEF Locals
  <2> HIDE DEF m
  <2>3. \/ Goto(p, m) /\ (r.guided => record = r.record)
        \/ Goto(p, EndState(p, "path-ownership-changed"))
        \/ Goto(p, End(p, "unchanged", "none")) \/ Goto(p, End(p, "unchanged", "state-record-missing"))
        \/ Goto(p, End(p, "none", "state-record-missing"))
        \/ Goto(p, End(p, "path-ownership-changed", "path-remove-failed"))
    BY <1>3 DEF ReadRecord, Read, m
  <2>4. ASSUME Goto(p, m), r.guided => record = r.record PROVE Reached(p)'
    <3>1. local'[p] = m
      BY <2>4, <1>f
    <3>. QED BY <1>a, <1>d, <1>j, <2>2, <2>4, <3>1, FoundOn DEF Rechecks
  <2>. QED BY <1>g, <1>h, <1>i, <2>1, <2>3, <2>4
<1>4. CASE RemoveReadPath(p)
  <2> DEFINE c == CompareAndWrite(p, "remove", LivePath, Shortened(LivePath))
             m == [c EXCEPT !.path = LivePath]
  <2>1. r.op = "path-remove" /\ r.pc = "live" /\ r.record = record
    BY <1>4, <1>d DEF RemoveReadPath, At
  <2>2. m.pc = "compare" /\ m.purpose = "remove" /\ m.path = LivePath /\ m.record = r.record
    BY <1>c DEF CompareAndWrite, Locals
  <2> HIDE DEF m, c
  <2>3. \/ Goto(p, m) /\ LivePath = r.record.path
        \/ Goto(p, End(p, "unchanged", "none")) \/ Goto(p, End(p, "path-ownership-changed", "none"))
    BY <1>4 DEF RemoveReadPath, Read, m, c
  <2>4. ASSUME Goto(p, m), LivePath = r.record.path PROVE Reached(p)'
    <3>1. local'[p] = m
      BY <2>4, <1>f
    <3>2. r.record \in Records
      BY <2>1 DEF Planned
    <3>3. LivePath = path
      BY <1>b, <2>4, <3>2 DEF Records
    <3>. QED BY <1>e, <1>j, <2>1, <2>2, <3>1, <3>3 DEF Reached
  <2>. QED BY <1>g, <1>i, <2>1, <2>3, <2>4
<1>5. CASE BatchReadPath(p)
  <2> DEFINE c == CompareAndWrite(p, "batch", LivePath, Shortened(LivePath))
             m == [c EXCEPT !.path = LivePath]
             k == [Move(p, "owned") EXCEPT !.guided = TRUE]
  <2>1. r.op = "batch" /\ r.pc = "live" /\ r.record = record
    BY <1>5, <1>d DEF BatchReadPath, At
  <2>2. m.pc = "compare" /\ m.purpose = "batch" /\ m.expect = LivePath /\ m.record = r.record
    BY <1>c DEF CompareAndWrite, Locals
  <2>3. k.pc = "owned" /\ k.purpose = "none" /\ k.op = "batch" /\ k.record = r.record
    <3>1. "owned" \in PCs
      BY DEF PCs
    <3>. QED BY <1>a, <2>1, <3>1, MoveIs DEF Locals
  <2> HIDE DEF m, c, k
  <2>4. \/ Goto(p, m) /\ LivePath = r.record.path
        \/ Goto(p, k) /\ LivePath # r.record.path
        \/ Goto(p, End(p, "path-ownership-changed", "path-remove-failed"))
    BY <1>5 DEF BatchReadPath, Read, m, c, k
  <2>5. ASSUME Goto(p, m), LivePath = r.record.path PROVE Reached(p)'
    <3>1. local'[p] = m
      BY <2>5, <1>f
    <3>2. r.record \in Records
      BY <2>1 DEF Planned
    <3>3. LivePath = path
      BY <1>b, <2>5, <3>2 DEF Records
    <3>4. record' = record /\ path' = path /\ state' = begun[p].state
      BY <1>d, <1>e DEF Found
    <3>. QED BY <1>j, <2>1, <2>2, <3>1, <3>3, <3>4 DEF Reached
  <2>6. ASSUME Goto(p, k), LivePath # r.record.path PROVE Reached(p)'
    <3>1. local'[p] = k
      BY <2>6, <1>f
    <3>. QED BY <1>a, <1>d, <1>j, <2>1, <2>3, <2>6, <3>1, FoundOn DEF Rechecks
  <2>. QED BY <1>g, <1>i, <2>1, <2>4, <2>5, <2>6
<1>6. CASE CleanupReadPath(p)
  <2> DEFINE m == [Move(p, "record-again") EXCEPT !.want = LivePath]
  <2>1. r.pc = "live" /\ r.op # "path-add"
    BY <1>6 DEF CleanupReadPath, At, Planned
  <2>2. m.pc = "record-again" /\ m.purpose = "none" /\ m.guided = r.guided
    <3>1. "record-again" \in PCs
      BY DEF PCs
    <3>. QED BY <1>a, <3>1, MoveIs DEF Locals
  <2> HIDE DEF m
  <2>3. \/ Goto(p, m) /\ LivePath = r.record.path
        \/ Goto(p, EndState(p, "path-ownership-changed"))
    BY <1>6 DEF CleanupReadPath, Read, m
  <2>4. ASSUME Goto(p, m), LivePath = r.record.path PROVE Reached(p)'
    <3>1. local'[p] = m
      BY <2>4, <1>f
    <3>2. ~r.guided
      BY <1>d, <2>4
    <3>. QED BY <1>a, <1>c, <1>d, <1>j, <2>2, <3>1, <3>2, FoundOn
  <2>. QED BY <1>h, <1>i, <2>1, <2>3, <2>4
<1>. QED BY <1>1, <1>2, <1>3, <1>4, <1>5, <1>6

(* Told, kept by the steps that compare PATH and write it.                 *)
LEMMA WritesTold ==
  ASSUME PathTyped, NEW p \in Assist, Planned(local[p]), Reached(p),
         Compare(p) \/ Write(p) \/ WriteRecord(p)
  PROVE  Reached(p)'
<1> DEFINE r == local[p]
           b == begun[p]
<1>b. /\ Shares /\ LivePath \in Values
      /\ (LivePath # Absent => LivePath = path) /\ (LivePath \in Texts => LivePath = path)
      /\ (path # NotText => LivePath = path) /\ (path \in Values => LivePath = path)
  BY LiveValue, Apart DEF PathTyped, Shares, Values
<1>c. /\ r \in Locals
      /\ r.path \in Values /\ r.expect \in Values /\ r.want \in Values
      /\ r.record \in {NoRecord, Garbage} \cup Records
      /\ r.route \in Route \cup {Empty} /\ r.guided \in BOOLEAN
  BY LocalTyped
<1>f. \A l : Goto(p, l) => local'[p] = l /\ begun'[p] = b
  BY ValueIs
<1>i. {"changed", "none", "path-bookkeeping-failed", "state-delete-failed"} \subseteq Words
  BY DEF Words
<1>m. \A at \in PCs :
        /\ Move(p, at).pc = at /\ Move(p, at).purpose = r.purpose /\ Move(p, at).expect = r.expect
        /\ Move(p, at).want = r.want /\ Move(p, at).path = r.path /\ Move(p, at).record = r.record
  BY MoveIs
<1>1. CASE Compare(p)
  <2> DEFINE m == Move(p, "write")
  <2>1. r.pc = "compare" /\ r.purpose \in {"add", "remove", "batch", "undo", "restore"}
    BY <1>1, Whereabouts DEF Compare, At
  <2>2. /\ m.pc = "write" /\ m.purpose = r.purpose /\ m.expect = r.expect /\ m.want = r.want
        /\ m.path = r.path /\ m.record = r.record
    <3>1. "write" \in PCs
      BY DEF PCs
    <3>. QED BY <3>1, <1>m
  <2>3. LivePath = r.expect
    <3>1. CASE r.purpose = "add"
      BY <2>1, <3>1, ReachedAdd DEF Planned
    <3>2. CASE r.purpose = "remove"
      BY <1>b, <1>c, <2>1, <3>2, ReachedRemove DEF Planned, Found
    <3>3. CASE r.purpose = "batch"
      BY <1>b, <1>c, <2>1, <3>3, ReachedBatch
    <3>4. CASE r.purpose = "undo"
      BY <1>b, <1>c, <2>1, <3>4, ReachedUndo
    <3>5. CASE r.purpose = "restore"
      BY <1>b, <1>c, <2>1, <3>5, ReachedRestore
    <3>. QED BY <2>1, <3>1, <3>2, <3>3, <3>4, <3>5
  <2> HIDE DEF m
  <2>4. UNCHANGED shared /\ Goto(p, m)
    BY <1>1, <2>3 DEF Compare, Read, m
  <2>5. local'[p] = m /\ begun'[p] = b /\ met'[p] = met[p]
    <3>1. local'[p] \in Locals /\ local'[p] = m
      <4>1. Step(p) /\ ~Begin(p)
        BY <1>1, <2>1 DEF Step, Begin, At
      <4>. QED BY <4>1, <2>4, <1>f, PlannedStep
    <3>. QED BY <2>4, <1>f, <3>1, GotoIs
  <2>6. UNCHANGED <<path, record, state>> /\ LivePath' = LivePath /\ (Found(p) => Found(p)')
    BY <2>4, <2>5 DEF shared, LivePath, Found
  <2>7. CASE r.purpose = "add"
    BY <2>1, <2>2, <2>5, <2>6, <2>7, ReachedAdd DEF Reached
  <2>8. CASE r.purpose = "remove"
    BY <2>1, <2>2, <2>5, <2>6, <2>8, ReachedRemove DEF Reached
  <2>9. CASE r.purpose = "batch"
    BY <2>1, <2>2, <2>5, <2>6, <2>9, ReachedBatch DEF Reached
  <2>10. CASE r.purpose = "undo"
    BY <2>1, <2>2, <2>5, <2>6, <2>10, ReachedUndo DEF Reached
  <2>11. CASE r.purpose = "restore"
    BY <2>1, <2>2, <2>5, <2>6, <2>11, ReachedRestore DEF Reached
  <2>. QED BY <2>1, <2>7, <2>8, <2>9, <2>10, <2>11
<1>2. CASE Write(p)
  <2>1. /\ r.pc = "write" /\ r.purpose \in {"add", "remove", "batch", "undo", "restore"}
        /\ path' = r.want /\ record' = record /\ state' = state
    BY <1>2, Whereabouts DEF Write, At
  <2>2. CASE r.purpose = "add"
    <3>1. Goto(p, Move(p, "record")) /\ "record" \in PCs
      BY <1>2, <2>2 DEF Write, PCs
    <3>2. /\ local'[p].pc = "record" /\ local'[p].purpose = "add" /\ local'[p].want = r.want
          /\ local'[p].path = r.path /\ begun'[p] = b
      BY <1>f, <1>m, <2>2, <3>1
    <3>. QED BY <2>1, <2>2, <3>2, ReachedAdd DEF Reached, Found
  <2>3. CASE r.purpose = "remove"
    <3>1. Goto(p, Move(p, "clear")) /\ "clear" \in PCs
      BY <1>2, <2>3 DEF Write, PCs
    <3>2. /\ local'[p].pc = "clear" /\ local'[p].purpose = "remove" /\ local'[p].want = r.want
          /\ local'[p].path = r.path /\ local'[p].record = r.record /\ begun'[p] = b
      BY <1>f, <1>m, <2>3, <3>1
    <3>. QED BY <2>1, <2>3, <3>2, ReachedRemove DEF Reached, Found
  <2>4. CASE r.purpose = "batch"
    <3>1. Goto(p, Move(p, "notify")) /\ "notify" \in PCs
      BY <1>2, <2>4 DEF Write, PCs
    <3>2. /\ local'[p].pc = "notify" /\ local'[p].purpose = "batch" /\ local'[p].want = r.want
          /\ local'[p].expect = r.expect /\ local'[p].record = r.record /\ begun'[p] = b
      BY <1>f, <1>m, <2>4, <3>1
    <3>. QED BY <2>1, <2>4, <3>2, ReachedBatch DEF Reached
  <2>5. CASE r.purpose = "undo"
    <3>1. Goto(p, End(p, "path-bookkeeping-failed", "none"))
      BY <1>2, <2>5 DEF Write
    <3>2. local'[p] = End(p, "path-bookkeeping-failed", "none") /\ begun'[p] = b
      BY <1>f, <3>1
    <3>3. record = b.record /\ (b.path # NotText => r.path = b.path) /\ r.want = Safe(r.path)
          /\ r.op \in {"path-add", "path-remove"}
      BY <2>1, <2>5, ReachedUndo DEF Planned
    <3>4. AsFound(p)'
      <4>1. Safe(Safe(r.path)) = Safe(r.path)
        BY <1>c, SafeText
      <4>2. b.path # NotText => Safe(path') = Safe(b.path)
        BY <2>1, <3>3, <4>1
      <4>. QED BY <2>1, <3>2, <3>3, <4>2 DEF AsFound, Safe
    <3>. QED BY <1>i, <3>2, <3>3, <3>4, ReportIs
  <2>6. CASE r.purpose = "restore"
    <3>1. Goto(p, End(p, "state-delete-failed", "state-delete-failed"))
      BY <1>2, <2>6 DEF Write
    <3>2. local'[p] = End(p, "state-delete-failed", "state-delete-failed") /\ begun'[p] = b
      BY <1>f, <3>1
    <3>3. record = b.record /\ b.path = r.want /\ (state = "gone" => b.state = "gone") /\ r.op = "batch"
      BY <2>1, <2>6, ReachedRestore DEF Planned
    <3>4. AsFound(p)'
      BY <2>1, <3>2, <3>3 DEF AsFound, Safe
    <3>. QED BY <1>i, <2>1, <3>2, <3>3, <3>4, ReportIs
  <2>. QED BY <2>1, <2>2, <2>3, <2>4, <2>5, <2>6
<1>3. CASE WriteRecord(p)
  <2>1. /\ r.pc = "record" /\ r.purpose = "add"
        /\ record' = Record(r.route, r.want) /\ path' = path /\ state' = state
        /\ Goto(p, End(p, "changed", "none"))
    BY <1>3, Whereabouts DEF WriteRecord, At
  <2>2. local'[p] = End(p, "changed", "none") /\ begun'[p] = b
    BY <1>f, <2>1
  <2>3. path = r.want /\ r.want \in Texts /\ Has(r.want, r.route) /\ r.op = "path-add"
    BY <2>1, ReachedAdd DEF Planned
  <2>4. LivePath' = path'
    BY <1>b, <2>1, <2>3 DEF LivePath, Values
  <2>5. Has(LivePath', r.route) /\ record' = Record(r.route, path')
    BY <2>1, <2>3, <2>4
  <2>. QED BY <1>i, <2>2, <2>3, <2>5, ReportIs
<1>. QED BY <1>1, <1>2, <1>3

(* Told, kept by the steps that prove and delete the state, and clear the  *)
(* record.                                                                 *)
LEMMA StateTold ==
  ASSUME PathTyped, NEW p \in Assist, Planned(local[p]), Reached(p),
         \/ Notify(p) \/ RecheckRecord(p) \/ RecheckPath(p)
         \/ Delete(p) \/ DeleteFails(p) \/ ClearRecord(p)
  PROVE  Reached(p)'
<1> DEFINE r == local[p]
           b == begun[p]
<1>c. /\ r \in Locals
      /\ r.path \in Values /\ r.expect \in Values /\ r.want \in Values
      /\ r.record \in {NoRecord, Garbage} \cup Records
      /\ r.route \in Route \cup {Empty} /\ r.guided \in BOOLEAN
  BY LocalTyped
<1>f. \A l : Goto(p, l) \/ Fault(p, l) => local'[p] = l /\ begun'[p] = b
  BY ValueIs
<1>i. {"changed", "none", "path-ownership-changed", "state-delete-failed"} \subseteq Words
  BY DEF Words
<1>m. \A at \in PCs :
        /\ Move(p, at).pc = at /\ Move(p, at).purpose = r.purpose /\ Move(p, at).expect = r.expect
        /\ Move(p, at).want = r.want /\ Move(p, at).path = r.path /\ Move(p, at).record = r.record
        /\ Move(p, at).guided = r.guided /\ Move(p, at).op = r.op
  BY MoveIs
<1>o. {"record-again", "path-again", "delete", "clear"} \subseteq PCs
  BY DEF PCs
<1>p. /\ r.pc = "notify" => r.purpose = "batch"
      /\ r.pc \in Rechecks => r.purpose \in {"none", "batch"}
      /\ r.pc = "clear" => r.purpose \in {"none", "remove", "batch"}
  BY Whereabouts
<1>q. ASSUME r.purpose = "batch", r.pc # "idle"
      PROVE  r.op = "batch" /\ r.record \in Records /\ Valid(r.record) /\ r.record = b.record
             /\ r.want = Shortened(b.record.path) /\ record = b.record
             /\ r.expect = r.record.path /\ b.path = r.record.path
  BY <1>q, ReachedBatch, Apart DEF Planned, Provides, Valid
<1>r. ASSUME r.purpose = "none", r.pc \in Rechecks
      PROVE  Found(p) /\ ~r.guided
  BY <1>r, <1>c, ReachedNone DEF Rechecks
<1>s. ASSUME r.purpose = "none", r.pc \in Rechecks, NEW x \in Words \ {"changed"},
             local'[p] = EndState(p, x), begun'[p] = b,
             UNCHANGED <<path, record>>, state' = state \/ state' # "gone"
      PROVE  Reached(p)'
  <2>1. EndState(p, x) = End(p, "none", x)
    BY <1>r, <1>s DEF EndState
  <2>. QED BY <1>i, <1>r, <1>s, <2>1, FoundEnd
<1>t. ASSUME r.purpose = "batch", r.pc \in Rechecks, Goto(p, Changed(p)), UNCHANGED shared
      PROVE  Reached(p)'
  <2>1. Changed(p) = End(p, "changed", "path-ownership-changed")
    BY <1>t DEF Changed
  <2>2. local'[p] = End(p, "changed", "path-ownership-changed") /\ begun'[p] = b
    BY <1>f, <1>t, <2>1
  <2>3. path = r.want /\ state = b.state
    BY <1>t, ReachedBatch DEF Rechecks
  <2>4. path' = path /\ state' = state
    BY <1>t DEF shared
  <2>5. r.op = "batch" /\ Valid(b.record) /\ path' = Shortened(b.record.path)
    BY <1>q, <1>t, <2>3, <2>4 DEF Rechecks
  <2>. QED BY <1>i, <2>2, <2>3, <2>4, <2>5, ReportIs
<1>u. ASSUME NEW at \in {"record-again", "path-again", "delete"}, Goto(p, Move(p, at)), UNCHANGED shared,
             r.pc = "notify" \/ r.pc \in Rechecks
      PROVE  Reached(p)'
  <2>1. /\ local'[p].pc = at /\ local'[p].purpose = r.purpose /\ local'[p].expect = r.expect
        /\ local'[p].want = r.want /\ local'[p].record = r.record /\ local'[p].guided = r.guided
        /\ begun'[p] = b
    BY <1>f, <1>m, <1>o, <1>u
  <2>2. path' = path /\ record' = record /\ state' = state
    BY <1>u DEF shared
  <2>3. CASE r.purpose = "none"
    BY <1>p, <1>r, <1>u, <2>1, <2>2, <2>3, FoundOn
  <2>4. CASE r.purpose = "batch"
    BY <1>u, <2>1, <2>2, <2>4, ReachedBatch DEF Reached, Rechecks
  <2>. QED BY <1>p, <1>u, <2>3, <2>4
<1>1. CASE Notify(p)
  BY <1>1, <1>u DEF Notify, Read, At
<1>2. CASE RecheckRecord(p)
  <2>1. UNCHANGED shared /\ r.pc \in Rechecks /\ (Goto(p, Move(p, "path-again")) \/ Goto(p, Changed(p)))
    BY <1>2 DEF RecheckRecord, Read, At, Rechecks
  <2>2. CASE Goto(p, Move(p, "path-again"))
    BY <1>u, <2>1, <2>2
  <2>3. CASE Goto(p, Changed(p)) /\ r.purpose = "none"
    BY <1>f, <1>i, <1>s, <2>1, <2>3 DEF Changed, shared
  <2>4. CASE Goto(p, Changed(p)) /\ r.purpose = "batch"
    BY <1>t, <2>1, <2>4
  <2>. QED BY <1>p, <2>1, <2>2, <2>3, <2>4
<1>3. CASE RecheckPath(p)
  <2>1. UNCHANGED shared /\ r.pc \in Rechecks /\ (Goto(p, Move(p, "delete")) \/ Goto(p, Changed(p)))
    BY <1>3 DEF RecheckPath, Read, At, Rechecks
  <2>2. CASE Goto(p, Move(p, "delete"))
    BY <1>u, <2>1, <2>2
  <2>3. CASE Goto(p, Changed(p)) /\ r.purpose = "none"
    BY <1>f, <1>i, <1>s, <2>1, <2>3 DEF Changed, shared
  <2>4. CASE Goto(p, Changed(p)) /\ r.purpose = "batch"
    BY <1>t, <2>1, <2>4
  <2>. QED BY <1>p, <2>1, <2>2, <2>3, <2>4
<1>4. CASE Delete(p)
  <2>1. /\ r.pc = "delete" /\ r.pc \in Rechecks /\ state' = "gone" /\ path' = path /\ record' = record
        /\ Goto(p, Move(p, "clear"))
    BY <1>4 DEF Delete, At, Rechecks
  <2>2. /\ local'[p].pc = "clear" /\ local'[p].purpose = r.purpose /\ local'[p].expect = r.expect
        /\ local'[p].want = r.want /\ local'[p].record = r.record /\ local'[p].guided = r.guided
        /\ begun'[p] = b
    BY <1>f, <1>m, <1>o, <2>1
  <2>3. CASE r.purpose = "none"
    BY <1>r, <2>1, <2>2, <2>3 DEF Reached
  <2>4. CASE r.purpose = "batch"
    BY <2>1, <2>2, <2>4, ReachedBatch DEF Reached
  <2>. QED BY <1>p, <2>1, <2>3, <2>4
<1>5. CASE DeleteFails(p)
  <2> DEFINE m == CompareAndWrite(p, "restore", r.want, r.record.path)
  <2>1. /\ r.pc = "delete" /\ r.pc \in Rechecks /\ path' = path /\ record' = record
        /\ state' = state \/ state' # "gone"
        /\ Goto(p, NotDeleted(p)) \/ Fault(p, NotDeleted(p))
    BY <1>5 DEF DeleteFails, At, Rechecks, Read, shared, Fault
  <2>2. local'[p] = NotDeleted(p) /\ begun'[p] = b
    BY <1>f, <2>1
  <2>3. CASE r.purpose = "none"
    BY <1>i, <1>s, <2>1, <2>2, <2>3 DEF NotDeleted
  <2>4. CASE r.purpose = "batch"
    <3>1. m.pc = "compare" /\ m.purpose = "restore" /\ m.expect = r.want /\ m.want = r.record.path
          /\ m.record = r.record
      BY <1>c DEF CompareAndWrite, Locals
    <3> HIDE DEF m
    <3>2. local'[p] = m
      BY <2>2, <2>4 DEF NotDeleted, m
    <3>3. path = r.want /\ state = b.state
      BY <2>1, <2>4, ReachedBatch
    <3>4. record = b.record /\ r.record = b.record /\ b.path = r.record.path
      BY <1>q, <2>1, <2>4
    <3>. QED BY <2>1, <2>2, <3>1, <3>2, <3>3, <3>4 DEF Reached
  <2>. QED BY <1>p, <2>1, <2>3, <2>4
<1>6. CASE ClearRecord(p)
  <2>1. r.pc = "clear" /\ record' = NoRecord /\ path' = path /\ state' = state
    BY <1>6 DEF ClearRecord, At
  <2>2. CASE r.purpose = "remove"
    <3>1. Goto(p, End(p, "changed", "none"))
      BY <1>6, <2>2 DEF ClearRecord
    <3>2. local'[p] = End(p, "changed", "none") /\ begun'[p] = b
      BY <1>f, <3>1
    <3>3. /\ r.op = "path-remove" /\ r.record \in Records /\ r.record = b.record
          /\ path = r.want /\ r.want = Shortened(b.record.path)
      BY <2>1, <2>2, ReachedRemove DEF Planned, Provides
    <3>4. Valid(b.record)
      BY <3>3, Apart DEF Valid
    <3>. QED BY <1>i, <2>1, <3>2, <3>3, <3>4, ReportIs
  <2>3. CASE r.purpose = "batch"
    <3>1. Goto(p, End(p, "changed", "changed"))
      BY <1>6, <2>3 DEF ClearRecord
    <3>2. local'[p] = End(p, "changed", "changed") /\ begun'[p] = b
      BY <1>f, <3>1
    <3>3. path = r.want /\ state = "gone"
      BY <2>1, <2>3, ReachedBatch
    <3>4. r.op = "batch" /\ Valid(b.record) /\ path' = Shortened(b.record.path)
      BY <1>q, <2>1, <2>3, <3>3
    <3>. QED BY <1>i, <2>1, <3>2, <3>3, <3>4, ReportIs
  <2>4. CASE r.purpose = "none"
    <3>1. Goto(p, EndState(p, "changed"))
      BY <1>6, <2>4 DEF ClearRecord
    <3>2. state = "gone" /\ ~r.guided
      BY <2>1, <2>4 DEF Reached
    <3>3. local'[p] = End(p, "none", "changed") /\ begun'[p] = b
      BY <1>f, <3>1, <3>2 DEF EndState
    <3>. QED BY <1>i, <2>1, <3>2, <3>3, ReportIs
  <2>. QED BY <1>p, <2>1, <2>2, <2>3, <2>4
<1>. QED BY <1>1, <1>2, <1>3, <1>4, <1>5, <1>6

(* Told, kept when a call fails, or the assist is killed.                  *)
LEMMA FailsTold ==
  ASSUME PathTyped, NEW p \in Assist, Planned(local[p]), Reached(p), CallFails(p) \/ Killed(p)
  PROVE  Reached(p)'
<1> DEFINE r == local[p]
           b == begun[p]
<1>a. /\ UNCHANGED <<path, record, state>> /\ r.pc # "idle"
      /\ CallFails(p) => Fault(p, Caught(p)) /\ r.pc \notin {"notify", "delete"}
      /\ Killed(p) => Fault(p, Rest)
  BY DEF CallFails, Killed, At, Fault
<1>c. /\ r \in Locals
      /\ r.path \in Values /\ r.expect \in Values /\ r.want \in Values
      /\ r.record \in {NoRecord, Garbage} \cup Records
      /\ r.purpose \in {"none", "add", "remove", "batch", "undo", "restore"}
      /\ r.pc \in PCs
      /\ r.op \in {"none", "path-add", "path-remove", "batch", "state-cleanup"}
  BY LocalTyped
<1>f. \A l : Fault(p, l) => local'[p] = l /\ begun'[p] = b
  BY ValueIs
<1>g. met[p].failed \in Nat /\ (CallFails(p) => met'[p].failed = met[p].failed + 1)
  <2>1. met[p].failed \in Nat
    BY DEF PathTyped
  <2>2. ASSUME CallFails(p) PROVE met'[p].failed = met[p].failed + 1
    <3>1. Step(p) /\ ~Begin(p)
      BY <1>a, <2>2 DEF Step, Begin, At
    <3>2. local'[p] \in Locals
      BY <3>1, PlannedStep
    <3>3. Fault(p, local'[p])
      BY <1>a, <1>f, <2>2
    <3>. QED BY <3>2, <3>3, GotoIs
  <2>. QED BY <2>1, <2>2
<1>h. /\ r.pc \in {"live", "owned"} \cup Rechecks =>  r.purpose \in {"none", "batch"}
      /\ r.pc = "record" => r.purpose = "add"
      /\ r.pc = "clear" => r.purpose \in {"none", "remove", "batch"}
      /\ r.pc \in {"compare", "write"} => r.purpose \in {"add", "remove", "batch", "undo", "restore"}
  BY Whereabouts
<1>i. {"changed", "none", "raised", "path-access-failed", "state-bookkeeping-failed",
       "path-restore-failed"} \subseteq Words
  BY DEF Words
<1>1. CASE Killed(p)
  BY <1>1, <1>a, <1>f, RestReached
<1>2. CASE CallFails(p) /\ r.pc = "record"
  <2> DEFINE w == Text(Safe(r.path).elems, r.want.type)
             m == CompareAndWrite(p, "undo", r.want, w)
  <2>1. local'[p] = m /\ begun'[p] = b
    <3>1. Caught(p) = m
      BY <1>2 DEF Caught, UndoAdd
    <3>. QED BY <1>2, <1>a, <1>f, <3>1
  <2>2. m.pc = "compare" /\ m.purpose = "undo" /\ m.expect = r.want /\ m.path = r.path
    BY <1>c DEF CompareAndWrite, Locals
  <2> HIDE DEF m, w
  <2>3. path = r.want /\ record = b.record /\ (b.path # NotText => r.path = b.path)
    BY <1>2, <1>h, ReachedAdd
  <2>4. met'[p].failed > 0
    BY <1>2, <1>g
  <2>. QED BY <1>a, <2>1, <2>2, <2>3, <2>4 DEF Reached
<1>3. CASE CallFails(p) /\ r.pc = "clear" /\ r.purpose = "remove"
  <2> DEFINE m == CompareAndWrite(p, "undo", r.want, r.path)
  <2>1. local'[p] = m /\ begun'[p] = b
    <3>1. Caught(p) = m
      BY <1>3 DEF Caught, UndoRemove
    <3>. QED BY <1>3, <1>a, <1>f, <3>1
  <2>2. m.pc = "compare" /\ m.purpose = "undo" /\ m.expect = r.want /\ m.path = r.path
    BY <1>c DEF CompareAndWrite, Locals
  <2> HIDE DEF m
  <2>3. path = r.want /\ record = b.record /\ r.path = b.path
    BY <1>3, ReachedRemove
  <2>4. met'[p].failed > 0
    BY <1>3, <1>g
  <2>. QED BY <1>a, <2>1, <2>2, <2>3, <2>4 DEF Reached
<1>4. CASE CallFails(p) /\ r.pc = "clear" /\ r.purpose = "batch"
  <2>1. local'[p] = End(p, "changed", "state-bookkeeping-failed") /\ begun'[p] = b
    <3>1. Caught(p) = End(p, "changed", "state-bookkeeping-failed")
      BY <1>4 DEF Caught
    <3>. QED BY <1>4, <1>a, <1>f, <3>1
  <2>2. r.op = "batch" /\ Valid(b.record) /\ path = Shortened(b.record.path)
    <3>1. /\ r.op = "batch" /\ r.record \in Records /\ r.want = Shortened(r.record.path)
          /\ r.record = b.record /\ path = r.want
      BY <1>4, ReachedBatch DEF Planned, Provides
    <3>. QED BY <3>1, Apart DEF Valid
  <2>. QED BY <1>a, <1>i, <2>1, <2>2, ReportIs
<1>5. CASE CallFails(p) /\ r.pc = "clear" /\ r.purpose = "none"
  <2>1. local'[p] = EndState(p, "state-bookkeeping-failed") /\ begun'[p] = b
    <3>1. Caught(p) = EndState(p, "state-bookkeeping-failed")
      BY <1>5 DEF Caught
    <3>. QED BY <1>5, <1>a, <1>f, <3>1
  <2>2. ~r.guided
    BY <1>5 DEF Reached
  <2>3. local'[p] = End(p, "none", "state-bookkeeping-failed")
    BY <2>1, <2>2 DEF EndState
  <2>. QED BY <1>i, <2>1, <2>3, ReportIs
<1>6. CASE CallFails(p) /\ r.pc \in {"compare", "write"} /\ r.purpose = "restore"
  <2>1. local'[p] = End(p, "changed", "path-restore-failed") /\ begun'[p] = b
    <3>1. Caught(p) = End(p, "changed", "path-restore-failed")
      BY <1>6 DEF Caught
    <3>. QED BY <1>6, <1>a, <1>f, <3>1
  <2>2. /\ r.op = "batch" /\ r.record \in Records /\ r.expect = Shortened(r.record.path)
        /\ r.record = b.record /\ path = r.expect /\ (state = "gone" => b.state = "gone")
    BY <1>6, ReachedRestore DEF Planned, Provides
  <2>3. Valid(b.record) /\ path' = Shortened(b.record.path)
    BY <1>a, <2>2, Apart DEF Valid
  <2>. QED BY <1>a, <1>i, <2>1, <2>2, <2>3, ReportIs
<1>7. CASE /\ CallFails(p) /\ r.pc \notin {"record", "clear"}
           /\ ~(r.pc \in {"compare", "write"} /\ r.purpose = "restore")
  <2>1. local'[p] = Raised(p) /\ begun'[p] = b
    <3>1. Caught(p) = Raised(p)
      BY <1>7 DEF Caught
    <3>. QED BY <1>7, <1>a, <1>f, <3>1
  <2>2. CASE r.op \notin {"path-add", "path-remove"}
    <3>1. local'[p] = End(p, "raised", "raised")
      BY <2>1, <2>2 DEF Raised
    <3>. QED BY <1>i, <2>1, <2>2, <3>1, ReportIs
  <2>3. CASE r.op \in {"path-add", "path-remove"}
    <3>1. local'[p] = End(p, "path-access-failed", "none")
      BY <2>1, <2>3 DEF Raised
    <3>2. r.purpose # "batch"
      BY <2>3 DEF Planned
    <3>3. CASE r.purpose = "undo"
      <4>1. ~(met'[p].failed < 2)
        BY <1>7, <1>a, <1>g, <3>3, ReachedUndo
      <4>. QED BY <1>i, <2>1, <2>3, <3>1, <4>1, ReportIs
    <3>4. CASE r.purpose # "undo"
      <4>1. Found(p)
        <5>1. CASE r.purpose = "none"
          BY <1>7, <1>a, <5>1, ReachedNone
        <5>2. CASE r.purpose = "add"
          BY <1>7, <1>a, <5>2, ReachedAdd
        <5>3. CASE r.purpose = "remove"
          BY <1>7, <1>a, <5>3, ReachedRemove
        <5>4. r.purpose # "restore"
          BY <1>7, <1>a DEF Planned, Placed
        <5>. QED BY <1>c, <3>2, <3>4, <5>1, <5>2, <5>3, <5>4
      <4>. QED BY <1>a, <1>i, <2>1, <3>1, <4>1, FoundEnd
    <3>. QED BY <3>3, <3>4
  <2>. QED BY <2>2, <2>3
<1>. QED BY <1>a, <1>h, <1>1, <1>2, <1>3, <1>4, <1>5, <1>6, <1>7

(* What a request knows of how far it has got is true, as long as nobody   *)
(* else has written.                                                       *)
LEMMA ToldStep ==
  ASSUME PathTyped, NEW p \in Assist, Planned(local[p]), Told(p), Step(p)
  PROVE  Told(p)'
<1>1. CASE Begin(p)
  <2>1. /\ UNCHANGED shared /\ local'[p].purpose = "none" /\ local'[p].guided = FALSE
        /\ \/ local'[p].pc = "live" /\ local'[p].op = "path-add"
           \/ local'[p].pc = "owned" /\ local'[p].op # "path-add"
        /\ begun'[p] = [path |-> path, record |-> record, state |-> state]
    BY <1>1, BeginIs
  <2>2. Found(p)'
    BY <2>1 DEF Found, shared
  <2>. QED BY <2>1, <2>2 DEF Told, Reached
<1>2. CASE ~Begin(p)
  <2>1. met'[p].others = met[p].others
    <3>1. local'[p] \in Locals /\ (Goto(p, local'[p]) \/ Fault(p, local'[p]))
      BY <1>2, PlannedStep
    <3>. QED BY <3>1, GotoIs
  <2>2. ASSUME ~met'[p].others PROVE Reached(p)'
    <3>1. Reached(p)
      BY <2>1, <2>2 DEF Told
    <3>. QED BY <1>2, <3>1, ReadsTold, WritesTold, StateTold, FailsTold DEF Step
  <2>. QED BY <2>2 DEF Told
<1>. QED BY <1>1, <1>2

(* The invariant holds at the start.                                       *)
LEMMA PathStarts == PathInit => PathInv
<1> SUFFICES ASSUME PathInit PROVE PathInv
  OBVIOUS
<1>1. \A t \in Type : Text(<<Foreign>>, t) \in Texts
  BY DEF Texts, Text
<1>2. path \in Values /\ record \in {NoRecord} \cup Records
  <2>1. CASE path \in {Absent} \cup {Text(<<Foreign>>, t) : t \in Type} /\ record = NoRecord
    BY <1>1, <2>1 DEF Values
  <2>2. ASSUME NEW r \in Route, NEW t \in Type, path = Extended(Text(<<Foreign>>, t), r), record = Record(r, path)
        PROVE  path \in Values /\ record \in {NoRecord} \cup Records
    <3>1. path \in Texts
      BY <1>1, <2>2, ExtendedText
    <3>. QED BY <2>2, <3>1 DEF Values, Records, Record
  <2>. QED BY <2>1, <2>2 DEF PathInit
<1>3. Shares
  BY <1>2 DEF PathInit, Shares
<1>4. /\ local = [p \in Assist |-> Rest]
      /\ begun = [p \in Assist |-> [path |-> path, record |-> record, state |-> state]]
      /\ met = [p \in Assist |-> [others |-> FALSE, failed |-> 0]]
      /\ raced = [p \in Assist |-> FALSE]
      /\ requests = 0 /\ troubles = 0
  BY DEF PathInit
<1>5. local \in [Assist -> Locals]
  BY <1>4, RestTyped
<1>6. begun \in [Assist -> [path : {NotText} \cup Values, record : {NoRecord, Garbage} \cup Records,
                            state : {"whole", "part", "gone"}]]
  BY <1>3, <1>4 DEF Shares
<1>7. PathTyped
  BY <1>3, <1>4, <1>5, <1>6 DEF PathTyped
<1>8. ASSUME NEW p \in Assist PROVE Planned(local[p]) /\ Compared(p) /\ Told(p)
  <2>1. local[p] = Rest
    BY <1>4
  <2>2. Rest.pc = "idle" /\ Rest.purpose = "none" /\ Rest.guided = FALSE /\ Rest.op = "none"
        /\ Rest.said.path = "none" /\ Rest.said.state = "none"
    BY DEF Rest
  <2>3. Planned(local[p])
    BY <2>1, <2>2, DonePlanned
  <2>4. Compared(p)
    BY <2>1, <2>2 DEF Compared, At
  <2>5. Answered(p)
    BY <2>1, <2>2 DEF Answered
  <2>. QED BY <2>1, <2>2, <2>3, <2>4, <2>5 DEF Told, Reached
<1>. QED BY <1>7, <1>8 DEF PathInv

(* What holds of a request that has not moved still holds when nobody has  *)
(* changed what it relies on.                                              *)
LEMMA Unmoved ==
  ASSUME NEW q \in Assist, Planned(local[q]), Compared(q), Told(q),
         local'[q] = local[q], begun'[q] = begun[q],
         ~met'[q].others => ~met[q].others /\ shared' = shared /\ met'[q] = met[q],
         ~raced'[q] => ~raced[q] /\ path' = path /\ record' = record
  PROVE  Planned(local'[q]) /\ Compared(q)' /\ Told(q)'
<1>1. Compared(q)'
  BY DEF Compared, At, LivePath
<1>2. ASSUME ~met'[q].others PROVE Reached(q)'
  <2>1. Reached(q) /\ path' = path /\ record' = record /\ state' = state /\ met'[q] = met[q]
    BY <1>2 DEF Told, shared
  <2>2. LivePath' = LivePath /\ (Found(q)' <=> Found(q)) /\ (AsFound(q)' <=> AsFound(q))
    BY <2>1 DEF LivePath, Found, AsFound, Safe
  <2>3. Answered(q)' <=> Answered(q)
    BY <2>1, <2>2 DEF Answered, Has, Valid
  <2>. QED BY <2>1, <2>2, <2>3 DEF Reached
<1>. QED BY <1>1, <1>2 DEF Told

(* Every step keeps it: one of an assist, and one of anybody else.         *)
LEMMA PathKept == PathInv /\ [PathNext]_pathVars => PathInv'
<1> SUFFICES ASSUME PathInv, [PathNext]_pathVars PROVE PathInv'
  OBVIOUS
<1>0. PathTyped /\ \A p \in Assist : Planned(local[p]) /\ Compared(p) /\ Told(p)
  BY DEF PathInv
<1>1. ASSUME NEW p \in Assist, Step(p) PROVE PathInv'
  <2>1. PathTyped' /\ Planned(local'[p])
    BY <1>0, <1>1, StepIs
  <2>2. Compared(p)' /\ Told(p)'
    BY <1>0, <1>1, ComparedStep, ToldStep
  <2>3. ASSUME NEW q \in Assist \ {p} PROVE Planned(local'[q]) /\ Compared(q)' /\ Told(q)'
    <3>1. /\ local'[q] = local[q] /\ begun'[q] = begun[q]
          /\ ~met'[q].others => ~met[q].others /\ shared' = shared /\ met'[q] = met[q]
          /\ ~raced'[q] => ~raced[q] /\ path' = path /\ record' = record
      BY <1>0, <1>1, StepIs
    <3>. QED BY <1>0, <3>1, Unmoved
  <2>. QED BY <2>1, <2>2, <2>3 DEF PathInv
<1>2. CASE Others
  <2>1. /\ local' = local /\ begun' = begun /\ requests' = requests /\ troubles' = troubles + 1
        /\ state' = state
        /\ met' = [q \in Assist |-> [met[q] EXCEPT !.others = TRUE]]
        /\ raced' = [q \in Assist |-> TRUE]
    BY <1>2 DEF Others
  <2>2. path' \in {NotText} \cup Values /\ record' \in {NoRecord, Garbage} \cup Records
    <3>1. path \in {NotText} \cup Values /\ record \in {NoRecord, Garbage} \cup Records
      BY <1>0 DEF PathTyped, Shares
    <3>2. \A r \in Route : Record(r, Text(<<Foreign>>, "REG_SZ")) \in Records
      <4>1. Text(<<Foreign>>, "REG_SZ") \in Texts
        BY DEF Text, Texts, Type
      <4>. QED BY <4>1 DEF Record, Records
    <3>3. CASE path' \in Edits /\ record' = record
      BY <3>1, <3>3, EditsTyped
    <3>4. CASE /\ path' = path
               /\ record' \in {NoRecord, Garbage} \cup {Record(r, Text(<<Foreign>>, "REG_SZ")) : r \in Route}
      BY <3>1, <3>2, <3>4
    <3>. QED BY <1>2, <3>3, <3>4 DEF Others
  <2>3. PathTyped'
    <3>1. /\ met \in [Assist -> [others : BOOLEAN, failed : Nat]] /\ troubles \in Nat /\ requests \in Nat
          /\ local \in [Assist -> Locals]
          /\ begun \in [Assist -> [path : {NotText} \cup Values, record : {NoRecord, Garbage} \cup Records,
                                   state : {"whole", "part", "gone"}]]
          /\ state \in {"whole", "part", "gone"}
      BY <1>0 DEF PathTyped, Shares
    <3>2. met' \in [Assist -> [others : BOOLEAN, failed : Nat]] /\ raced' \in [Assist -> BOOLEAN]
      BY ONLY <2>1, <3>1
    <3>3. Shares'
      BY <2>1, <2>2, <3>1 DEF Shares
    <3>. QED BY <2>1, <3>1, <3>2, <3>3 DEF PathTyped
  <2>4. ASSUME NEW q \in Assist PROVE Planned(local'[q]) /\ Compared(q)' /\ Told(q)'
    <3>1. raced'[q] = TRUE
      BY <2>1
    <3>2. met'[q].others = TRUE
      <4>1. met[q] \in [others : BOOLEAN, failed : Nat]
        BY <1>0 DEF PathTyped
      <4>2. met'[q] = [met[q] EXCEPT !.others = TRUE]
        BY <2>1
      <4>. QED BY ONLY <4>1, <4>2
    <3>. QED BY <1>0, <2>1, <3>1, <3>2 DEF Compared, Told
  <2>. QED BY <2>3, <2>4 DEF PathInv
<1>3. CASE UNCHANGED pathVars
  <2>1. PathTyped'
    BY <1>0, <1>3 DEF pathVars, PathTyped, Shares
  <2>2. ASSUME NEW q \in Assist PROVE Planned(local'[q]) /\ Compared(q)' /\ Told(q)'
    BY <1>0, <1>3, Unmoved DEF pathVars, shared
  <2>. QED BY <2>1, <2>2 DEF PathInv
<1>. QED BY <1>1, <1>2, <1>3 DEF PathNext

THEOREM PathInvariant == PathSpec => []PathInv
BY PathStarts, PathKept, PTL DEF PathSpec

(* What a request of a setup assist reports of PATH, record and state is   *)
(* so, whatever failed on the way, unless somebody else wrote them         *)
(* meanwhile.                                                              *)
THEOREM ReportsAreTrue == PathSpec => []AnswersTrue
<1>1. PathInv => AnswersTrue
  <2> SUFFICES ASSUME PathInv, NEW p \in Assist, Alone(p) PROVE Answered(p)
    BY DEF AnswersTrue
  <2>. QED BY DEF PathInv, Told, Alone, Reached, At
<1>. QED BY <1>1, PathInvariant, PTL

(* The state directory is deleted on the proofs that the code reads last:  *)
(* the record it has read, and PATH as that record says.                   *)
THEOREM StateDeletedOnProof == PathSpec => DeletedOnProof
<1>1. ASSUME PathInv, NEW p \in Assist, At(p, "delete"), ~raced[p]
      PROVE  /\ record = local[p].record /\ Valid(record)
             /\ path = IF local[p].purpose = "batch" THEN Shortened(record.path) ELSE record.path
  <2>1. PathTyped /\ Planned(local[p]) /\ Compared(p)
    BY <1>1 DEF PathInv
  <2>2. record = local[p].record /\ LivePath = local[p].want
    BY <1>1, <2>1 DEF Compared, At
  <2>3. local[p].purpose \in {"none", "batch"}
    BY <1>1, <2>1, Whereabouts DEF At, Rechecks
  <2>4. /\ record \in Records
        /\ local[p].want = IF local[p].purpose = "batch" THEN Shortened(record.path) ELSE record.path
    BY <1>1, <2>1, <2>2, <2>3 DEF Planned, Provides, At, Rechecks
  <2>5. record.path \in Texts /\ Shortened(record.path) \in Texts
    BY <2>4, ShortenedText DEF Records
  <2>6. LivePath = path
    BY <2>1, <2>2, <2>4, <2>5, LiveValue DEF PathTyped, Shares
  <2>. QED BY <2>2, <2>4, <2>6, Apart DEF Valid
<1>2. PathInv /\ [PathNext]_pathVars =>
        [\A p \in Assist : At(p, "delete") /\ local'[p] # local[p] /\ state' # state =>
           \/ raced[p]
           \/ /\ record = local[p].record /\ Valid(record)
              /\ path = IF local[p].purpose = "batch" THEN Shortened(record.path) ELSE record.path]_pathVars
  BY <1>1
<1>. QED BY <1>2, PathInvariant, PTL DEF PathSpec, DeletedOnProof

(* Whatever the assist writes to PATH, for whatever purpose, the elements  *)
(* that are nobody's route stay where they are and the type of the value   *)
(* stays what it is, unless PATH was edited after the comparison.          *)
THEOREM ForeignElementsKept == PathSpec => ForeignKept
<1>1. ASSUME PathInv, [PathNext]_pathVars, NEW p \in Assist,
             At(p, "write"), local'[p] # local[p], path' # path, ~raced[p], path # NotText
      PROVE  Theirs(path') = Theirs(path) /\ (path # Absent => path'.type = path.type)
  <2> DEFINE r == local[p]
  <2>1. PathTyped /\ Planned(r) /\ Compared(p)
    BY <1>1 DEF PathInv
  <2>2. Step(p)
    <3>1. ASSUME NEW q \in Assist \ {p}, Step(q) PROVE FALSE
      <4>1. Planned(local[q])
        BY <1>1 DEF PathInv
      <4>. QED BY <1>1, <2>1, <3>1, <4>1, StepIs
    <3>2. ~Others /\ ~UNCHANGED pathVars
      BY <1>1 DEF Others, pathVars
    <3>. QED BY <1>1, <3>1, <3>2 DEF PathNext
  <2>3. path' = r.want
    <3>1. r.pc = "write"
      BY <1>1 DEF At
    <3>2. Write(p) \/ CallFails(p) \/ Killed(p)
      BY <2>2, <3>1 DEF Step, Begin, AddReadPath, AddReadRecord, WriteRecord, ReadRecord, RemoveReadPath,
             BatchReadPath, CleanupReadPath, Compare, Notify, RecheckRecord, RecheckPath, Delete, DeleteFails,
             ClearRecord, At
    <3>3. ~CallFails(p) /\ ~Killed(p)
      BY <1>1 DEF CallFails, Killed, Fault
    <3>. QED BY <3>2, <3>3 DEF Write
  <2>4. path = r.expect /\ path \in Values
    BY <1>1, <2>1, LiveValue DEF Compared, PathTyped, Shares, LivePath, At
  <2>5. r.purpose \in {"add", "remove", "batch", "undo", "restore"}
    BY <1>1, <2>1, Whereabouts DEF At
  <2>6. CASE r.purpose = "add"
    <3>1. r.want \in Texts /\ Fits(Safe(path), r.want)
      BY <2>1, <2>4, <2>6 DEF Planned
    <3>2. Theirs(Safe(path)) = Theirs(path) /\ (path # Absent => Safe(path) = path) /\ Safe(path) \in Texts
      BY <2>4, SafeText
    <3>. QED BY <2>3, <3>1, <3>2, Apart DEF Fits
  <2>7. CASE r.purpose \in {"remove", "batch"}
    <3>1. Provides(r.record) /\ path = r.record.path /\ r.want = Shortened(path)
      BY <2>1, <2>4, <2>7 DEF Planned
    <3>2. path \in Texts /\ Last(path.elems) \in Route
      BY <3>1 DEF Provides, Records, AtEnd
    <3>. QED BY <2>3, <3>1, <3>2, ShortenedText DEF Fits
  <2>8. CASE r.purpose = "undo"
    <3>1. r.want = Safe(r.path) /\ Fits(r.want, path) /\ path \in Texts
      BY <2>1, <2>4, <2>8 DEF Planned
    <3>2. r.want \in Texts
      BY <2>1, <3>1, LocalTyped, SafeText
    <3>. QED BY <2>3, <3>1, <3>2, Apart DEF Fits
  <2>9. CASE r.purpose = "restore"
    <3>1. Provides(r.record) /\ path = Shortened(r.record.path) /\ r.want = r.record.path
      BY <2>1, <2>4, <2>9 DEF Planned
    <3>2. r.record.path \in Texts /\ Last(r.record.path.elems) \in Route
      BY <3>1 DEF Provides, Records, AtEnd
    <3>. QED BY <2>3, <3>1, <3>2, ShortenedText DEF Fits
  <2>. QED BY <2>5, <2>6, <2>7, <2>8, <2>9
<1>2. PathInv /\ [PathNext]_pathVars =>
        [\A p \in Assist : At(p, "write") /\ local'[p] # local[p] /\ path' # path =>
           \/ raced[p] \/ path = NotText
           \/ /\ Theirs(path') = Theirs(path)
              /\ path # Absent => path'.type = path.type]_pathVars
  BY <1>1
<1>. QED BY <1>2, PathInvariant, PTL DEF PathSpec, ForeignKept

=============================================================================
