-------------------------- MODULE SetupAssist_proof --------------------------
(***************************************************************************)
(* Theorems about config.json and .env under SetupAssist, for any number   *)
(* of assistants and runs, and any failures and kills, whichever of the    *)
(* two locks each assistant gets.  What is reported of a change of         *)
(* config.json is true, unless somebody was inside by the other lock       *)
(* beside it; the changes are those of ConfigStore; lines of others in     *)
(* .env are lost only when a complete backup has them.                     *)
(***************************************************************************)
EXTENDS SetupAssist, FiniteSetTheorems, TLAPS

ConfigStep == \E w \in Writer : Run(w) \/ ApplyStep(w) \/ Exit(w)

(* What a request does to config.json is a step of config-apply.           *)
LEMMA RequestStep == [AssistNext]_assistVars => [ConfigStep]_onlyConfig
<1> SUFFICES ASSUME [AssistNext]_assistVars PROVE [ConfigStep]_onlyConfig
  OBVIOUS
<1> USE DEF disk, history, onlyConfig
<1>1. ASSUME NEW w \in Writer, ApplyConfig(w) PROVE ConfigStep
  BY ONLY <1>1 DEF ApplyConfig, ConfigStep
<1>2. ASSUME NEW w \in Writer, ApplyEnvBlock(w) PROVE UNCHANGED onlyConfig
  BY ONLY <1>2 DEF ApplyEnvBlock
<1>3. ASSUME NEW w \in Writer, Answer(w) PROVE UNCHANGED onlyConfig
  BY ONLY <1>3 DEF Answer, vars, onlyConfig, disk, history
<1>4. ASSUME NEW w \in Writer, Leave(w) PROVE ConfigStep
  BY ONLY <1>4 DEF Leave, ConfigStep
<1>5. ASSUME OthersEdit PROVE UNCHANGED onlyConfig
  BY ONLY <1>5 DEF OthersEdit
<1>6. ASSUME UNCHANGED assistVars PROVE UNCHANGED onlyConfig
  BY ONLY <1>6 DEF assistVars, vars, onlyConfig, disk, history
<1>. QED BY ONLY [AssistNext]_assistVars, <1>1, <1>2, <1>3, <1>4, <1>5, <1>6 DEF AssistNext

(* What is restored is what the writer has read. *)
LEMMA RestoredIs ==
  ASSUME IInv, NEW w \in Writer, pc[w] \in {"restore", "recheck"}
  PROVE  Restored(w) = snap[w]
<1>1. CASE snap[w] = NoDoc
  BY <1>1 DEF IInv, Recoverable, Restored
<1>2. CASE snap[w] # NoDoc
  <2>1. PICK b \in backups : b.n = backup[w] /\ b.doc = snap[w]
    BY <1>2 DEF IInv, Recoverable
  <2>2. backup[w] # 0
    BY <2>1 DEF IInv, Numbered, Typed
  <2>3. \A a \in backups : a.n = backup[w] => a = b
    BY <2>1 DEF IInv, Numbered
  <2>. QED BY <2>1, <2>2, <2>3 DEF Restored
<1>. QED BY <1>1, <1>2

(* A new backup takes a number that nobody has. *)
LEMMA NumberFree ==
  ASSUME IInv, NEW file, file \in Backup, file.n = NextNumber(backups)
  PROVE  /\ IsFiniteSet(backups \cup {file})
         /\ \A b \in backups \cup {file} : b.n \in 1 .. Cardinality(backups \cup {file})
         /\ \A a, b \in backups \cup {file} : a.n = b.n => a = b
<1>1. IsFiniteSet(backups) /\ Cardinality(backups) \in Nat
  BY FS_CardinalityType DEF IInv, Typed
<1>2. \A b \in backups : b.n \in 1 .. Cardinality(backups)
  BY DEF IInv, Numbered
<1>3. file \notin backups
  BY <1>1, <1>2 DEF NextNumber
<1>4. /\ IsFiniteSet(backups \cup {file})
      /\ Cardinality(backups \cup {file}) = Cardinality(backups) + 1
  BY <1>1, <1>3, FS_AddElement
<1>5. \A b \in backups : b.n # file.n
  BY <1>1, <1>2 DEF NextNumber
<1>6. \A b \in backups \cup {file} : b.n \in 1 .. Cardinality(backups \cup {file})
  BY <1>1, <1>2, <1>4 DEF NextNumber
<1>7. \A a, b \in backups \cup {file} : a.n = b.n => a = b
  BY <1>5 DEF IInv, Numbered
<1>. QED BY <1>4, <1>6, <1>7

(* What a step of CreateBackup adds. *)
LEMMA BackupMade ==
  ASSUME IInv, NEW w \in Writer, CreateBackup(w), backups' # backups
  PROVE  \E file \in Backup : backups' = backups \cup {file} /\ file.n = NextNumber(backups)
<1>1. NextNumber(backups) \in Nat /\ snap[w] \in Docs
  BY FS_CardinalityType DEF IInv, Typed, NextNumber
<1>2. PICK whole \in BOOLEAN :
        backups' = backups \cup {[n |-> NextNumber(backups), doc |-> snap[w], whole |-> whole]}
  BY DEF CreateBackup
<1>3. [n |-> NextNumber(backups), doc |-> snap[w], whole |-> whole] \in Backup
  BY <1>1 DEF Backup
<1>. QED BY <1>2, <1>3

(* Taking the lease, or being refused it. *)
LEMMA LeaseDoes ==
  ASSUME NEW w \in Writer, Lease(w)
  PROVE  /\ pc[w] = "lease" /\ UNCHANGED <<config, backups, snap, backup, runs>>
         /\ \/ /\ pc' = [pc EXCEPT ![w] = "idle"]
               /\ outcome' = [outcome EXCEPT ![w] = "refused"]
               /\ UNCHANGED <<holder, beside, base>>
            \/ /\ outcome' = outcome /\ pc' = [pc EXCEPT ![w] = "snapshot"]
               /\ \E lock \in Locks : Enter(w, lock)
BY DEF Lease, Enter, Goto, Report, Locks, disk, history

(* Whoever is inside when another enters is beside it from then on. *)
LEMMA EnterDoes ==
  ASSUME IInv, NEW w \in Writer, NEW lock \in Locks, Enter(w, lock), pc[w] = "lease"
  PROVE  /\ holder' = [holder EXCEPT ![lock] = w] /\ holder[lock] = NoWriter
         /\ beside' \in [Writer -> BOOLEAN]
         /\ \A v \in Writer : beside[v] => beside'[v]
         /\ \A v \in Writer : pc[v] \in Critical => beside'[v] /\ beside'[w]
         /\ \A v \in Writer \ {w} : pc[v] \notin Critical /\ beside'[v] => beside[v]
<1>0. beside \in [Writer -> BOOLEAN] /\ NoWriter \notin Writer
  BY ApplyAssumption DEF IInv, Typed
<1>1. holder' = [holder EXCEPT ![lock] = w] /\ holder[lock] = NoWriter
  BY DEF Enter
<1>2. \A v \in Writer : pc[v] \in Critical => v \in Beside(lock)
  BY <1>0, <1>1 DEF IInv, Locked, Beside
<1>3. CASE Beside(lock) = {}
  BY <1>0, <1>1, <1>2, <1>3 DEF Enter, history
<1>4. CASE Beside(lock) # {}
  <2>1. beside' = [v \in Writer |-> beside[v] \/ v \in Beside(lock) \cup {w}]
    BY <1>4 DEF Enter
  <2>2. \A v \in Writer : pc[v] \notin Critical => v \notin Beside(lock)
    BY DEF Beside
  <2>. QED BY <1>0, <1>1, <1>2, <2>1, <2>2
<1>. QED BY <1>3, <1>4

(* Of the document that stands, only the change of one that is alone is    *)
(* not confirmed.                                                          *)
LEMMA BaseIs ==
  ASSUME IInv, NEW w \in Writer, NEW lock \in Locks, Enter(w, lock)
  PROVE  base' = base \/ (~Crowd /\ base' = Standing)
BY DEF Enter, history

(* Without its unconfirmed change the document is what everybody has read  *)
(* or extends.                                                             *)
LEMMA StandingIs ==
  ASSUME IInv
  PROVE  /\ Standing \in Docs
         /\ ~Crowd => /\ Store!Keeps(Standing, config)
                       /\ \A v \in Writer : pc[v] \in HasRead => Store!Keeps(Standing, snap[v])
<1> USE DEF Store!Keeps
<1>0. config \in Docs /\ snap \in [Writer -> Docs] /\ pc \in [Writer -> Labels]
  BY DEF IInv, Typed
<1>1. CASE Unconfirmed = {}
  <2>1. Standing = config
    BY <1>1 DEF Standing
  <2>2. ASSUME ~Crowd, NEW v \in Writer, pc[v] \in HasRead PROVE snap[v] = config
    BY <1>1, <2>2 DEF Unconfirmed, Crowd, Critical, Labels, HasRead, IInv, Based
  <2>. QED BY <1>0, <2>1, <2>2
<1>2. CASE Unconfirmed # {}
  <2>1. Changing \in Unconfirmed /\ Standing = snap[Changing]
    BY <1>2 DEF Changing, Standing
  <2>2. PICK u \in Writer : u = Changing /\ pc[u] \in {"verify", "prune", "restore"}
    BY <2>1 DEF Unconfirmed
  <2>3. ASSUME ~Crowd
        PROVE  /\ config = Merged(snap[u], u) /\ snap[u].kind # "invalid"
               /\ \A v \in Writer : pc[v] \in HasRead => v = u
    BY <2>2, <2>3 DEF Crowd, Critical, Labels, HasRead, IInv, Based, Locked
  <2>4. Standing \in Docs
    BY <1>0, <2>1, <2>2
  <2>5. ASSUME ~Crowd PROVE Store!Keeps(Standing, config)
    <3>1. snap[u] \in Docs
      BY <1>0
    <3>. QED BY <2>1, <2>2, <2>3, <2>5, <3>1 DEF Merged, Docs
  <2>. QED BY <2>1, <2>2, <2>3, <2>4, <2>5
<1>. QED BY <1>1, <1>2

(* The steps after the lease, and what they leave alone like Run and Exit. *)
Later(w) ==
  \/ Snapshot(w) \/ CreateBackup(w) \/ Replace(w) \/ Verify(w) \/ Prune(w)
  \/ Restore(w) \/ Recheck(w) \/ Release(w)

LEMMA Within ==
  ASSUME IInv, NEW w \in Writer, Run(w) \/ Later(w) \/ Exit(w)
  PROVE  /\ base' = base /\ \A v \in Writer : beside'[v] => beside[v]
         /\ \A v \in Writer \ {w} : /\ pc'[v] = pc[v] /\ snap'[v] = snap[v]
                                    /\ beside[v] => beside'[v]
         /\ pc'[w] \in Critical => pc[w] \in Critical /\ beside' = beside
<1>0. pc \in [Writer -> Labels] /\ snap \in [Writer -> Docs] /\ beside \in [Writer -> BOOLEAN]
  BY DEF IInv, Typed
<1>1. \E label \in Labels :
        /\ pc' = [pc EXCEPT ![w] = label]
        /\ label \in Critical => pc[w] \in Critical
  BY DEF Run, Exit, Later, Snapshot, CreateBackup, Replace, Verify, Prune, Restore,
         Recheck, Release, Goto, Critical, Labels
<1>2. snap' = snap \/ \E doc : snap' = [snap EXCEPT ![w] = doc]
  BY DEF Run, Exit, Later, Snapshot, CreateBackup, Replace, Verify, Prune, Restore,
         Recheck, Release
<1>3. base' = base /\ (beside' = beside \/ beside' = [beside EXCEPT ![w] = FALSE])
  BY DEF Run, Exit, Later, Snapshot, CreateBackup, Replace, Verify, Prune, Restore,
         Recheck, Release, history
<1>4. \A v \in Writer \ {w} : pc'[v] = pc[v] /\ snap'[v] = snap[v]
  BY <1>0, <1>1, <1>2
<1>5. /\ \A v \in Writer : beside'[v] => beside[v]
      /\ \A v \in Writer \ {w} : beside[v] => beside'[v]
  BY <1>0, <1>3
<1>6. pc'[w] \in Critical => pc[w] \in Critical
  BY <1>0, <1>1
<1>7. beside' = beside \/ pc' = [pc EXCEPT ![w] = "lease"]
  BY DEF Run, Exit, Later, Snapshot, CreateBackup, Replace, Verify, Prune, Restore,
         Recheck, Release, Goto, history
<1>8. pc'[w] \in Critical => beside' = beside
  BY <1>0, <1>7 DEF Critical
<1>. QED BY <1>3, <1>4, <1>5, <1>6, <1>8

(* The variables keep their types. *)
LEMMA TypedStep ==
  ASSUME IInv, [ConfigStep]_onlyConfig
  PROVE  Typed'
<1> USE ApplyAssumption DEF IInv, Typed, Labels, Outcomes, Docs, NoDoc, Locks, disk, history, Goto, Report, Free, NoFault, Fault
<1>1. ASSUME NEW w \in Writer, Run(w) PROVE Typed'
  BY <1>1 DEF Run
<1>2. ASSUME NEW w \in Writer, Lease(w) PROVE Typed'
  <2>1. CASE UNCHANGED <<holder, beside, base>>
    BY <1>2, <2>1, LeaseDoes
  <2>2. CASE \E lock \in Locks : Enter(w, lock)
    <3>1. PICK lock \in Locks : Enter(w, lock)
      BY <2>2
    <3>2. /\ pc[w] = "lease" /\ UNCHANGED <<config, backups, snap, backup, runs>>
          /\ outcome' = outcome \/ outcome' = [outcome EXCEPT ![w] = "refused"]
          /\ pc' = [pc EXCEPT ![w] = "idle"] \/ pc' = [pc EXCEPT ![w] = "snapshot"]
      BY ONLY <1>2, LeaseDoes
    <3>3. beside' \in [Writer -> BOOLEAN] /\ holder' = [holder EXCEPT ![lock] = w]
      BY <3>1, <3>2, EnterDoes
    <3>4. base' \in Docs
      BY <3>1, BaseIs, StandingIs
    <3>5. pc' \in [Writer -> Labels]
      <4>1. \E label \in Labels : pc' = [pc EXCEPT ![w] = label]
        BY ONLY <3>2 DEF Labels
      <4>. QED BY <4>1
    <3>7. outcome' \in [Writer -> Outcomes]
      BY <3>2
    <3>6. holder' \in [Locks -> Writer \cup {NoWriter}]
      BY <3>3
    <3>. QED BY <3>2, <3>3, <3>4, <3>5, <3>6, <3>7
  <2>. QED BY <1>2, <2>1, <2>2, LeaseDoes
<1>3. ASSUME NEW w \in Writer, Snapshot(w) PROVE Typed'
  <2>1. pc' \in [Writer -> Labels]
    <3>1. \E label \in Labels : pc' = [pc EXCEPT ![w] = label]
      BY ONLY <1>3 DEF Snapshot, Goto, Labels
    <3>. QED BY <3>1
  <2>2. outcome' \in [Writer -> Outcomes]
    BY <1>3 DEF Snapshot
  <2>3. snap' \in [Writer -> Docs]
    <3>1. snap' = snap \/ snap' = [snap EXCEPT ![w] = config]
      BY ONLY <1>3 DEF Snapshot
    <3>. QED BY <3>1
  <2>. QED BY <1>3, <2>1, <2>2, <2>3 DEF Snapshot
<1>4. ASSUME NEW w \in Writer, CreateBackup(w) PROVE Typed'
  <2>1. CASE backups' = backups
    <3>1. pc' \in [Writer -> Labels]
      BY <1>4 DEF CreateBackup
    <3>2. outcome' \in [Writer -> Outcomes]
      BY <1>4 DEF CreateBackup
    <3>3. backup' \in [Writer -> Nat]
      <4>1. NextNumber(backups) \in Nat
        BY FS_CardinalityType DEF NextNumber
      <4>2. backup' = backup \/ backup' = [backup EXCEPT ![w] = NextNumber(backups)]
        BY ONLY <1>4 DEF CreateBackup
      <4>. QED BY <4>1, <4>2
    <3>. QED BY <1>4, <2>1, <3>1, <3>2, <3>3 DEF CreateBackup
  <2>2. CASE backups' # backups
    <3>1. PICK file \in Backup : backups' = backups \cup {file} /\ file.n = NextNumber(backups)
      BY <1>4, <2>2, BackupMade
    <3>2. IsFiniteSet(backups') /\ backups' \subseteq Backup
      BY <3>1, NumberFree
    <3>3. pc' \in [Writer -> Labels]
      BY <1>4 DEF CreateBackup
    <3>4. outcome' \in [Writer -> Outcomes]
      BY <1>4 DEF CreateBackup
    <3>5. backup' \in [Writer -> Nat]
      <4>1. NextNumber(backups) \in Nat
        BY FS_CardinalityType DEF NextNumber
      <4>2. backup' = backup \/ backup' = [backup EXCEPT ![w] = NextNumber(backups)]
        BY ONLY <1>4 DEF CreateBackup
      <4>. QED BY <4>1, <4>2
    <3>. QED BY <1>4, <3>2, <3>3, <3>4, <3>5 DEF CreateBackup
  <2>. QED BY <2>1, <2>2
<1>5. ASSUME NEW w \in Writer, Replace(w) PROVE Typed'
  <2>1. pc' \in [Writer -> Labels]
    BY <1>5 DEF Replace, Merged
  <2>2. outcome' \in [Writer -> Outcomes]
    BY <1>5 DEF Replace, Merged
  <2>3. config' \in Docs
    BY <1>5 DEF Replace, Merged
  <2>. QED BY <1>5, <2>1, <2>2, <2>3 DEF Replace, Merged
<1>6. ASSUME NEW w \in Writer, Verify(w) PROVE Typed'
  BY <1>6 DEF Verify
<1>7. ASSUME NEW w \in Writer, Prune(w) PROVE Typed'
  <2>1. pc' \in [Writer -> Labels]
    BY <1>7 DEF Prune, Prunable
  <2>2. outcome' \in [Writer -> Outcomes]
    BY <1>7 DEF Prune, Prunable
  <2>3. backups' \subseteq Backup /\ IsFiniteSet(backups')
    BY <1>7 DEF Prune, Prunable
  <2>. QED BY <1>7, <2>1, <2>2, <2>3 DEF Prune, Prunable
<1>8. ASSUME NEW w \in Writer, Restore(w) PROVE Typed'
  <2>1. pc' \in [Writer -> Labels]
    BY <1>8 DEF Restore
  <2>2. outcome' \in [Writer -> Outcomes]
    BY <1>8 DEF Restore
  <2>3. config' \in Docs
    BY <1>8, RestoredIs DEF Restore
  <2>. QED BY <1>8, <2>1, <2>2, <2>3 DEF Restore
<1>9. ASSUME NEW w \in Writer, Recheck(w) PROVE Typed'
  BY <1>9 DEF Recheck
<1>10. ASSUME NEW w \in Writer, Release(w) PROVE Typed'
  <2>1. pc' \in [Writer -> Labels]
    BY <1>10 DEF Release
  <2>2. outcome' \in [Writer -> Outcomes]
    BY <1>10 DEF Release
  <2>3. holder' \in [Locks -> Writer \cup {NoWriter}]
    BY <1>10 DEF Release
  <2>4. snap' \in [Writer -> Docs]
    BY <1>10 DEF Release
  <2>5. backup' \in [Writer -> Nat]
    BY <1>10 DEF Release
  <2>. QED BY <1>10, <2>1, <2>2, <2>3, <2>4, <2>5 DEF Release
<1>11. ASSUME NEW w \in Writer, Exit(w) PROVE Typed'
  BY <1>11 DEF Exit
<1>12. ASSUME UNCHANGED onlyConfig PROVE Typed'
  BY <1>12 DEF onlyConfig
<1>. QED BY ONLY [ConfigStep]_onlyConfig, <1>1, <1>2, <1>3, <1>4, <1>5, <1>6, <1>7, <1>8, <1>9, <1>10, <1>11, <1>12 DEF ConfigStep, ApplyStep

(* No number is given twice. *)
LEMMA NumberedStep ==
  ASSUME IInv, [ConfigStep]_onlyConfig
  PROVE  Numbered'
<1> USE ApplyAssumption DEF IInv, Typed, Numbered, disk, history, Goto, Report, Free, NoFault, Fault
<1>1. ASSUME NEW w \in Writer, Run(w) PROVE Numbered'
  BY <1>1 DEF Run
<1>2. ASSUME NEW w \in Writer, Lease(w) PROVE Numbered'
  BY <1>2, LeaseDoes
<1>3. ASSUME NEW w \in Writer, Snapshot(w) PROVE Numbered'
  BY <1>3 DEF Snapshot
<1>4. ASSUME NEW w \in Writer, CreateBackup(w) PROVE Numbered'
  <2>1. CASE backups' = backups
    BY <2>1
  <2>2. CASE backups' # backups
    <3>1. PICK file \in Backup : backups' = backups \cup {file} /\ file.n = NextNumber(backups)
      BY <1>4, <2>2, BackupMade
    <3>. QED BY <3>1, NumberFree
  <2>. QED BY <2>1, <2>2
<1>5. ASSUME NEW w \in Writer, Replace(w) PROVE Numbered'
  BY <1>5 DEF Replace
<1>6. ASSUME NEW w \in Writer, Verify(w) PROVE Numbered'
  BY <1>6 DEF Verify
<1>7. ASSUME NEW w \in Writer, Prune(w) PROVE Numbered'
  BY <1>7 DEF Prune, Prunable
<1>8. ASSUME NEW w \in Writer, Restore(w) PROVE Numbered'
  BY <1>8 DEF Restore
<1>9. ASSUME NEW w \in Writer, Recheck(w) PROVE Numbered'
  BY <1>9 DEF Recheck
<1>10. ASSUME NEW w \in Writer, Release(w) PROVE Numbered'
  BY <1>10 DEF Release
<1>11. ASSUME NEW w \in Writer, Exit(w) PROVE Numbered'
  BY <1>11 DEF Exit
<1>12. ASSUME UNCHANGED onlyConfig PROVE Numbered'
  BY <1>12 DEF onlyConfig
<1>. QED BY ONLY [ConfigStep]_onlyConfig, <1>1, <1>2, <1>3, <1>4, <1>5, <1>6, <1>7, <1>8, <1>9, <1>10, <1>11, <1>12 DEF ConfigStep, ApplyStep

(* Who is inside has a lock, and is beside whoever else is inside. *)
LEMMA LockedStep ==
  ASSUME IInv, [ConfigStep]_onlyConfig
  PROVE  Locked'
<1> USE ApplyAssumption DEF IInv, Typed, Locked, Critical, Labels, Locks, disk, history, Goto, Report, Free, NoFault, Fault
<1>1. ASSUME NEW w \in Writer, Run(w) PROVE Locked'
  BY <1>1 DEF Run
<1>2. ASSUME NEW w \in Writer, Lease(w) PROVE Locked'
  <2>1. CASE UNCHANGED <<holder, beside, base>> /\ pc' = [pc EXCEPT ![w] = "idle"]
    BY <1>2, <2>1
  <2>2. CASE pc' = [pc EXCEPT ![w] = "snapshot"] /\ \E lock \in Locks : Enter(w, lock)
    <3>1. PICK lock \in Locks : Enter(w, lock)
      BY <2>2
    <3>2. pc[w] = "lease"
      BY <1>2, LeaseDoes
    <3>3. /\ holder' = [holder EXCEPT ![lock] = w] /\ holder[lock] = NoWriter
          /\ \A v \in Writer : beside[v] => beside'[v]
          /\ \A v \in Writer : pc[v] \in Critical => beside'[v] /\ beside'[w]
          /\ \A v \in Writer \ {w} : pc[v] \notin Critical /\ beside'[v] => beside[v]
      BY <3>1, <3>2, EnterDoes
    <3>4. \A v \in Writer : pc'[v] \in Critical => \E l \in Locks : holder'[l] = v
      BY <2>2, <3>3
    <3>5. ASSUME NEW u \in Writer, NEW v \in Writer, pc'[u] \in Critical, pc'[v] \in Critical, u # v
          PROVE  beside'[u]
      BY <2>2, <3>3, <3>5
    <3>6. \A v \in Writer : pc'[v] = "lease" => ~beside'[v]
      BY <2>2, <3>3
    <3>. QED BY <3>4, <3>5, <3>6
  <2>. QED BY ONLY <1>2, <2>1, <2>2, LeaseDoes
<1>3. ASSUME NEW w \in Writer, Snapshot(w) PROVE Locked'
  BY <1>3 DEF Snapshot
<1>4. ASSUME NEW w \in Writer, CreateBackup(w) PROVE Locked'
  BY <1>4 DEF CreateBackup
<1>5. ASSUME NEW w \in Writer, Replace(w) PROVE Locked'
  BY <1>5 DEF Replace
<1>6. ASSUME NEW w \in Writer, Verify(w) PROVE Locked'
  BY <1>6 DEF Verify
<1>7. ASSUME NEW w \in Writer, Prune(w) PROVE Locked'
  BY <1>7 DEF Prune
<1>8. ASSUME NEW w \in Writer, Restore(w) PROVE Locked'
  BY <1>8 DEF Restore
<1>9. ASSUME NEW w \in Writer, Recheck(w) PROVE Locked'
  BY <1>9 DEF Recheck
<1>10. ASSUME NEW w \in Writer, Release(w) PROVE Locked'
  BY <1>10 DEF Release
<1>11. ASSUME NEW w \in Writer, Exit(w) PROVE Locked'
  BY <1>11 DEF Exit
<1>12. ASSUME UNCHANGED onlyConfig PROVE Locked'
  BY <1>12 DEF onlyConfig
<1>. QED BY ONLY [ConfigStep]_onlyConfig, <1>1, <1>2, <1>3, <1>4, <1>5, <1>6, <1>7, <1>8, <1>9, <1>10, <1>11, <1>12 DEF ConfigStep, ApplyStep

(* Nobody changes the document of one that is alone. *)
LEMMA BasedStep ==
  ASSUME IInv, [ConfigStep]_onlyConfig
  PROVE  Based'
<1> USE ApplyAssumption DEF IInv, Typed, Locked, Based, Critical, Labels, HasRead, Merged, disk, history, Goto, Report, NoFault, Fault
<1>1. ASSUME NEW w \in Writer, Run(w) PROVE Based'
  BY <1>1 DEF Run
<1>2. ASSUME NEW w \in Writer, Lease(w) PROVE Based'
  <2>1. CASE UNCHANGED <<holder, beside, base>> /\ pc' = [pc EXCEPT ![w] = "idle"]
    BY <1>2, <2>1, LeaseDoes
  <2>2. CASE pc' = [pc EXCEPT ![w] = "snapshot"] /\ \E lock \in Locks : Enter(w, lock)
    <3>1. PICK lock \in Locks : Enter(w, lock)
      BY <2>2
    <3>2. pc[w] = "lease" /\ UNCHANGED <<config, backups, snap, backup, runs>> /\ outcome[w] = "none"
      BY <1>2, LeaseDoes DEF Answered
    <3>3. \A v \in Writer : beside[v] => beside'[v]
      BY <3>1, <3>2, EnterDoes
    <3>. QED BY <1>2, <2>2, <3>2, <3>3, LeaseDoes
  <2>. QED BY ONLY <1>2, <2>1, <2>2, LeaseDoes
<1>3. ASSUME NEW w \in Writer, Snapshot(w) PROVE Based'
  BY <1>3 DEF Snapshot
<1>4. ASSUME NEW w \in Writer, CreateBackup(w) PROVE Based'
  BY <1>4 DEF CreateBackup
<1>5. ASSUME NEW w \in Writer, Replace(w) PROVE Based'
  BY <1>5 DEF Replace
<1>6. ASSUME NEW w \in Writer, Verify(w) PROVE Based'
  BY <1>6 DEF Verify
<1>7. ASSUME NEW w \in Writer, Prune(w) PROVE Based'
  BY <1>7 DEF Prune
<1>8. ASSUME NEW w \in Writer, Restore(w) PROVE Based'
  BY <1>8, RestoredIs DEF Restore
<1>9. ASSUME NEW w \in Writer, Recheck(w) PROVE Based'
  BY <1>9 DEF Recheck
<1>10. ASSUME NEW w \in Writer, Release(w) PROVE Based'
  BY <1>10 DEF Release
<1>11. ASSUME NEW w \in Writer, Exit(w) PROVE Based'
  BY <1>11 DEF Exit
<1>12. ASSUME UNCHANGED onlyConfig PROVE Based'
  BY <1>12 DEF onlyConfig
<1>. QED BY ONLY [ConfigStep]_onlyConfig, <1>1, <1>2, <1>3, <1>4, <1>5, <1>6, <1>7, <1>8, <1>9, <1>10, <1>11, <1>12 DEF ConfigStep, ApplyStep

(* What stood when two came to be inside is kept. *)
LEMMA PreservedStep ==
  ASSUME IInv, [ConfigStep]_onlyConfig
  PROVE  Preserved'
<1>0. /\ pc \in [Writer -> Labels] /\ snap \in [Writer -> Docs] /\ config \in Docs
      /\ base \in Docs
  BY DEF IInv, Typed
<1>a. ASSUME NEW w \in Writer, Run(w) \/ Later(w) \/ Exit(w),
             Crowd => /\ Store!Keeps(base, config')
                      /\ pc'[w] \in HasRead => Store!Keeps(base, snap'[w])
      PROVE  Preserved'
  <2>1. Crowd' => Crowd
    BY <1>a, Within DEF Crowd
  <2>2. base' = base /\ \A v \in Writer \ {w} : pc'[v] = pc[v] /\ snap'[v] = snap[v]
    BY <1>a, Within
  <2>. QED BY <1>a, <2>1, <2>2 DEF IInv, Preserved, Store!Keeps
<1>b. Crowd => Store!Keeps(base, config)
  BY DEF IInv, Preserved
<1>c. ASSUME NEW w \in Writer, Crowd, pc[w] \in HasRead PROVE Store!Keeps(base, snap[w])
  BY <1>c DEF IInv, Preserved
<1>d. ASSUME NEW w \in Writer, Crowd, pc[w] \in HasRead
      PROVE  Store!Keeps(base, Merged(snap[w], w))
  BY <1>0, <1>c, <1>d DEF IInv, Based, Store!Keeps, Merged, Docs
<1> USE DEF HasRead, Goto, disk, Later
<1>1. ASSUME NEW w \in Writer, Run(w) PROVE Preserved'
  <2>1. UNCHANGED <<config, snap>> /\ pc'[w] = "lease"
    BY <1>0, <1>1 DEF Run
  <2>. QED BY <1>a, <1>b, <2>1, <1>1 DEF Store!Keeps
<1>2. ASSUME NEW w \in Writer, Lease(w) PROVE Preserved'
  <2>0. pc[w] = "lease" /\ UNCHANGED <<config, snap>>
    BY <1>2, LeaseDoes
  <2>1. CASE UNCHANGED <<holder, beside, base>> /\ pc' = [pc EXCEPT ![w] = "idle"]
    <3>1. Crowd' => Crowd
      BY <1>0, <2>1 DEF Crowd, Critical, Labels
    <3>. QED BY <1>0, <2>0, <2>1, <3>1 DEF IInv, Preserved, Store!Keeps
  <2>2. CASE pc' = [pc EXCEPT ![w] = "snapshot"] /\ \E lock \in Locks : Enter(w, lock)
    <3>1. PICK lock \in Locks : Enter(w, lock)
      BY <2>2
    <3>2. \A v \in Writer : pc'[v] \in HasRead => pc[v] \in HasRead
      BY <1>0, <2>2
    <3>3. CASE Beside(lock) = {}
      <4>1. UNCHANGED <<beside, base>>
        BY <3>1, <3>3 DEF Enter, history
      <4>2. Crowd' => Crowd
        BY <1>0, <2>0, <2>2, <4>1 DEF Crowd, IInv, Locked
      <4>. QED BY <2>0, <3>2, <4>1, <4>2 DEF IInv, Preserved, Store!Keeps
    <3>4. CASE Beside(lock) # {}
      <4>1. base' = IF Crowd THEN base ELSE Standing
        BY <3>1, <3>4 DEF Enter
      <4>. QED BY <1>b, <1>c, <2>0, <3>2, <4>1, StandingIs DEF Preserved, Store!Keeps
    <3>. QED BY <3>3, <3>4
  <2>. QED BY ONLY <1>2, <2>1, <2>2, LeaseDoes
<1>3. ASSUME NEW w \in Writer, Snapshot(w) PROVE Preserved'
  <2>1. /\ config' = config
        /\ pc'[w] \in HasRead => snap'[w] = config
    BY <1>0, <1>3 DEF Snapshot
  <2>. QED BY <1>a, <1>b, <2>1, <1>3 DEF Store!Keeps
<1>4. ASSUME NEW w \in Writer, CreateBackup(w) PROVE Preserved'
  <2>1. config' = config /\ snap' = snap /\ pc[w] \in HasRead
    BY <1>4 DEF CreateBackup
  <2>. QED BY <1>a, <1>b, <1>c, <2>1, <1>4 DEF Store!Keeps
<1>5. ASSUME NEW w \in Writer, Replace(w) PROVE Preserved'
  <2>1. /\ config' = config \/ config' = Merged(snap[w], w)
        /\ snap' = snap /\ pc[w] \in HasRead
    BY <1>5 DEF Replace
  <2>. QED BY <1>a, <1>b, <1>c, <1>d, <2>1, <1>5 DEF Store!Keeps
<1>6. ASSUME NEW w \in Writer, Verify(w) PROVE Preserved'
  <2>1. config' = config /\ snap' = snap /\ pc[w] \in HasRead
    BY <1>6 DEF Verify
  <2>. QED BY <1>a, <1>b, <1>c, <2>1, <1>6 DEF Store!Keeps
<1>7. ASSUME NEW w \in Writer, Prune(w) PROVE Preserved'
  <2>1. config' = config /\ snap' = snap /\ pc[w] \in HasRead
    BY <1>7 DEF Prune
  <2>. QED BY <1>a, <1>b, <1>c, <2>1, <1>7 DEF Store!Keeps
<1>8. ASSUME NEW w \in Writer, Restore(w) PROVE Preserved'
  <2>1. /\ config' = config \/ config' = snap[w]
        /\ snap' = snap /\ pc[w] \in HasRead
    BY <1>8, RestoredIs DEF Restore
  <2>. QED BY <1>a, <1>b, <1>c, <2>1, <1>8 DEF Store!Keeps
<1>9. ASSUME NEW w \in Writer, Recheck(w) PROVE Preserved'
  <2>1. config' = config /\ snap' = snap /\ pc[w] \in HasRead
    BY <1>9 DEF Recheck
  <2>. QED BY <1>a, <1>b, <1>c, <2>1, <1>9 DEF Store!Keeps
<1>10. ASSUME NEW w \in Writer, Release(w) PROVE Preserved'
  <2>1. config' = config /\ pc'[w] = "idle"
    BY <1>0, <1>10 DEF Release
  <2>. QED BY <1>a, <1>b, <2>1, <1>10 DEF Store!Keeps
<1>11. ASSUME NEW w \in Writer, Exit(w) PROVE Preserved'
  <2>1. config' = config /\ pc'[w] = "idle"
    BY <1>0, <1>11 DEF Exit
  <2>. QED BY <1>a, <1>b, <2>1, <1>11 DEF Store!Keeps
<1>12. ASSUME UNCHANGED onlyConfig PROVE Preserved'
  BY <1>12 DEF onlyConfig, history, IInv, Preserved, Crowd, Store!Keeps
<1>. QED BY ONLY [ConfigStep]_onlyConfig, <1>1, <1>2, <1>3, <1>4, <1>5, <1>6, <1>7, <1>8, <1>9, <1>10, <1>11, <1>12 DEF ConfigStep, ApplyStep

(* The backup stays. *)
LEMMA RecoverableStep ==
  ASSUME IInv, [ConfigStep]_onlyConfig
  PROVE  Recoverable'
<1> USE ApplyAssumption DEF IInv, Typed, Recoverable, Labels, disk, history, Goto, Report, Free, NoFault, Fault
<1>1. ASSUME NEW w \in Writer, Run(w) PROVE Recoverable'
  BY <1>1 DEF Run
<1>2. ASSUME NEW w \in Writer, Lease(w) PROVE Recoverable'
  BY <1>2, LeaseDoes
<1>3. ASSUME NEW w \in Writer, Snapshot(w) PROVE Recoverable'
  BY <1>3 DEF Snapshot
<1>4. ASSUME NEW w \in Writer, CreateBackup(w) PROVE Recoverable'
  <2>1. backups \subseteq backups'
    BY ONLY <1>4 DEF CreateBackup
  <2>2. UNCHANGED snap
    BY ONLY <1>4 DEF CreateBackup
  <2>3. ASSUME NEW v \in Writer, v # w
        PROVE  pc'[v] = pc[v] /\ backup'[v] = backup[v]
    BY <1>4, <2>3 DEF CreateBackup
  <2>4. CASE pc'[w] = "replace"
    <3>1. pc' # [pc EXCEPT ![w] = "release"]
      BY <2>4
    <3>2. /\ backup' = [backup EXCEPT ![w] = NextNumber(backups)]
          /\ backups' = backups \cup {[n |-> NextNumber(backups), doc |-> snap[w], whole |-> TRUE]}
      BY ONLY <1>4, <3>1 DEF CreateBackup, Goto
    <3>3. backup'[w] = NextNumber(backups)
      BY <3>2
    <3>4. \E b \in backups' : b.n = backup'[w] /\ b.doc = snap[w]
      <4> DEFINE file == [n |-> NextNumber(backups), doc |-> snap[w], whole |-> TRUE]
      <4>1. file \in backups'
        BY ONLY <3>2
      <4>2. file.n = backup'[w] /\ file.doc = snap[w]
        BY ONLY <3>3
      <4>. QED BY ONLY <4>1, <4>2
    <3>5. snap[w] # NoDoc
      BY <1>4 DEF CreateBackup
    <3>. QED BY <2>1, <2>2, <2>3, <2>4, <3>4, <3>5
  <2>5. CASE pc'[w] = "release"
    BY <2>1, <2>2, <2>3, <2>5
  <2>6. pc'[w] \in {"replace", "release"}
    BY <1>4 DEF CreateBackup
  <2>. QED BY <2>4, <2>5, <2>6
<1>5. ASSUME NEW w \in Writer, Replace(w) PROVE Recoverable'
  BY <1>5 DEF Replace
<1>6. ASSUME NEW w \in Writer, Verify(w) PROVE Recoverable'
  BY <1>6 DEF Verify
<1>7. ASSUME NEW w \in Writer, Prune(w) PROVE Recoverable'
  BY <1>7 DEF Prune, Prunable
<1>8. ASSUME NEW w \in Writer, Restore(w) PROVE Recoverable'
  BY <1>8 DEF Restore
<1>9. ASSUME NEW w \in Writer, Recheck(w) PROVE Recoverable'
  BY <1>9 DEF Recheck
<1>10. ASSUME NEW w \in Writer, Release(w) PROVE Recoverable'
  BY <1>10 DEF Release
<1>11. ASSUME NEW w \in Writer, Exit(w) PROVE Recoverable'
  BY <1>11 DEF Exit
<1>12. ASSUME UNCHANGED onlyConfig PROVE Recoverable'
  BY <1>12 DEF onlyConfig
<1>. QED BY ONLY [ConfigStep]_onlyConfig, <1>1, <1>2, <1>3, <1>4, <1>5, <1>6, <1>7, <1>8, <1>9, <1>10, <1>11, <1>12 DEF ConfigStep, ApplyStep

(* No answer becomes untrue. *)
LEMMA AnsweredStep ==
  ASSUME IInv, [ConfigStep]_onlyConfig
  PROVE  Answered'
<1> USE ApplyAssumption DEF IInv, Typed, Locked, Based, Answered, Present, Unseen, HasRead, Critical, Labels, Merged, disk, history, Goto, Report, NoFault, Fault
<1>1. ASSUME NEW w \in Writer, Run(w) PROVE Answered'
  BY <1>1 DEF Run
<1>2. ASSUME NEW w \in Writer, Lease(w) PROVE Answered'
  <2>0. pc[w] = "lease" /\ UNCHANGED <<config, snap, runs>>
    BY <1>2, LeaseDoes
  <2>1. CASE /\ UNCHANGED beside /\ pc' = [pc EXCEPT ![w] = "idle"]
             /\ outcome' = [outcome EXCEPT ![w] = "refused"]
    BY <2>0, <2>1
  <2>2. CASE /\ outcome' = outcome /\ pc' = [pc EXCEPT ![w] = "snapshot"]
             /\ \E lock \in Locks : Enter(w, lock)
    <3>1. PICK lock \in Locks : Enter(w, lock)
      BY <2>2
    <3>2. \A v \in Writer : beside[v] => beside'[v]
      BY <2>0, <3>1, EnterDoes
    <3>. QED BY <2>0, <2>2, <3>2
  <2>. QED BY ONLY <1>2, <2>1, <2>2, LeaseDoes
<1>3. ASSUME NEW w \in Writer, Snapshot(w) PROVE Answered'
  BY <1>3 DEF Snapshot
<1>4. ASSUME NEW w \in Writer, CreateBackup(w) PROVE Answered'
  BY <1>4 DEF CreateBackup
<1>5. ASSUME NEW w \in Writer, Replace(w) PROVE Answered'
  BY <1>5 DEF Replace
<1>6. ASSUME NEW w \in Writer, Verify(w) PROVE Answered'
  BY <1>6 DEF Verify
<1>7. ASSUME NEW w \in Writer, Prune(w) PROVE Answered'
  BY <1>7 DEF Prune
<1>8. ASSUME NEW w \in Writer, Restore(w) PROVE Answered'
  BY <1>8, RestoredIs DEF Restore
<1>9. ASSUME NEW w \in Writer, Recheck(w) PROVE Answered'
  BY <1>9 DEF Recheck
<1>10. ASSUME NEW w \in Writer, Release(w) PROVE Answered'
  BY <1>10 DEF Release
<1>11. ASSUME NEW w \in Writer, Exit(w) PROVE Answered'
  BY <1>11 DEF Exit
<1>12. ASSUME UNCHANGED onlyConfig PROVE Answered'
  BY <1>12 DEF onlyConfig
<1>. QED BY ONLY [ConfigStep]_onlyConfig, <1>1, <1>2, <1>3, <1>4, <1>5, <1>6, <1>7, <1>8, <1>9, <1>10, <1>11, <1>12 DEF ConfigStep, ApplyStep

(* The invariant holds at the start and is kept by every step. *)
THEOREM InductiveInvariant ==
  AssistSpec => []IInv
<1>1. AssistInit => IInv
  <2> SUFFICES ASSUME Init PROVE IInv
    BY DEF AssistInit
  <2> USE ApplyAssumption DEF Init, NoDoc
  <2>1. IsFiniteSet({}) /\ Cardinality({}) = 0
    BY FS_EmptySet
  <2>2. Typed
    BY <2>1 DEF Typed, Docs, Labels, Outcomes
  <2>3. Numbered /\ Locked /\ Based /\ Preserved /\ Recoverable /\ Answered
    BY DEF Numbered, Locked, Based, Preserved, Crowd, Recoverable, Answered, Unseen, Critical, Labels, HasRead
  <2>. QED BY <2>2, <2>3 DEF IInv
<1>2. IInv /\ [AssistNext]_assistVars => IInv'
  BY RequestStep, TypedStep, NumberedStep, LockedStep, BasedStep, PreservedStep, RecoverableStep,
     AnsweredStep DEF IInv
<1>. QED BY <1>1, <1>2, PTL DEF AssistSpec

(* A change that was reported as made is in the document and stays there,  *)
(* whatever other assistants do to config.json.                            *)
THEOREM ReportsStay ==
  AssistSpec => []ReportedChangeStays
<1>1. IInv => ReportedChangeStays
  BY DEF IInv, Answered, Present, ReportedChangeStays
<1>. QED BY <1>1, InductiveInvariant, PTL

(* "config-write-failed" means that nothing of the change is left.         *)
THEOREM FailuresUndone ==
  AssistSpec => []FailedChangeUndone
<1>1. IInv => FailedChangeUndone
  BY DEF IInv, Answered, Unseen, FailedChangeUndone
<1>. QED BY <1>1, InductiveInvariant, PTL

(* While nobody is beside another, one change can be unconfirmed. *)
LEMMA ChangingIs ==
  ASSUME IInv, ~Crowd, NEW w \in Writer
  PROVE  /\ pc[w] \in {"verify", "prune", "restore"} => Unconfirmed = {w} /\ Changing = w
         /\ pc[w] \in Critical \ {"verify", "prune", "restore"} => Unconfirmed = {}
<1>0. \A u, v \in Writer : pc[u] \in Critical /\ pc[v] \in Critical => u = v
  BY DEF IInv, Locked, Crowd
<1> USE DEF Critical, Labels
<1>1. pc[w] \in {"verify", "prune", "restore"} => Unconfirmed = {w}
  BY <1>0 DEF Unconfirmed
<1>2. Unconfirmed = {w} => Changing = w
  BY DEF Changing
<1>3. pc[w] \in Critical \ {"verify", "prune", "restore"} => Unconfirmed = {}
  BY <1>0 DEF Unconfirmed
<1>. QED BY <1>1, <1>2, <1>3

(* What the document can become. *)
LEMMA DocumentStep ==
  ASSUME IInv, [ConfigStep]_onlyConfig
  PROVE  \/ config' = config
         \/ \E w \in Writer :
               pc[w] \in HasRead /\ config' \in {snap[w], Merged(snap[w], w)}
<1> USE DEF disk, onlyConfig, HasRead
<1>1. ASSUME NEW w \in Writer, Restore(w) PROVE pc[w] \in HasRead /\ (config' = snap[w] \/ config' = config)
  BY <1>1, RestoredIs DEF Restore
<1>2. ASSUME NEW w \in Writer, Replace(w)
      PROVE  pc[w] \in HasRead /\ (config' = Merged(snap[w], w) \/ config' = config)
  BY <1>2 DEF Replace
<1>3. ASSUME NEW w \in Writer, Run(w) \/ ApplyStep(w) \/ Exit(w), ~Restore(w), ~Replace(w)
      PROVE  config' = config
  BY <1>3 DEF Run, Exit, ApplyStep, Lease, Snapshot, CreateBackup, Verify, Prune, Recheck, Release
<1>. QED BY <1>1, <1>2, <1>3 DEF ConfigStep

(* Nobody is left inside when those that were beside one another have left. *)
LEMMA CrowdEnds ==
  ASSUME IInv, Crowd, [ConfigStep]_onlyConfig
  PROVE  base' = base /\ (~Crowd' => \A v \in Writer : pc'[v] \notin Critical)
<1>0. pc \in [Writer -> Labels]
  BY DEF IInv, Typed
<1>a. \A v \in Writer : pc[v] \in Critical => beside[v]
  BY DEF Crowd, IInv, Locked
<1>1. ASSUME NEW w \in Writer, Run(w) \/ Later(w) \/ Exit(w)
      PROVE  base' = base /\ \A v \in Writer : pc'[v] \in Critical => beside'[v]
  BY <1>a, <1>1, Within
<1>2. ASSUME NEW w \in Writer, Lease(w) PROVE base' = base /\ Crowd'
  <2>1. PICK u \in Writer : pc[u] \in Critical /\ beside[u]
    BY DEF Crowd
  <2>2. u # w
    BY <1>2, <2>1, LeaseDoes DEF Critical
  <2>3. pc'[u] = pc[u]
    <3>1. \E label : pc' = [pc EXCEPT ![w] = label]
      BY <1>2, LeaseDoes
    <3>. QED BY <1>0, <2>2, <3>1
  <2>4. CASE UNCHANGED <<beside, base>>
    BY <2>1, <2>3, <2>4 DEF Crowd
  <2>5. CASE \E lock \in Locks : Enter(w, lock)
    <3>1. PICK lock \in Locks : Enter(w, lock)
      BY <2>5
    <3>2. pc[w] = "lease"
      BY <1>2, LeaseDoes
    <3>3. beside'[u]
      BY <2>1, <3>1, <3>2, EnterDoes
    <3>. QED BY <2>1, <2>3, <3>1, <3>3, BaseIs DEF Crowd
  <2>. QED BY <1>2, <2>4, <2>5, LeaseDoes
<1>3. ASSUME UNCHANGED onlyConfig PROVE base' = base /\ Crowd'
  BY <1>3 DEF onlyConfig, history, Crowd
<1>. QED BY <1>1, <1>2, <1>3 DEF ConfigStep, ApplyStep, Later, Crowd

(* While two are beside one another, what stood before is kept. *)
LEMMA MuddleStep ==
  ASSUME IInv, Crowd, [ConfigStep]_onlyConfig
  PROVE  Store!StoreNext
<1>0. snap \in [Writer -> Docs]
  BY DEF IInv, Typed
<1>1. Store!Keeps(base, config')
  <2>1. CASE config' = config
    BY <2>1 DEF IInv, Preserved, Store!Keeps
  <2>2. ASSUME NEW w \in Writer, pc[w] \in HasRead, config' \in {snap[w], Merged(snap[w], w)}
        PROVE  Store!Keeps(base, config')
    <3>1. Store!Keeps(base, snap[w]) /\ snap[w] \in Docs /\ snap[w].kind # "invalid"
      BY <1>0, <2>2 DEF IInv, Preserved, Based
    <3>2. Store!Keeps(base, Merged(snap[w], w))
      BY <3>1 DEF Store!Keeps, Merged, Docs
    <3>. QED BY <2>2, <3>1, <3>2 DEF Store!Keeps
  <2>. QED BY <2>1, <2>2, DocumentStep
<1>2. Open = NoWriter /\ Prior = base
  BY DEF Open, Prior
<1>3. base' = base /\ (~Crowd' => Unconfirmed' = {})
  BY CrowdEnds DEF Unconfirmed, Critical, Labels
<1>4. Open' = NoWriter /\ Prior' = IF Crowd' THEN base ELSE NoDoc
  BY <1>3 DEF Open, Prior, Changing
<1>5. Store!Muddle
  BY <1>1, <1>2, <1>4 DEF Store!Muddle, Store!Keeps, NoDoc, Store!NoDoc
<1>. QED BY <1>5 DEF Store!StoreNext

(* Two can come to be inside only by a lease. *)
LEMMA MeetStep ==
  ASSUME IInv, ~Crowd, Crowd', [ConfigStep]_onlyConfig
  PROVE  Store!StoreNext
<1>1. PICK w \in Writer : Lease(w)
  <2>1. ASSUME NEW w \in Writer, Run(w) \/ Later(w) \/ Exit(w) PROVE FALSE
    BY <2>1, Within DEF Crowd
  <2>2. ASSUME UNCHANGED onlyConfig PROVE FALSE
    BY <2>2 DEF onlyConfig, history, Crowd
  <2>. QED BY <2>1, <2>2 DEF ConfigStep, ApplyStep, Later
<1>2. pc \in [Writer -> Labels] /\ config' = config /\ snap' = snap
  BY <1>1, LeaseDoes DEF IInv, Typed
<1>3. base' = Standing
  <2>1. CASE UNCHANGED <<holder, beside, base>> /\ pc' = [pc EXCEPT ![w] = "idle"]
    BY <1>2, <2>1 DEF Crowd, Critical
  <2>2. CASE pc' = [pc EXCEPT ![w] = "snapshot"] /\ \E lock \in Locks : Enter(w, lock)
    <3>1. PICK lock \in Locks : Enter(w, lock)
      BY <2>2
    <3>2. pc[w] = "lease" /\ ~beside[w]
      BY <1>1, LeaseDoes DEF IInv, Locked
    <3>3. Beside(lock) = {} => beside' = beside
      BY <3>1 DEF Enter, history
    <3>4. beside' = beside => ~Crowd'
      BY <1>2, <2>2, <3>2 DEF Crowd
    <3>5. Beside(lock) # {}
      BY <3>3, <3>4
    <3>. QED BY <3>1, <3>5 DEF Enter
  <2>. QED BY ONLY <1>1, <2>1, <2>2, LeaseDoes
<1>4. Open' = NoWriter /\ Prior' = Standing
  BY <1>3 DEF Open, Prior
<1>5. Standing = IF Open = NoWriter THEN config ELSE Prior
  BY ApplyAssumption DEF Standing, Open, Prior, Changing, Unconfirmed
<1>6. Store!Meet
  BY <1>2, <1>4, <1>5 DEF Store!Meet
<1>. QED BY <1>6 DEF Store!StoreNext

(* Where nothing of this changes, ConfigStore stands still. *)
LEMMA StoreStutters ==
  ASSUME ~Crowd, ~Crowd', Unconfirmed' = Unconfirmed, config' = config,
         \A v \in Unconfirmed : snap'[v] = snap[v]
  PROVE  UNCHANGED Store!storeVars
<1>1. Changing' = Changing
  BY DEF Changing
<1>2. Unconfirmed # {} => Changing \in Unconfirmed
  BY DEF Changing
<1>3. Prior' = Prior /\ Open' = Open
  BY <1>1, <1>2 DEF Prior, Open
<1>4. Crowd' = Crowd
  BY DEF Crowd
<1>. QED BY <1>3, <1>4 DEF Store!storeVars

(* A change that is no longer unconfirmed has been confirmed or taken back. *)
LEMMA StoreCloses ==
  ASSUME IInv, ~Crowd, ~Crowd', NEW w \in Writer, pc[w] \in {"verify", "prune", "restore"},
         Unconfirmed' = {}, config' = config \/ config' = snap[w]
  PROVE  Store!StoreNext
<1>1. Unconfirmed = {w} /\ Changing = w
  BY ChangingIs
<1>2. Open # NoWriter /\ Prior = snap[w]
  BY <1>1, ApplyAssumption DEF Prior, Open
<1>3. Open' = NoWriter /\ Prior' = NoDoc
  BY DEF Changing, Prior, Open
<1>0. Crowd' = Crowd
  BY DEF Crowd
<1>4. CASE config' = config
  <2>1. Store!Confirm
    BY <1>0, <1>2, <1>3, <1>4 DEF Store!Confirm, NoDoc, Store!NoDoc
  <2>. QED BY <2>1 DEF Store!StoreNext
<1>5. CASE config' = snap[w]
  <2>1. Store!TakeBack
    BY <1>0, <1>2, <1>3, <1>5 DEF Store!TakeBack, NoDoc, Store!NoDoc
  <2>. QED BY <2>1 DEF Store!StoreNext
<1>. QED BY <1>4, <1>5

(* A step of config-apply is a step of ConfigStore, or changes nothing of  *)
(* it.                                                                     *)
LEMMA StoreStep ==
  ASSUME IInv, ~Crowd, ~Crowd', [ConfigStep]_onlyConfig
  PROVE  [Store!StoreNext]_Store!storeVars
<1> DEFINE Same == UNCHANGED Store!storeVars
<1> USE DEF disk, Goto, Report, Free, NoFault, Fault
<1>0. pc \in [Writer -> Labels] /\ snap \in [Writer -> Docs]
  BY DEF IInv, Typed
<1>1. ASSUME NEW w \in Writer, Run(w) PROVE Same
  <2>1. Unconfirmed' = Unconfirmed /\ config' = config
    BY <1>0, <1>1 DEF Run, Unconfirmed
  <2>2. \A v \in Unconfirmed : snap'[v] = snap[v]
    BY <1>0, <1>1 DEF Run, Unconfirmed
  <2>. QED BY <2>1, <2>2, StoreStutters
<1>2. ASSUME NEW w \in Writer, Lease(w) PROVE Same
  <2>0. pc[w] = "lease" /\ UNCHANGED <<config, snap>>
    BY <1>2, LeaseDoes
  <2>1. Unconfirmed' = Unconfirmed /\ config' = config
    <3>1. \E label \in {"idle", "snapshot"} : pc' = [pc EXCEPT ![w] = label]
      BY ONLY <1>2, LeaseDoes
    <3>. QED BY <1>0, <2>0, <3>1 DEF Unconfirmed
  <2>2. \A v \in Unconfirmed : snap'[v] = snap[v]
    BY <2>0
  <2>. QED BY <2>1, <2>2, StoreStutters
<1>3. ASSUME NEW w \in Writer, Snapshot(w) PROVE Same
  <2>1. Unconfirmed' = Unconfirmed /\ config' = config
    BY <1>0, <1>3 DEF Snapshot, Unconfirmed
  <2>2. \A v \in Unconfirmed : snap'[v] = snap[v]
    BY <1>0, <1>3 DEF Snapshot, Unconfirmed
  <2>. QED BY <2>1, <2>2, StoreStutters
<1>4. ASSUME NEW w \in Writer, CreateBackup(w) PROVE Same
  <2>1. Unconfirmed' = Unconfirmed /\ config' = config
    BY <1>0, <1>4 DEF CreateBackup, Unconfirmed
  <2>2. \A v \in Unconfirmed : snap'[v] = snap[v]
    BY <1>0, <1>4 DEF CreateBackup, Unconfirmed
  <2>. QED BY <2>1, <2>2, StoreStutters
<1>5. ASSUME NEW w \in Writer, Replace(w) PROVE Store!StoreNext \/ Same
  <2>1. CASE pc'[w] = "verify"
    <3>1. pc[w] = "replace" /\ snap[w] = config /\ config.kind # "invalid"
      BY <1>5 DEF Replace, IInv, Based, Crowd, Critical, Labels, HasRead
    <3>2. Unconfirmed = {}
      BY <3>1, ChangingIs DEF Critical, Labels
    <3>3. config' = Merged(snap[w], w) /\ snap' = snap
      BY <1>0, <1>5, <2>1 DEF Replace
    <3>4. Unconfirmed' = {w}
      BY <1>0, <1>5, <2>1, <3>2 DEF Replace, Unconfirmed
    <3>5. Open = NoWriter /\ Open' = w /\ Changing' = w
      BY <3>2, <3>4 DEF Changing, Open
    <3>6. Prior' = config
      BY <3>1, <3>3, <3>4, <3>5 DEF Prior
    <3>8. Crowd' = Crowd
      BY DEF Crowd
    <3>7. Store!Change(w)
      BY <3>1, <3>3, <3>5, <3>6, <3>8 DEF Store!Change, Store!Changed, Merged
    <3>. QED BY <3>7 DEF Store!StoreNext
  <2>2. CASE pc'[w] # "verify"
    <3>1. Unconfirmed' = Unconfirmed /\ config' = config
      BY <1>0, <1>5, <2>2 DEF Replace, Unconfirmed
    <3>2. snap' = snap
      BY <1>5 DEF Replace
    <3>. QED BY <3>1, <3>2, StoreStutters
  <2>. QED BY <2>1, <2>2
<1>6. ASSUME NEW w \in Writer, Verify(w) PROVE Same
  <2>1. Unconfirmed' = Unconfirmed /\ config' = config
    BY <1>0, <1>6 DEF Verify, Unconfirmed
  <2>2. \A v \in Unconfirmed : snap'[v] = snap[v]
    BY <1>0, <1>6 DEF Verify, Unconfirmed
  <2>. QED BY <2>1, <2>2, StoreStutters
<1>7. ASSUME NEW w \in Writer, Prune(w) PROVE Store!StoreNext \/ Same
  <2>1. pc[w] = "prune" /\ UNCHANGED <<config, snap>>
    BY <1>7 DEF Prune
  <2>2. Unconfirmed = {w}
    BY <2>1, ChangingIs
  <2>3. CASE pc'[w] = "release"
    <3>1. Unconfirmed' = {}
      BY <1>0, <1>7, <2>2, <2>3 DEF Prune, Unconfirmed
    <3>. QED BY <2>1, <3>1, StoreCloses
  <2>4. CASE pc'[w] # "release"
    <3>1. Unconfirmed' = Unconfirmed
      BY <1>0, <1>7, <2>4 DEF Prune, Unconfirmed
    <3>. QED BY <2>1, <3>1, StoreStutters
  <2>. QED BY <2>3, <2>4
<1>8. ASSUME NEW w \in Writer, Restore(w) PROVE Store!StoreNext
  <2>1. pc[w] = "restore" /\ (config' = config \/ config' = snap[w])
    BY <1>8, RestoredIs DEF Restore
  <2>2. Unconfirmed = {w}
    BY <2>1, ChangingIs
  <2>3. Unconfirmed' = {}
    BY <1>0, <1>8, <2>2 DEF Restore, Unconfirmed
  <2>. QED BY <2>1, <2>3, StoreCloses
<1>9. ASSUME NEW w \in Writer, Recheck(w) PROVE Same
  <2>1. Unconfirmed' = Unconfirmed /\ config' = config
    BY <1>0, <1>9 DEF Recheck, Unconfirmed
  <2>2. \A v \in Unconfirmed : snap'[v] = snap[v]
    BY <1>0, <1>9 DEF Recheck, Unconfirmed
  <2>. QED BY <2>1, <2>2, StoreStutters
<1>10. ASSUME NEW w \in Writer, Release(w) PROVE Same
  <2>1. Unconfirmed' = Unconfirmed /\ config' = config
    BY <1>0, <1>10 DEF Release, Unconfirmed
  <2>2. \A v \in Unconfirmed : snap'[v] = snap[v]
    BY <1>0, <1>10 DEF Release, Unconfirmed
  <2>. QED BY <2>1, <2>2, StoreStutters
<1>11. ASSUME NEW w \in Writer, Exit(w) PROVE Store!StoreNext \/ Same
  <2>1. config' = config /\ \A v \in Writer \ {w} : snap'[v] = snap[v] /\ pc'[v] = pc[v]
    BY <1>0, <1>11 DEF Exit
  <2>2. pc'[w] = "idle"
    BY <1>0, <1>11 DEF Exit
  <2>3. CASE w \in Unconfirmed
    <3>1. pc[w] \in {"verify", "prune", "restore"}
      BY <2>3 DEF Unconfirmed
    <3>2. Unconfirmed = {w}
      BY <3>1, ChangingIs
    <3>3. Unconfirmed' = {}
      BY <2>1, <2>2, <3>2 DEF Unconfirmed
    <3>. QED BY <2>1, <3>1, <3>3, StoreCloses
  <2>4. CASE w \notin Unconfirmed
    <3>1. Unconfirmed' = Unconfirmed
      BY <2>1, <2>2, <2>4 DEF Unconfirmed
    <3>2. \A v \in Unconfirmed : snap'[v] = snap[v]
      BY <2>1, <2>4 DEF Unconfirmed
    <3>. QED BY <2>1, <3>1, <3>2, StoreStutters
  <2>. QED BY <2>3, <2>4
<1>12. ASSUME UNCHANGED onlyConfig PROVE Same
  <2>1. UNCHANGED <<config, snap, pc>>
    BY <1>12 DEF onlyConfig
  <2>2. Unconfirmed' = Unconfirmed
    BY <2>1 DEF Unconfirmed
  <2>. QED BY <2>1, <2>2, StoreStutters
<1>. QED BY ONLY [ConfigStep]_onlyConfig, <1>1, <1>2, <1>3, <1>4, <1>5, <1>6, <1>7, <1>8, <1>9, <1>10,
         <1>11, <1>12 DEF ConfigStep, ApplyStep

(* Whatever crashes or fails, config.json is changed as a whole and from   *)
(* its current state, one change at a time, and taken back to exactly what *)
(* it was; when a failing mutex call lets a second writer in beside the    *)
(* first, all that stood before stays.                                     *)
THEOREM ChangesAsPromised == AssistSpec => ImplementsConfigStore
<1>1. AssistInit => Store!StoreInit
  <2> SUFFICES ASSUME Init PROVE Store!StoreInit
    BY DEF AssistInit
  <2>1. Unconfirmed = {} /\ ~Crowd
    BY DEF Init, Unconfirmed, Crowd, Critical
  <2>2. Open = NoWriter /\ Prior = NoDoc
    BY <2>1 DEF Open, Prior, Changing
  <2>. QED BY <2>1, <2>2 DEF Init, Store!StoreInit, NoDoc, Store!NoDoc
<1>2. IInv /\ [AssistNext]_assistVars => [Store!StoreNext]_Store!storeVars
  BY RequestStep, StoreStep, MuddleStep, MeetStep
<1>. QED BY <1>1, <1>2, InductiveInvariant, PTL
         DEF AssistSpec, ImplementsConfigStore, Store!StoreSpec

(***************************************************************************)
(* .env                                                                    *)
(***************************************************************************)
EnvStep == Env!OthersEdit \/ \E w \in Writer : Env!Begin(w) \/ Env!ApplyStep(w) \/ Env!Gone(w)
Backed == {"temp", "replace", "verify", "undo", "rewrite", "check"}

(* What a request does to .env is a step of env-block-apply.               *)
LEMMA EnvRequestStep == [AssistNext]_assistVars => EnvStep \/ UNCHANGED onlyEnv
<1> SUFFICES ASSUME [AssistNext]_assistVars PROVE EnvStep \/ UNCHANGED onlyEnv
  OBVIOUS
<1>1. ASSUME NEW w \in Writer, ApplyConfig(w) PROVE UNCHANGED onlyEnv
  BY ONLY <1>1 DEF ApplyConfig
<1>2. ASSUME NEW w \in Writer, ApplyEnvBlock(w) PROVE EnvStep
  BY ONLY <1>2 DEF ApplyEnvBlock, EnvStep
<1>3. ASSUME NEW w \in Writer, Answer(w) PROVE UNCHANGED onlyEnv
  BY ONLY <1>3 DEF Answer
<1>4. ASSUME NEW w \in Writer, Leave(w) PROVE EnvStep
  BY ONLY <1>4 DEF Leave, EnvStep
<1>5. ASSUME OthersEdit PROVE EnvStep
  BY ONLY <1>5 DEF OthersEdit, EnvStep
<1>6. ASSUME UNCHANGED assistVars PROVE UNCHANGED onlyEnv
  BY ONLY <1>6 DEF assistVars, onlyEnv
<1>. QED BY ONLY [AssistNext]_assistVars, <1>1, <1>2, <1>3, <1>4, <1>5, <1>6 DEF AssistNext

(* One writer goes on, with locals that are backed up if they need be.     *)
LEMMA BackedUpKept ==
  ASSUME Env!BackedUp, NEW w \in Writer, NEW l \in Env!Jobs,
         job' = [job EXCEPT ![w] = l], saved \subseteq saved',
         env' \in Env!Text \cup {Env!NoFile},
         l.at = "backup" => l.existed,
         l.at \in Backed => IF l.existed THEN l.raw \in saved' ELSE l.raw.theirs = {}
  PROVE  Env!BackedUp'
<1>1. job \in [Writer -> Env!Jobs]
  BY DEF Env!BackedUp
<1>2. job' \in [Writer -> Env!Jobs]
  BY <1>1
<1>3. job'[w] = l /\ \A v \in Writer \ {w} : job'[v] = job[v]
  BY <1>1
<1>4. ASSUME NEW v \in Writer
      PROVE  /\ job'[v].at = "backup" => job'[v].existed
             /\ job'[v].at \in Backed =>
                  IF job'[v].existed THEN job'[v].raw \in saved' ELSE job'[v].raw.theirs = {}
  <2>1. CASE v = w
    BY <1>3, <2>1
  <2>2. CASE v # w
    BY <1>3, <2>2 DEF Env!BackedUp, Env!At, Backed
  <2>. QED BY <2>1, <2>2
<1>. QED BY ONLY <1>2, <1>4, env' \in Env!Text \cup {Env!NoFile} DEF Env!BackedUp, Env!At, Backed

(* What is to be undone has a complete backup, unless there was nothing.   *)
LEMMA BackedUpStep ==
  ASSUME Env!BackedUp, EnvStep
  PROVE  Env!BackedUp'
<1> DEFINE Texts == Env!Text \cup {Env!NoFile}
<1>a. env \in Texts /\ job \in [Writer -> Env!Jobs]
  BY DEF Env!BackedUp
<1>b. \A said \in {"ok", "refused", "failed", "rollback_failed", "none"} :
        [Env!Rest EXCEPT !.said = said] \in Env!Jobs /\ [Env!Rest EXCEPT !.said = said].at = "idle"
  BY DEF Env!Rest, Env!Jobs
<1>c. ASSUME NEW w \in Writer, NEW said \in {"ok", "refused", "failed", "rollback_failed"},
             Env!Say(w, said), saved \subseteq saved', env' \in Texts
      PROVE  Env!BackedUp'
  <2>1. job' = [job EXCEPT ![w] = [Env!Rest EXCEPT !.said = said]]
    BY <1>c DEF Env!Say, Env!Step
  <2>. QED BY <1>b, <1>c, <2>1, BackedUpKept DEF Backed
<1>d. ASSUME NEW w \in Writer, NEW label \in Backed, Env!Goto(w, label),
             saved \subseteq saved', env' \in Texts,
             IF job[w].existed THEN job[w].raw \in saved' ELSE job[w].raw.theirs = {}
      PROVE  Env!BackedUp'
  <2>1. job' = [job EXCEPT ![w] = [job[w] EXCEPT !.at = label]]
    BY <1>d DEF Env!Goto, Env!Step
  <2>2. [job[w] EXCEPT !.at = label] \in Env!Jobs
    BY <1>a DEF Env!Jobs, Backed
  <2>3. /\ [job[w] EXCEPT !.at = label].at = label
        /\ [job[w] EXCEPT !.at = label].existed = job[w].existed
        /\ [job[w] EXCEPT !.at = label].raw = job[w].raw
    BY <1>a DEF Env!Jobs
  <2>. QED BY <1>d, <2>1, <2>2, <2>3, BackedUpKept DEF Backed
<1>e. \A w \in Writer : job[w].at \in Backed =>
        IF job[w].existed THEN job[w].raw \in saved ELSE job[w].raw.theirs = {}
  BY DEF Env!BackedUp, Env!At, Backed
<1>f. Env!Empty \in Texts
  BY DEF Env!Empty, Env!Text
<1>g. \A w \in Writer : Env!Rewritten(job[w].raw) \in Texts /\ job[w].raw \in Texts
  BY <1>a DEF Env!Rewritten, Env!Jobs, Env!Text, Env!NoFile
<1>1. ASSUME NEW w \in Writer, Env!Begin(w) PROVE Env!BackedUp'
  <2>1. job' = [job EXCEPT ![w] = [job[w] EXCEPT !.at = "look"]] /\ UNCHANGED <<env, saved>>
    BY <1>1 DEF Env!Begin, Env!disk
  <2>2. [job[w] EXCEPT !.at = "look"] \in Env!Jobs /\ [job[w] EXCEPT !.at = "look"].at = "look"
    BY <1>a DEF Env!Jobs
  <2>. QED BY <1>a, <2>1, <2>2, BackedUpKept DEF Backed
<1>2. ASSUME NEW w \in Writer, Env!Look(w) PROVE Env!BackedUp'
  <2> DEFINE next == [job[w] EXCEPT !.at = "open", !.created = ~home, !.existed = env # Env!NoFile]
  <2>1. CASE Env!Say(w, "refused")
    BY <1>2, <1>a, <1>c, <2>1 DEF Env!Look
  <2>2. CASE Env!Step(w, next)
    <3>1. job' = [job EXCEPT ![w] = next] /\ UNCHANGED <<env, saved>>
      BY <1>2, <2>2 DEF Env!Look, Env!Step
    <3>2. next \in Env!Jobs /\ next.at = "open"
      BY <1>a DEF Env!Jobs
    <3>. QED BY <1>a, <3>1, <3>2, BackedUpKept DEF Backed
  <2>. QED BY <1>2, <2>1, <2>2 DEF Env!Look
<1>3. ASSUME NEW w \in Writer, Env!Open(w) PROVE Env!BackedUp'
  <2> DEFINE raw == IF job[w].existed THEN env ELSE Env!Empty
             next == [job[w] EXCEPT !.raw = raw, !.at = IF job[w].existed THEN "backup" ELSE "temp"]
  <2>0. UNCHANGED <<env, saved>>
    BY <1>3 DEF Env!Open
  <2>1. CASE Env!Say(w, "refused")
    BY <1>a, <1>c, <2>0, <2>1
  <2>2. CASE Env!Step(w, next)
    <3>1. job' = [job EXCEPT ![w] = next]
      BY <2>2 DEF Env!Step
    <3>2. raw \in Texts /\ job[w] \in Env!Jobs
      BY <1>a, <1>f
    <3>3. /\ next \in Env!Jobs /\ next.existed = job[w].existed /\ next.raw = raw
          /\ next.at = IF job[w].existed THEN "backup" ELSE "temp"
      BY <3>2 DEF Env!Jobs
    <3>4. ~job[w].existed => raw.theirs = {}
      BY DEF Env!Empty
    <3>5. /\ next.at = "backup" => next.existed
          /\ next.at \in Backed => ~next.existed /\ next.raw.theirs = {}
      BY ONLY <3>3, <3>4 DEF Backed
    <3>6. saved \subseteq saved' /\ env' \in Texts
      BY ONLY <1>a, <2>0
    <3> HIDE DEF next, Texts
    <3>. QED BY <3>1, <3>3, <3>5, <3>6, BackedUpKept DEF Texts
  <2>. QED BY <1>3, <2>1, <2>2 DEF Env!Open
<1>4. ASSUME NEW w \in Writer, Env!Backup(w) PROVE Env!BackedUp'
  <2>0. job[w].existed /\ env' = env
    BY <1>4 DEF Env!Backup, Env!BackedUp, Env!At
  <2>1. CASE saved' = saved \cup {job[w].raw} /\ Env!Goto(w, "temp")
    BY <1>a, <1>d, <2>0, <2>1 DEF Backed
  <2>2. CASE Env!Say(w, "failed") /\ saved' = saved
    BY <1>a, <1>c, <2>0, <2>2
  <2>. QED BY <1>4, <2>1, <2>2 DEF Env!Backup
<1>5. ASSUME NEW w \in Writer, Env!WriteTemp(w) PROVE Env!BackedUp'
  <2>0. UNCHANGED <<env, saved>> /\ job[w].at \in Backed
    BY <1>5 DEF Env!WriteTemp, Env!At, Backed
  <2>1. CASE Env!Say(w, "failed")
    BY <1>a, <1>c, <2>0, <2>1
  <2>2. CASE Env!Goto(w, "replace") \/ Env!Goto(w, "undo")
    BY <1>a, <1>d, <1>e, <2>0, <2>2 DEF Backed
  <2>. QED BY <1>5, <2>1, <2>2 DEF Env!WriteTemp
<1>6. ASSUME NEW w \in Writer, Env!Replace(w) PROVE Env!BackedUp'
  <2>0. saved' = saved /\ job[w].at \in Backed /\ env' \in Texts
    BY <1>6, <1>a, <1>g DEF Env!Replace, Env!At, Backed
  <2>1. Env!Goto(w, "verify") \/ Env!Goto(w, "undo")
    BY <1>6 DEF Env!Replace
  <2>. QED BY <1>d, <1>e, <2>0, <2>1 DEF Backed
<1>7. ASSUME NEW w \in Writer, Env!Verify(w) PROVE Env!BackedUp'
  <2>0. UNCHANGED <<env, saved>> /\ job[w].at \in Backed
    BY <1>7 DEF Env!Verify, Env!At, Backed
  <2>1. Env!Say(w, "ok") \/ Env!Goto(w, "undo")
    BY <1>7 DEF Env!Verify
  <2>. QED BY <1>a, <1>c, <1>d, <1>e, <2>0, <2>1 DEF Backed
<1>8. ASSUME NEW w \in Writer, Env!Undo(w) PROVE Env!BackedUp'
  <2>0. saved' = saved /\ job[w].at \in Backed /\ env' \in Texts
    BY <1>8, <1>a, <1>f DEF Env!Undo, Env!At, Backed
  <2>1. Env!Say(w, "failed") \/ Env!Say(w, "rollback_failed") \/ Env!Goto(w, "rewrite")
    BY <1>8 DEF Env!Undo, Env!Undone
  <2>. QED BY <1>c, <1>d, <1>e, <2>0, <2>1 DEF Backed
<1>9. ASSUME NEW w \in Writer, Env!Rewrite(w) PROVE Env!BackedUp'
  <2>0. saved' = saved /\ job[w].at \in Backed /\ env' \in Texts
    BY <1>9, <1>a, <1>g DEF Env!Rewrite, Env!At, Backed
  <2>1. Env!Say(w, "rollback_failed") \/ Env!Goto(w, "check")
    BY <1>9 DEF Env!Rewrite
  <2>. QED BY <1>c, <1>d, <1>e, <2>0, <2>1 DEF Backed
<1>10. ASSUME NEW w \in Writer, Env!RestoreCheck(w) PROVE Env!BackedUp'
  <2>0. UNCHANGED <<env, saved>>
    BY <1>10 DEF Env!RestoreCheck
  <2>1. Env!Say(w, "failed") \/ Env!Say(w, "rollback_failed")
    BY <1>10 DEF Env!RestoreCheck
  <2>. QED BY <1>a, <1>c, <2>0, <2>1
<1>11. ASSUME NEW w \in Writer, Env!Gone(w) PROVE Env!BackedUp'
  <2>1. job' = [job EXCEPT ![w] = Env!Rest] /\ UNCHANGED <<env, saved>>
    BY <1>11 DEF Env!Gone
  <2>2. Env!Rest \in Env!Jobs /\ Env!Rest.at = "idle"
    BY DEF Env!Rest, Env!Jobs
  <2>. QED BY <1>a, <2>1, <2>2, BackedUpKept DEF Backed
<1>12. ASSUME Env!OthersEdit PROVE Env!BackedUp'
  <2>1. env' \in Texts /\ UNCHANGED <<saved, job>>
    BY <1>12, <1>a DEF Env!OthersEdit, Env!Edited, Env!Text, Env!NoFile
  <2>. QED BY <2>1 DEF Env!BackedUp, Env!At
<1>. QED BY ONLY EnvStep, <1>1, <1>2, <1>3, <1>4, <1>5, <1>6, <1>7, <1>8, <1>9, <1>10, <1>11, <1>12
         DEF EnvStep, Env!ApplyStep

(* A step that changes .env writes the writer's own text or takes it back. *)
LEMMA LinesKeptStep ==
  ASSUME Env!BackedUp, EnvStep, NEW w \in Writer, job'[w] # job[w], env' # env
  PROVE  \/ env.theirs \cap job[w].raw.theirs \subseteq env'.theirs
         \/ Env!At(w, "undo") /\ job[w].raw \in saved
<1>0. job \in [Writer -> Env!Jobs]
  BY DEF Env!BackedUp
<1>1. ~Env!OthersEdit
  BY DEF Env!OthersEdit
<1>2. PICK v \in Writer : Env!Begin(v) \/ Env!ApplyStep(v) \/ Env!Gone(v)
  BY <1>1 DEF EnvStep
<1>3. Env!Replace(v) \/ Env!Undo(v) \/ Env!Rewrite(v)
  BY <1>2 DEF Env!Begin, Env!Gone, Env!disk, Env!ApplyStep, Env!Look, Env!Open, Env!Backup,
       Env!WriteTemp, Env!Verify, Env!RestoreCheck
<1>4. \E l : job' = [job EXCEPT ![v] = l]
  BY <1>3 DEF Env!Replace, Env!Undo, Env!Undone, Env!Rewrite, Env!Goto, Env!Say, Env!Step
<1>5. v = w
  BY <1>0, <1>4
<1>6. CASE Env!Replace(w)
  BY <1>6 DEF Env!Replace, Env!Rewritten
<1>7. CASE Env!Rewrite(w)
  BY <1>7 DEF Env!Rewrite
<1>8. CASE Env!Undo(w)
  <2>1. Env!At(w, "undo")
    BY <1>8 DEF Env!Undo
  <2>2. IF job[w].existed THEN job[w].raw \in saved ELSE job[w].raw.theirs = {}
    BY <2>1 DEF Env!BackedUp, Env!At
  <2>. QED BY <2>1, <2>2
<1>. QED BY <1>3, <1>5, <1>6, <1>7, <1>8

(* No step of an assistant takes a line of others out of .env that it had  *)
(* read, except to write it back from a backup, which is complete.         *)
THEOREM ForeignLinesKept == AssistSpec => LinesKept
<1> DEFINE Kept == \A w \in Writer : job'[w] # job[w] /\ env' # env =>
              \/ env.theirs \cap job[w].raw.theirs \subseteq env'.theirs
              \/ Env!At(w, "undo") /\ job[w].raw \in saved
<1>1. AssistInit => Env!BackedUp
  BY DEF AssistInit, Env!Init, Env!BackedUp, Env!At, Env!Rest, Env!Jobs, Env!Text, Env!NoFile
<1>2. Env!BackedUp /\ [AssistNext]_assistVars => Env!BackedUp'
  <2>1. Env!BackedUp /\ UNCHANGED onlyEnv => Env!BackedUp'
    BY DEF onlyEnv, Env!BackedUp, Env!At
  <2>. QED BY <2>1, EnvRequestStep, BackedUpStep
<1>3. Env!BackedUp /\ [AssistNext]_assistVars => [Kept]_(Env!envVars)
  <2>1. UNCHANGED onlyEnv => Kept
    BY DEF onlyEnv
  <2>2. Env!BackedUp /\ EnvStep => Kept
    BY LinesKeptStep
  <2>. QED BY <2>1, <2>2, EnvRequestStep
<1>. QED BY <1>1, <1>2, <1>3, PTL DEF AssistSpec, LinesKept, Env!LinesKept

(***************************************************************************)
(* What is answered of .env.                                               *)
(***************************************************************************)
Known == Env!BackedUp /\ Env!Informed

(* A step of one writer: what the others know stands, or they are told.    *)
LEMMA OthersInformed ==
  ASSUME Known, NEW w \in Writer, NEW l \in Env!Jobs, Env!Step(w, l)
  PROVE  /\ job' = [job EXCEPT ![w] = l] /\ job'[w] = l /\ found' = found
         /\ met' \in [Writer -> BOOLEAN] /\ met'[w] = met[w]
         /\ \A v \in Writer \ {w} : Env!KnowsItsText(v)'
<1> USE DEF Known, Env!Informed
<1>1. /\ job \in [Writer -> Env!Jobs] /\ found \in [Writer -> Env!Text \cup {Env!NoFile}]
      /\ met \in [Writer -> BOOLEAN]
  BY DEF Env!BackedUp
<1>2. /\ job' = [job EXCEPT ![w] = l] /\ found' = found
      /\ met' = [v \in Writer |-> met[v] \/ (v \in Env!Engaged \ {w} /\ env' # env)]
  BY DEF Env!Step
<1>3. job'[w] = l /\ \A v \in Writer \ {w} : job'[v] = job[v]
  BY <1>1, <1>2
<1>4. met' \in [Writer -> BOOLEAN]
  BY ONLY <1>1, <1>2
<1>5. met'[w] = met[w]
  BY <1>1, <1>2
<1>6. ASSUME NEW v \in Writer \ {w} PROVE Env!KnowsItsText(v)'
  <2>1. Env!KnowsItsText(v)
    OBVIOUS
  <2>2. job'[v] = job[v] /\ found'[v] = found[v]
    BY <1>2, <1>3
  <2>3. CASE env' = env
    <3>1. met'[v] = met[v]
      BY <1>1, <1>2, <2>3
    <3>. QED BY <2>1, <2>2, <2>3, <3>1 DEF Env!KnowsItsText, Env!Original
  <2>4. CASE v \in Env!Engaged
    <3>1. CASE env' # env
      BY <1>2, <2>1, <2>2, <2>4, <3>1 DEF Env!KnowsItsText
    <3>. QED BY <2>3, <3>1
  <2>5. CASE v \notin Env!Engaged
    <3>1. job[v].at = "idle" /\ job[v].said = "none"
      BY <2>5 DEF Env!Engaged, Env!At
    <3>. QED BY <2>2, <3>1 DEF Env!KnowsItsText
  <2>. QED BY <2>4, <2>5
<1>. QED BY <1>2, <1>3, <1>4, <1>5, <1>6

(* What it takes for the invariant to be kept by a step of one writer.     *)
LEMMA InformedKept ==
  ASSUME Known, NEW w \in Writer, NEW l \in Env!Jobs, Env!Step(w, l),
         l.at # "idle" => l.said = "none",
         ~met[w] =>
           /\ l.at \in {"look", "open", "backup", "temp", "replace"} => env' = found[w]
           /\ l.at \notin {"idle", "look"} => l.existed = (found[w] # Env!NoFile)
           /\ l.at \notin {"idle", "look", "open"} => l.raw = Env!Original(w)
           /\ l.at \in {"rewrite", "check"} => l.existed
           /\ l.said = "ok" => env' = Env!Rewritten(Env!Original(w))
           /\ l.said \in {"refused", "failed"} => env' = found[w]
  PROVE  Env!Informed'
<1>1. /\ job'[w] = l /\ found' = found /\ met' \in [Writer -> BOOLEAN] /\ met'[w] = met[w]
      /\ \A v \in Writer \ {w} : Env!KnowsItsText(v)'
  BY OthersInformed
<1>2. Env!KnowsItsText(w)'
  BY <1>1 DEF Env!KnowsItsText, Env!Original, Env!Rewritten
<1>3. found' \in [Writer -> Env!Text \cup {Env!NoFile}]
  BY <1>1 DEF Known, Env!Informed
<1>. QED BY <1>1, <1>2, <1>3 DEF Env!Informed

(* A writer that answers "refused" or "failed" has left .env as it was.    *)
LEMMA SaysTruly ==
  ASSUME Known, NEW w \in Writer, NEW said \in {"ok", "refused", "failed", "rollback_failed"},
         Env!Say(w, said),
         ~met[w] /\ said = "ok" => env' = Env!Rewritten(Env!Original(w)),
         ~met[w] /\ said \in {"refused", "failed"} => env' = found[w]
  PROVE  Env!Informed'
<1> DEFINE l == [Env!Rest EXCEPT !.said = said]
<1>1. l \in Env!Jobs /\ l.at = "idle" /\ l.said = said
  BY DEF Env!Rest, Env!Jobs
<1>2. Env!Step(w, l)
  BY DEF Env!Say
<1> HIDE DEF l
<1>. QED BY <1>1, <1>2, InformedKept

(* A writer that goes on to the next step of its application.              *)
LEMMA GoesOn ==
  ASSUME Known, NEW w \in Writer, NEW label \in Backed, Env!Goto(w, label),
         job[w].at \notin {"idle", "look", "open"},
         ~met[w] => /\ label \in {"temp", "replace"} => env' = found[w]
                    /\ label \in {"rewrite", "check"} => job[w].existed
  PROVE  Env!Informed'
<1> DEFINE l == [job[w] EXCEPT !.at = label]
<1>1. job[w] \in Env!Jobs /\ Env!KnowsItsText(w)
  BY DEF Known, Env!BackedUp, Env!Informed
<1>2. l \in Env!Jobs
  BY <1>1 DEF Backed, Env!Jobs
<1>3. l.at = label /\ l.said = job[w].said /\ l.existed = job[w].existed /\ l.raw = job[w].raw
  BY <1>1 DEF Env!Jobs
<1>4. Env!Step(w, l)
  BY DEF Env!Goto
<1>5. l.said = "none"
  BY <1>1, <1>3 DEF Env!KnowsItsText
<1>6. ~met[w] => l.existed = (found[w] # Env!NoFile) /\ l.raw = Env!Original(w)
  BY <1>1, <1>3 DEF Env!KnowsItsText
<1> HIDE DEF l
<1>. QED BY <1>2, <1>3, <1>4, <1>5, <1>6, InformedKept DEF Backed

(* Every step of an application keeps what the writers know of .env.       *)
LEMMA InformedStep ==
  ASSUME Known, EnvStep
  PROVE  Env!Informed'
<1>a. /\ job \in [Writer -> Env!Jobs] /\ found \in [Writer -> Env!Text \cup {Env!NoFile}]
      /\ met \in [Writer -> BOOLEAN] /\ env \in Env!Text \cup {Env!NoFile}
      /\ \A w \in Writer : Env!KnowsItsText(w)
  BY DEF Known, Env!BackedUp, Env!Informed
<1>b. \A w \in Writer : Env!Original(w) \in Env!Text
  BY <1>a DEF Env!Original, Env!Empty, Env!Text
<1>1. ASSUME NEW w \in Writer, Env!Begin(w) PROVE Env!Informed'
  <2>1. /\ job' = [job EXCEPT ![w] = [job[w] EXCEPT !.at = "look"]]
        /\ found' = [found EXCEPT ![w] = env] /\ met' = [met EXCEPT ![w] = FALSE]
        /\ env' = env /\ job[w].at = "idle" /\ job[w].said = "none"
    BY <1>1 DEF Env!Begin, Env!disk, Env!At
  <2>2. ASSUME NEW v \in Writer, v # w PROVE Env!KnowsItsText(v)'
    BY <1>a, <2>1, <2>2 DEF Env!KnowsItsText, Env!Original
  <2>3. job'[w].at = "look" /\ job'[w].said = "none" /\ found'[w] = env
    BY <1>a, <2>1 DEF Env!Jobs
  <2>4. Env!KnowsItsText(w)'
    BY <2>1, <2>3 DEF Env!KnowsItsText
  <2>5. found' \in [Writer -> Env!Text \cup {Env!NoFile}] /\ met' \in [Writer -> BOOLEAN]
    BY <1>a, <2>1
  <2>. QED BY <2>2, <2>4, <2>5 DEF Env!Informed
<1>2. ASSUME NEW w \in Writer, Env!Look(w) PROVE Env!Informed'
  <2> DEFINE next == [job[w] EXCEPT !.at = "open", !.created = ~home, !.existed = env # Env!NoFile]
  <2>0. env' = env /\ job[w].at = "look" /\ (~met[w] => env = found[w]) /\ job[w].said = "none"
    BY <1>2, <1>a DEF Env!Look, Env!At, Env!KnowsItsText
  <2>1. CASE Env!Say(w, "refused")
    BY <2>0, <2>1, SaysTruly
  <2>2. CASE Env!Step(w, next)
    <3>1. /\ next \in Env!Jobs /\ next.at = "open" /\ next.said = "none"
          /\ next.existed = (env # Env!NoFile)
      BY <1>a, <2>0 DEF Env!Jobs
    <3> HIDE DEF next
    <3>. QED BY <2>0, <2>2, <3>1, InformedKept
  <2>. QED BY <1>2, <2>1, <2>2 DEF Env!Look
<1>3. ASSUME NEW w \in Writer, Env!Open(w) PROVE Env!Informed'
  <2> DEFINE raw == IF job[w].existed THEN env ELSE Env!Empty
             next == [job[w] EXCEPT !.raw = raw, !.at = IF job[w].existed THEN "backup" ELSE "temp"]
  <2>0. /\ env' = env /\ job[w].at = "open" /\ job[w].said = "none"
        /\ ~met[w] => env = found[w] /\ job[w].existed = (found[w] # Env!NoFile)
    BY <1>3, <1>a DEF Env!Open, Env!At, Env!KnowsItsText
  <2>1. CASE Env!Say(w, "refused")
    BY <2>0, <2>1, SaysTruly
  <2>2. CASE Env!Step(w, next)
    <3>1. raw \in Env!Text \cup {Env!NoFile} /\ job[w] \in Env!Jobs
      BY <1>a DEF Env!Empty, Env!Text
    <3>2. /\ next \in Env!Jobs /\ next.existed = job[w].existed /\ next.raw = raw
          /\ next.at \in {"backup", "temp"} /\ next.said = "none"
      BY <2>0, <3>1 DEF Env!Jobs
    <3>3. ~met[w] => raw = Env!Original(w)
      BY <2>0 DEF Env!Original
    <3> HIDE DEF next, raw
    <3>. QED BY <2>0, <2>2, <3>2, <3>3, InformedKept
  <2>. QED BY <1>3, <2>1, <2>2 DEF Env!Open
<1>4. ASSUME NEW w \in Writer, Env!Backup(w) PROVE Env!Informed'
  <2>0. env' = env /\ job[w].at = "backup" /\ (~met[w] => env = found[w])
    BY <1>4, <1>a DEF Env!Backup, Env!At, Env!KnowsItsText
  <2>1. CASE Env!Goto(w, "temp")
    BY <2>0, <2>1, GoesOn DEF Backed
  <2>2. CASE Env!Say(w, "failed")
    BY <2>0, <2>2, SaysTruly
  <2>. QED BY <1>4, <2>1, <2>2 DEF Env!Backup
<1>5. ASSUME NEW w \in Writer, Env!WriteTemp(w) PROVE Env!Informed'
  <2>0. env' = env /\ job[w].at = "temp" /\ (~met[w] => env = found[w])
    BY <1>5, <1>a DEF Env!WriteTemp, Env!At, Env!KnowsItsText
  <2>1. CASE Env!Say(w, "failed")
    BY <2>0, <2>1, SaysTruly
  <2>2. CASE Env!Goto(w, "replace")
    BY <2>0, <2>2, GoesOn DEF Backed
  <2>3. CASE Env!Goto(w, "undo")
    BY <2>0, <2>3, GoesOn DEF Backed
  <2>. QED BY <1>5, <2>1, <2>2, <2>3 DEF Env!WriteTemp
<1>6. ASSUME NEW w \in Writer, Env!Replace(w) PROVE Env!Informed'
  <2>0. job[w].at = "replace"
    BY <1>6 DEF Env!Replace, Env!At
  <2>1. CASE Env!Goto(w, "verify")
    BY <2>0, <2>1, GoesOn DEF Backed
  <2>2. CASE Env!Goto(w, "undo")
    BY <2>0, <2>2, GoesOn DEF Backed
  <2>. QED BY <1>6, <2>1, <2>2 DEF Env!Replace
<1>7. ASSUME NEW w \in Writer, Env!Verify(w) PROVE Env!Informed'
  <2>0. env' = env /\ job[w].at = "verify" /\ (~met[w] => job[w].raw = Env!Original(w))
    BY <1>7, <1>a DEF Env!Verify, Env!At, Env!KnowsItsText
  <2>1. CASE Env!Say(w, "ok") /\ env = Env!Rewritten(job[w].raw)
    BY <2>0, <2>1, SaysTruly DEF Env!Rewritten
  <2>2. CASE Env!Goto(w, "undo")
    BY <2>0, <2>2, GoesOn DEF Backed
  <2>. QED BY <1>7, <2>1, <2>2 DEF Env!Verify
<1>8. ASSUME NEW w \in Writer, Env!Undo(w) PROVE Env!Informed'
  <2>0. /\ job[w].at = "undo"
        /\ ~met[w] => job[w].existed = (found[w] # Env!NoFile)
    BY <1>8, <1>a DEF Env!Undo, Env!At, Env!KnowsItsText
  <2>1. CASE job[w].existed /\ Env!Goto(w, "rewrite")
    BY <2>0, <2>1, GoesOn DEF Backed
  <2>2. CASE Env!Say(w, "rollback_failed")
    BY <2>2, SaysTruly
  <2>3. CASE ~job[w].existed /\ env' = Env!NoFile /\ Env!Undone(w)
    BY <2>0, <2>2, <2>3, SaysTruly DEF Env!Undone
  <2>. QED BY <1>8, <2>1, <2>2, <2>3 DEF Env!Undo
<1>9. ASSUME NEW w \in Writer, Env!Rewrite(w) PROVE Env!Informed'
  <2>0. job[w].at = "rewrite" /\ (~met[w] => job[w].existed)
    BY <1>9, <1>a DEF Env!Rewrite, Env!At, Env!KnowsItsText
  <2>1. CASE Env!Goto(w, "check")
    BY <2>0, <2>1, GoesOn DEF Backed
  <2>2. CASE Env!Say(w, "rollback_failed")
    BY <2>2, SaysTruly
  <2>. QED BY <1>9, <2>1, <2>2 DEF Env!Rewrite
<1>10. ASSUME NEW w \in Writer, Env!RestoreCheck(w) PROVE Env!Informed'
  <2>0. /\ env' = env /\ job[w].at = "check"
        /\ ~met[w] => job[w].existed /\ job[w].existed = (found[w] # Env!NoFile)
                      /\ job[w].raw = Env!Original(w)
    BY <1>10, <1>a DEF Env!RestoreCheck, Env!At, Env!KnowsItsText
  <2>1. ~met[w] => job[w].raw = found[w]
    BY <2>0 DEF Env!Original
  <2>2. CASE Env!Say(w, "failed") /\ env = job[w].raw
    BY <2>0, <2>1, <2>2, SaysTruly
  <2>3. CASE Env!Say(w, "rollback_failed")
    BY <2>3, SaysTruly
  <2>. QED BY <1>10, <2>2, <2>3 DEF Env!RestoreCheck
<1>11. ASSUME NEW w \in Writer, Env!Gone(w) PROVE Env!Informed'
  <2>1. /\ job' = [job EXCEPT ![w] = Env!Rest] /\ env' = env
        /\ found' = [found EXCEPT ![w] = Env!NoFile] /\ met' = [met EXCEPT ![w] = FALSE]
    BY <1>11 DEF Env!Gone
  <2>2. ASSUME NEW v \in Writer, v # w PROVE Env!KnowsItsText(v)'
    BY <1>a, <2>1, <2>2 DEF Env!KnowsItsText, Env!Original
  <2>3. job'[w].at = "idle" /\ job'[w].said = "none"
    BY <1>a, <2>1 DEF Env!Rest
  <2>4. Env!KnowsItsText(w)'
    BY <2>3 DEF Env!KnowsItsText
  <2>5. found' \in [Writer -> Env!Text \cup {Env!NoFile}] /\ met' \in [Writer -> BOOLEAN]
    BY <1>a, <2>1
  <2>. QED BY <2>2, <2>4, <2>5 DEF Env!Informed
<1>12. ASSUME Env!OthersEdit PROVE Env!Informed'
  <2>1. /\ met' = [w \in Writer |-> met[w] \/ w \in Env!Engaged]
        /\ job' = job /\ found' = found
    BY <1>12 DEF Env!OthersEdit
  <2>2. ASSUME NEW v \in Writer PROVE Env!KnowsItsText(v)'
    <3>1. met'[v] = (met[v] \/ v \in Env!Engaged)
      BY <2>1
    <3>2. CASE v \in Env!Engaged
      BY <1>a, <2>1, <3>1, <3>2 DEF Env!KnowsItsText
    <3>3. CASE v \notin Env!Engaged
      BY <2>1, <3>3 DEF Env!KnowsItsText, Env!Engaged, Env!At
    <3>. QED BY <3>2, <3>3
  <2>3. met' \in [Writer -> BOOLEAN]
    BY ONLY <1>a, <2>1
  <2>. QED BY <1>a, <2>1, <2>2, <2>3 DEF Env!Informed
<1>. QED BY ONLY EnvStep, <1>1, <1>2, <1>3, <1>4, <1>5, <1>6, <1>7, <1>8, <1>9, <1>10, <1>11, <1>12
         DEF EnvStep, Env!ApplyStep

(* A step of one application leaves the results of other assistants alone. *)
LEMMA OthersResults ==
  ASSUME Typed, NEW w \in Writer, Run(w) \/ ApplyStep(w) \/ Exit(w), NEW v \in Writer, v # w
  PROVE  pc'[v] = pc[v] /\ outcome'[v] = outcome[v]
<1>0. pc \in [Writer -> Labels] /\ outcome \in [Writer -> Outcomes]
  BY DEF Typed
<1>1. \E label : pc' = [pc EXCEPT ![w] = label]
  <2>1. ASSUME Lease(w) PROVE \E label : pc' = [pc EXCEPT ![w] = label]
    BY <2>1, LeaseDoes
  <2>. QED BY <2>1 DEF Run, Exit, ApplyStep, Snapshot, CreateBackup, Replace, Verify, Prune,
         Restore, Recheck, Release, Goto
<1>2. outcome' = outcome \/ \E value : outcome' = [outcome EXCEPT ![w] = value]
  <2>1. ASSUME Lease(w)
        PROVE  outcome' = outcome \/ outcome' = [outcome EXCEPT ![w] = "refused"]
    BY ONLY <2>1, LeaseDoes
  <2>. QED BY <2>1 DEF Run, Exit, ApplyStep, Snapshot, CreateBackup, Replace, Verify, Prune,
         Restore, Recheck, Release, Report
<1>. QED BY <1>0, <1>1, <1>2

LEMMA OthersJobs ==
  ASSUME Env!BackedUp, NEW w \in Writer, Env!Begin(w) \/ Env!ApplyStep(w) \/ Env!Gone(w),
         NEW v \in Writer, v # w
  PROVE  job'[v] = job[v]
<1>0. job \in [Writer -> Env!Jobs]
  BY DEF Env!BackedUp
<1>1. \E l : job' = [job EXCEPT ![w] = l]
  BY DEF Env!Begin, Env!Gone, Env!ApplyStep, Env!Look, Env!Open, Env!Backup, Env!WriteTemp,
         Env!Replace, Env!Verify, Env!Undo, Env!Undone, Env!Rewrite, Env!RestoreCheck, Env!Goto,
         Env!Say, Env!Step
<1>. QED BY <1>0, <1>1

(* An assistant that has answered "complete" does nothing more.            *)
LEMMA CompleteStep ==
  ASSUME Typed, Env!BackedUp, Complete, [AssistNext]_assistVars
  PROVE  Complete'
<1> DEFINE Stands(v) ==
      reply[v] = "complete" => \A i \in DOMAIN asked[v] : Result(v, asked[v][i]) = "ok"
<1>a. /\ asked \in Requests
      /\ reply \in [Writer -> {"none", "complete", "partial"}]
      /\ \A v \in Writer : Stands(v)
  BY DEF Complete
<1>b. ASSUME NEW v \in Writer, asked'[v] = asked[v], reply'[v] = reply[v],
             pc'[v] = pc[v], outcome'[v] = outcome[v], job'[v] = job[v]
      PROVE  Stands(v)'
  <2>1. \A operation : Result(v, operation)' = Result(v, operation)
    BY ONLY <1>b DEF Result
  <2>2. Stands(v)
    BY <1>a
  <2>. QED BY ONLY <1>b, <2>1, <2>2
<1>c. ASSUME NEW w \in Writer, NEW operation, Turn(w, operation), UNCHANGED <<asked, reply>>
      PROVE  Stands(w)'
  <2>1. reply[w] # "complete"
    BY <1>a, <1>c DEF Turn
  <2>. QED BY <1>a, <1>c, <2>1
<1>1. ASSUME NEW w \in Writer, ApplyConfig(w) PROVE Complete'
  <2>1. Turn(w, "config-apply") /\ (Run(w) \/ ApplyStep(w)) /\ UNCHANGED <<asked, reply, job>>
    BY <1>1 DEF ApplyConfig, onlyEnv
  <2>2. \A v \in Writer \ {w} : Stands(v)'
    BY <1>b, <2>1, OthersResults
  <2>3. Stands(w)'
    BY <1>c, <2>1
  <2>. QED BY <1>a, <2>1, <2>2, <2>3 DEF Complete
<1>2. ASSUME NEW w \in Writer, ApplyEnvBlock(w) PROVE Complete'
  <2>1. /\ Turn(w, "env-block-apply") /\ (Env!Begin(w) \/ Env!ApplyStep(w))
        /\ UNCHANGED <<asked, reply, pc, outcome>>
    BY <1>2 DEF ApplyEnvBlock, onlyConfig
  <2>2. \A v \in Writer \ {w} : Stands(v)'
    BY <1>b, <2>1, OthersJobs
  <2>3. Stands(w)'
    BY <1>c, <2>1
  <2>. QED BY <1>a, <2>1, <2>2, <2>3 DEF Complete
<1>3. ASSUME NEW w \in Writer, Answer(w) PROVE Complete'
  <2>1. /\ asked[w] # <<>> /\ reply' = [reply EXCEPT ![w] = Status(w)]
        /\ UNCHANGED <<asked, pc, outcome, job>>
    BY <1>3 DEF Answer, vars, onlyEnv
  <2>2. /\ reply' \in [Writer -> {"none", "complete", "partial"}] /\ reply'[w] = Status(w)
        /\ \A v \in Writer \ {w} : reply'[v] = reply[v]
    BY <1>a, <2>1 DEF Status
  <2>3. Stands(w)'
    BY <2>1, <2>2 DEF Status, Result
  <2>4. \A v \in Writer \ {w} : Stands(v)'
    BY <1>b, <2>1, <2>2
  <2>. QED BY <1>a, <2>1, <2>2, <2>3, <2>4 DEF Complete
<1>4. ASSUME NEW w \in Writer, Leave(w) PROVE Complete'
  <2>1. /\ Exit(w) /\ Env!Gone(w)
        /\ UNCHANGED asked /\ reply' = [reply EXCEPT ![w] = "none"]
    BY <1>4 DEF Leave
  <2>2. /\ asked' \in Requests
        /\ reply' \in [Writer -> {"none", "complete", "partial"}] /\ reply'[w] = "none"
        /\ \A v \in Writer \ {w} : asked'[v] = asked[v] /\ reply'[v] = reply[v]
    BY <1>a, <2>1
  <2>3. \A v \in Writer \ {w} : Stands(v)'
    BY <1>b, <2>1, <2>2, OthersResults, OthersJobs
  <2>. QED BY <2>2, <2>3 DEF Complete
<1>5. CASE OthersEdit \/ UNCHANGED assistVars
  <2>1. UNCHANGED <<asked, reply, pc, outcome, job>>
    BY <1>5 DEF OthersEdit, Env!OthersEdit, onlyConfig, assistVars, vars, onlyEnv
  <2>. QED BY <1>a, <1>b, <2>1 DEF Complete
<1>. QED BY ONLY [AssistNext]_assistVars, <1>1, <1>2, <1>3, <1>4, <1>5 DEF AssistNext

(***************************************************************************)
(* What an assistant answers is true: of .env, as long as nobody else      *)
(* changes it, and "complete" of everything that was asked for, whatever   *)
(* others do to config.json.                                               *)
(***************************************************************************)
THEOREM AnswersAreTrue ==
  AssistSpec => []AnswersTrue
<1>1. AssistInit => Known /\ Complete
  BY DEF AssistInit, Env!Init, Known, Env!BackedUp, Env!At, Env!Rest, Env!Jobs, Env!Text,
         Env!NoFile, Env!Informed, Env!KnowsItsText, Complete
<1>2. Known /\ [AssistNext]_assistVars => Known'
  <2>1. Known /\ UNCHANGED onlyEnv => Known'
    BY DEF onlyEnv, Known, Env!BackedUp, Env!At, Env!Informed, Env!KnowsItsText, Env!Original
  <2>. QED BY <2>1, EnvRequestStep, BackedUpStep, InformedStep DEF Known
<1>3. IInv /\ Known /\ Complete /\ [AssistNext]_assistVars => Complete'
  BY CompleteStep DEF IInv, Known
<1>4. IInv /\ Known /\ Complete => AnswersTrue
  <2> SUFFICES ASSUME IInv, Known, Complete PROVE AnswersTrue
    OBVIOUS
  <2>1. ASSUME NEW w \in Writer, ~met[w]
        PROVE  /\ job[w].said = "ok" => env = Env!Rewritten(Env!Original(w))
               /\ job[w].said \in {"refused", "failed"} => env = found[w]
    BY <2>1 DEF Known, Env!Informed, Env!KnowsItsText
  <2>2. ASSUME NEW w \in Writer, reply[w] = "complete", NEW i \in DOMAIN asked[w]
        PROVE  IF asked[w][i] = "config-apply" THEN beside[w] \/ w \in config.fields
               ELSE met[w] \/ env.block = "new"
    <3>1. Result(w, asked[w][i]) = "ok"
      BY <2>2 DEF Complete
    <3>2. CASE asked[w][i] = "config-apply"
      <4>1. outcome[w] = "ok"
        BY <3>1, <3>2 DEF Result
      <4>. QED BY <3>2, <4>1 DEF IInv, Answered, Present
    <3>3. CASE asked[w][i] # "config-apply"
      <4>1. job[w].said = "ok"
        BY <3>1, <3>3 DEF Result
      <4>. QED BY <2>1, <3>3, <4>1 DEF Env!Rewritten
    <3>. QED BY <3>2, <3>3
  <2>. QED BY <2>1, <2>2 DEF AnswersTrue, Env!AnswersTrue, Env!Original
<1>. QED BY <1>1, <1>2, <1>3, <1>4, InductiveInvariant, PTL DEF AssistSpec

=============================================================================
