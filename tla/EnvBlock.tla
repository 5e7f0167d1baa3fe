------------------------------ MODULE EnvBlock ------------------------------
(***************************************************************************)
(* The managed block in YASB's .env file: apply of                         *)
(* src/yasb_limitora/_env_block.py.  No lock orders the writers.  The file *)
(* is read, backed up, replaced as a whole and read again; when one of     *)
(* that fails it is restored in place from the backup, or deleted when     *)
(* there was none - whatever has become of it in between.                  *)
(*                                                                         *)
(* A text is the lines of others in it and the state of the block: none,   *)
(* that of another installation, the writer's own, or markers that do not  *)
(* match.  Reparse points and encodings are refusals like any other.       *)
(***************************************************************************)
EXTENDS Naturals

CONSTANTS
  Writer,       \* processes of the setup assistant
  Line,         \* lines of others
  MaxApplies,   \* bound: applications of the block
  MaxFaults     \* bound: failed operations, and edits by others

VARIABLES
  home,       \* the configuration directory of YASB exists
  env,        \* .env, or NoFile
  saved,      \* the texts in complete backups; none is ever pruned
  temps,      \* the writers that have a temporary file in the directory
  litter,     \* temporary files of writers that were killed
  job,        \* where in apply each writer is, and its locals
  found,      \* history: .env when the application began
  met,        \* history: somebody else has changed .env since
  applies,    \* bound: applications so far
  faults      \* failures so far

disk == <<home, env, saved, temps, litter>>
envVars == <<disk, job, found, met, applies, faults>>

NoFile == [theirs |-> {}, block |-> "absent"]
Empty == [theirs |-> {}, block |-> "none"]
Text == [theirs : SUBSET Line, block : {"none", "old", "new", "broken"}]

Rest == [at |-> "idle", created |-> FALSE, existed |-> FALSE, raw |-> NoFile, said |-> "none"]

Init ==
  /\ env \in {NoFile} \cup [theirs : {Line}, block : {"none", "old", "broken"}]
  /\ home \in BOOLEAN /\ (env # NoFile => home)
  /\ saved = {} /\ temps = {} /\ litter = FALSE
  /\ job = [w \in Writer |-> Rest]
  /\ found = [w \in Writer |-> NoFile]
  /\ met = [w \in Writer |-> FALSE]
  /\ applies = 0 /\ faults = 0

-----------------------------------------------------------------------------
At(w, label) == job[w].at = label
NoFault == UNCHANGED faults
Fault == faults < MaxFaults /\ faults' = faults + 1

(* _rewrite.  The block is replaced where it stands, or put at the end.    *)
\* Mutant: what follows the old block is lost.
Rewritten_cut(raw) ==
  [theirs |-> IF raw.block = "old" THEN {} ELSE raw.theirs, block |-> "new"]

Rewritten(raw) == [theirs |-> raw.theirs, block |-> "new"]

(* A file that is open for the restore can neither be replaced nor         *)
(* deleted: it was opened without FILE_SHARE_DELETE.                       *)
HeldOpen == \E w \in Writer : At(w, "rewrite")

(* Those whose application is under way or has been answered.              *)
Engaged == {w \in Writer : ~At(w, "idle") \/ job[w].said # "none"}

(* A step of w goes on with these locals; the others find .env changed.    *)
Step(w, locals) ==
  /\ job' = [job EXCEPT ![w] = locals]
  /\ met' = [v \in Writer |-> met[v] \/ (v \in Engaged \ {w} /\ env' # env)]
  /\ UNCHANGED <<found, applies>>

Goto(w, label) == Step(w, [job[w] EXCEPT !.at = label])

(* The result; the finally clause takes the temporary file away.           *)
Say(w, said) ==
  /\ temps' = temps \ {w}
  /\ Step(w, [Rest EXCEPT !.said = said])

-----------------------------------------------------------------------------
Begin(w) ==
  /\ At(w, "idle") /\ job[w].said = "none"
  /\ applies < MaxApplies /\ applies' = applies + 1
  /\ job' = [job EXCEPT ![w].at = "look"]
  /\ found' = [found EXCEPT ![w] = env]
  /\ met' = [met EXCEPT ![w] = FALSE]
  /\ UNCHANGED <<disk, faults>>

(* No consent, no directory, no invocation, or something unsafe; or the    *)
(* two looks that the rest is based on.                                    *)
Look(w) ==
  /\ At(w, "look") /\ NoFault
  /\ UNCHANGED <<home, env, saved, litter>>
  /\ \/ Say(w, "refused")
     \/ /\ Step(w, [job[w] EXCEPT !.at = "open", !.created = ~home, !.existed = env # NoFile])
        /\ UNCHANGED temps

(* The directory is made and the file read.  A directory that has appeared *)
(* and a file that has gone are refusals, like markers that do not match.  *)
Open(w) ==
  LET gone == job[w].existed /\ env = NoFile
      raw == IF job[w].existed THEN env ELSE Empty
  IN
  /\ At(w, "open")
  /\ UNCHANGED <<env, saved, litter>>
  /\ \/ NoFault /\ job[w].created /\ home /\ Say(w, "refused") /\ UNCHANGED home
     \/ Fault /\ Say(w, "refused") /\ UNCHANGED home
     \/ /\ NoFault /\ ~(job[w].created /\ home)
        /\ home' = (home \/ job[w].created)
        /\ IF gone \/ raw.block = "broken" THEN Say(w, "refused")
           ELSE /\ Step(w, [job[w] EXCEPT !.raw = raw,
                                          !.at = IF job[w].existed THEN "backup" ELSE "temp"])
                /\ UNCHANGED temps

(* _checked_backup, under a new name; a failure takes an incomplete one    *)
(* away.                                                                   *)
Backup(w) ==
  /\ At(w, "backup")
  /\ UNCHANGED <<home, env, litter>>
  /\ \/ NoFault /\ saved' = saved \cup {job[w].raw} /\ Goto(w, "temp") /\ UNCHANGED temps
     \/ Fault /\ Say(w, "failed") /\ UNCHANGED saved

(* The directory is held open and the new text written to a temporary file *)
(* in it.  Without the directory nothing is undone.                        *)
WriteTemp(w) ==
  /\ At(w, "temp")
  /\ UNCHANGED <<home, env, saved, litter>>
  /\ \/ NoFault /\ Goto(w, "replace") /\ temps' = temps \cup {w}
     \/ Fault /\ Say(w, "failed")
     \/ Fault /\ Goto(w, "undo") /\ temps' \in {temps, temps \cup {w}}

Replace(w) ==
  /\ At(w, "replace")
  /\ \/ /\ NoFault /\ ~HeldOpen
        /\ env' = Rewritten(job[w].raw) /\ temps' = temps \ {w}
        /\ Goto(w, "verify")
     \/ NoFault /\ HeldOpen /\ UNCHANGED <<env, temps>> /\ Goto(w, "undo")
     \/ Fault /\ UNCHANGED <<env, temps>> /\ Goto(w, "undo")
  /\ UNCHANGED <<home, saved, litter>>

\* Mutant: a failure to read the file again is only reported.
Verify_onlyReports(w) ==
  /\ At(w, "verify")
  /\ UNCHANGED <<home, env, saved, litter>>
  /\ \/ NoFault /\ env = Rewritten(job[w].raw) /\ Say(w, "ok")
     \/ NoFault /\ env # Rewritten(job[w].raw) /\ Goto(w, "undo") /\ UNCHANGED temps
     \/ Fault /\ Say(w, "failed")

Verify(w) ==
  /\ At(w, "verify")
  /\ UNCHANGED <<home, env, saved, litter>>
  /\ \/ NoFault /\ env = Rewritten(job[w].raw) /\ Say(w, "ok")
     \/ NoFault /\ env # Rewritten(job[w].raw) /\ Goto(w, "undo") /\ UNCHANGED temps
     \/ Fault /\ Goto(w, "undo") /\ UNCHANGED temps

(* The end of the undoing.  A directory that was created and is empty is   *)
(* to be removed, which fails while it is held open; with the temporary    *)
(* file still in it nobody tries.                                          *)
Undone(w) ==
  Say(w, IF job[w].created /\ env' = NoFile /\ temps = {} /\ ~litter
         THEN "rollback_failed" ELSE "failed")

(* _restore opens the file, which must be there, and truncates it; without *)
(* a backup whatever is there is deleted.                                  *)
Undo(w) ==
  /\ At(w, "undo")
  /\ \/ NoFault /\ job[w].existed /\ env # NoFile
                /\ env' = Empty /\ Goto(w, "rewrite") /\ UNCHANGED temps
     \/ NoFault /\ job[w].existed /\ env = NoFile /\ UNCHANGED env /\ Say(w, "rollback_failed")
     \/ NoFault /\ ~job[w].existed /\ ~HeldOpen /\ env' = NoFile /\ Undone(w)
     \/ NoFault /\ ~job[w].existed /\ HeldOpen /\ UNCHANGED env /\ Say(w, "rollback_failed")
     \/ Fault /\ UNCHANGED env /\ Say(w, "rollback_failed")
  /\ UNCHANGED <<home, saved, litter>>

Rewrite(w) ==
  /\ At(w, "rewrite")
  /\ \/ NoFault /\ env' = job[w].raw /\ Goto(w, "check") /\ UNCHANGED temps
     \/ Fault /\ UNCHANGED env /\ Say(w, "rollback_failed")
  /\ UNCHANGED <<home, saved, litter>>

RestoreCheck(w) ==
  /\ At(w, "check")
  /\ UNCHANGED <<home, env, saved, litter>>
  /\ \/ NoFault /\ Say(w, IF env = job[w].raw THEN "failed" ELSE "rollback_failed")
     \/ Fault /\ Say(w, "rollback_failed")

(* The process is over: after its work, or in the middle of it.            *)
Gone(w) ==
  /\ job' = [job EXCEPT ![w] = Rest]
  /\ temps' = temps \ {w} /\ litter' = (litter \/ w \in temps)
  /\ found' = [found EXCEPT ![w] = NoFile]
  /\ met' = [met EXCEPT ![w] = FALSE]
  /\ UNCHANGED <<home, env, saved, applies>>

(* Somebody adds or takes out lines, spoils the markers, or deletes the    *)
(* file.                                                                   *)
Edited ==
  {NoFile} \cup [theirs : SUBSET Line,
                 block : {IF env = NoFile THEN "none" ELSE env.block, "broken"}]

OthersEdit ==
  /\ home /\ Fault
  /\ env' \in Edited \ {env}
  /\ met' = [w \in Writer |-> met[w] \/ w \in Engaged]
  /\ UNCHANGED <<home, saved, temps, litter, job, found, applies>>

ApplyStep(w) ==
  \/ Look(w) \/ Open(w) \/ Backup(w) \/ WriteTemp(w) \/ Replace(w) \/ Verify(w)
  \/ Undo(w) \/ Rewrite(w) \/ RestoreCheck(w)

-----------------------------------------------------------------------------
(* What is answered is true of the file, if nobody else has changed it:    *)
(* "ok" means the text that was found, with the block; a refusal and a     *)
(* failure mean the text that was found.  Only "env-rollback-failed" says  *)
(* nothing (and a directory that was made may stay behind).                *)
AnswersTrue ==
  \A w \in Writer : ~met[w] =>
    /\ job[w].said = "ok" =>
         env = Rewritten(IF found[w] = NoFile THEN Empty ELSE found[w])
    /\ job[w].said \in {"refused", "failed"} => env = found[w]

(* A step of a writer takes no line out of .env that it had read, except   *)
(* to write it back from its backup, which is complete by then.            *)
LinesKept ==
  [][\A w \in Writer :
       job'[w] # job[w] /\ env' # env =>
         \/ env.theirs \cap job[w].raw.theirs \subseteq env'.theirs
         \/ At(w, "undo") /\ job[w].raw \in saved
    ]_envVars

-----------------------------------------------------------------------------
(* The inductive invariant behind LinesKept: what is undone has a backup,  *)
(* unless there was nothing.                                               *)
Jobs ==
  [at : {"idle", "look", "open", "backup", "temp", "replace", "verify", "undo", "rewrite", "check"},
   created : BOOLEAN, existed : BOOLEAN, raw : Text \cup {NoFile},
   said : {"none", "ok", "refused", "failed", "rollback_failed"}]

BackedUp ==
  /\ env \in Text \cup {NoFile} /\ job \in [Writer -> Jobs]
  /\ \A w \in Writer :
       /\ At(w, "backup") => job[w].existed
       /\ job[w].at \in {"temp", "replace", "verify", "undo", "rewrite", "check"} =>
            IF job[w].existed THEN job[w].raw \in saved ELSE job[w].raw.theirs = {}

(* Behind AnswersTrue: while nobody else has changed .env, a writer knows  *)
(* what it has found, and has replaced it only by its own text.            *)
Original(w) == IF found[w] = NoFile THEN Empty ELSE found[w]

KnowsItsText(w) ==
  /\ job[w].at # "idle" => job[w].said = "none"
  /\ ~met[w] =>
       /\ job[w].at \in {"look", "open", "backup", "temp", "replace"} => env = found[w]
       /\ job[w].at \notin {"idle", "look"} => job[w].existed = (found[w] # NoFile)
       /\ job[w].at \notin {"idle", "look", "open"} => job[w].raw = Original(w)
       /\ job[w].at \in {"rewrite", "check"} => job[w].existed
       /\ job[w].said = "ok" => env = Rewritten(Original(w))
       /\ job[w].said \in {"refused", "failed"} => env = found[w]

Informed ==
  /\ found \in [Writer -> Text \cup {NoFile}] /\ met \in [Writer -> BOOLEAN]
  /\ \A w \in Writer : KnowsItsText(w)

=============================================================================
