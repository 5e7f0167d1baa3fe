------------------------- MODULE ProviderAttempt_proof -------------------------
(***************************************************************************)
(* Theorems about ProviderAttempt, for any processes, attempts and         *)
(* failures.                                                               *)
(***************************************************************************)
EXTENDS ProviderAttempt, TLAPS

(* The variables keep their types. *)
LEMMA TypedStep ==
  ASSUME IInv, [Next]_vars
  PROVE  Typed'
<1> USE AttemptAssumption DEF IInv, Typed, Remembered, Errors, Labels, Resources, Providers, ChildAlive, Return, call, worker, guard, At, Goto, Fine, Fault, Set
<1>1. ASSUME NEW p \in Proc, Call(p) PROVE Typed'
  <2>1. pc' \in [Proc -> Labels]
    BY ONLY <1>1, IInv DEF Call, Begin, Return, IInv, Typed, Goto, Labels
  <2>2. cur' \in [Proc -> Attempt \cup {NoAttempt}] /\ used' \subseteq Attempt
    BY ONLY <1>1, IInv DEF Call, Begin, IInv, Typed, Set
  <2>3. phase' \in [Proc -> {"previous", "current"}]
    <3>1. phase' = [phase EXCEPT ![p] = "previous"] \/ phase' = [phase EXCEPT ![p] = "current"]
      BY ONLY <1>1 DEF Call, Begin, Return, Set
    <3>. QED BY ONLY <3>1, IInv DEF IInv, Typed
  <2>6. late' \in [Proc -> BOOLEAN]
    <3>1. late' = late \/ late' = [late EXCEPT ![p] = FALSE]
      BY ONLY <1>1 DEF Call, Begin, Return, Set
    <3>2. late \in [Proc -> BOOLEAN]
      BY ONLY IInv DEF IInv, Typed
    <3>3. [late EXCEPT ![p] = FALSE] \in [Proc -> BOOLEAN]
      BY ONLY <3>2, Zenon
    <3>. QED BY ONLY <3>1, <3>2, <3>3
  <2>4. wants' \in [Proc -> SUBSET Providers]
    BY <1>1 DEF Call, Begin, Return
  <2>5. doc' \in [Proc -> Errors]
    BY <1>1 DEF Call, Begin, Return
  <2>. QED BY <1>1, <2>1, <2>2, <2>3, <2>4, <2>5, <2>6 DEF Call
<1>2. ASSUME NEW p \in Proc, Acquire(p) PROVE Typed'
  BY <1>2 DEF Acquire, MutexFree, Refuse
<1>3. ASSUME NEW p \in Proc, CheckDeadline(p) PROVE Typed'
  BY <1>3 DEF CheckDeadline
<1>4. ASSUME NEW p \in Proc, Codex(p) PROVE Typed'
  BY <1>4 DEF Codex
<1>5. ASSUME NEW p \in Proc, OpenCode(p) PROVE Typed'
  BY <1>5 DEF OpenCode
<1>6. ASSUME NEW p \in Proc, Spawn(p) PROVE Typed'
  BY <1>6 DEF Spawn
<1>7. ASSUME NEW p \in Proc, AssignProcess(p) PROVE Typed'
  <2>1. pc' \in [Proc -> Labels]
    BY <1>7 DEF AssignProcess
  <2>2. owned' \in [Attempt -> SUBSET Resources]
    BY <1>7 DEF AssignProcess
  <2>3. child' \in [Attempt -> {"none", "gated", "reading", "dying", "dead", "answered"}]
    BY <1>7 DEF AssignProcess
  <2>4. contained' \in [Attempt -> BOOLEAN]
    <3>1. \E x \in BOOLEAN : contained' = contained \/ contained' = [contained EXCEPT ![cur[p]] = x]
      <4>1. (child[cur[p]] # "dead") \in BOOLEAN
        OBVIOUS
      <4>. QED BY ONLY <1>7, <4>1 DEF AssignProcess, Set
    <3>. QED BY ONLY <3>1, IInv DEF IInv, Typed
  <2>. QED BY <1>7, <2>1, <2>2, <2>3, <2>4 DEF AssignProcess
<1>8. ASSUME NEW p \in Proc, Authorize(p) PROVE Typed'
  BY <1>8 DEF Authorize
<1>9. ASSUME NEW p \in Proc, Join(p) PROVE Typed'
  BY <1>9 DEF Join
<1>10. ASSUME NEW p \in Proc, CloseJob(p) PROVE Typed'
  BY <1>10 DEF CloseJob, JobClosed, JobNotClosed
<1>11. ASSUME NEW p \in Proc, Recover(p) PROVE Typed'
  BY <1>11 DEF Recover, JobClosed, JobNotClosed
<1>12. ASSUME NEW p \in Proc, Reap(p) PROVE Typed'
  <2>1. owned' \in [Attempt -> SUBSET Resources]
    BY <1>12 DEF Reap, Reaped
  <2>2. child' \in [Attempt -> {"none", "gated", "reading", "dying", "dead", "answered"}]
    BY <1>12 DEF Reap, Reaped
  <2>3. pc' \in [Proc -> Labels]
    BY <1>12 DEF Reap
  <2>. QED BY <1>12, <2>1, <2>2, <2>3 DEF Reap
<1>13. ASSUME NEW p \in Proc, FinishReap(p) PROVE Typed'
  <2>1. owned' \in [Attempt -> SUBSET Resources]
    BY <1>13 DEF FinishReap, Reaped
  <2>2. child' \in [Attempt -> {"none", "gated", "reading", "dying", "dead", "answered"}]
    BY <1>13 DEF FinishReap, Reaped
  <2>3. pc' \in [Proc -> Labels]
    BY <1>13 DEF FinishReap
  <2>. QED BY <1>13, <2>1, <2>2, <2>3 DEF FinishReap
<1>14. ASSUME NEW p \in Proc, FinishIpc(p) PROVE Typed'
  BY <1>14 DEF FinishIpc, CloseIpc
<1>15. ASSUME NEW p \in Proc, CleanJob(p) PROVE Typed'
  BY <1>15 DEF CleanJob, JobClosed, JobNotClosed
<1>16. ASSUME NEW p \in Proc, CleanIpc(p) PROVE Typed'
  BY <1>16 DEF CleanIpc, CloseIpc
<1>17. ASSUME NEW p \in Proc, CleanReap(p) PROVE Typed'
  <2>1. owned' \in [Attempt -> SUBSET Resources]
    BY <1>17 DEF CleanReap, Reaped
  <2>2. child' \in [Attempt -> {"none", "gated", "reading", "dying", "dead", "answered"}]
    BY <1>17 DEF CleanReap, Reaped
  <2>3. pc' \in [Proc -> Labels]
    BY <1>17 DEF CleanReap
  <2>. QED BY <1>17, <2>1, <2>2, <2>3 DEF CleanReap
<1>18. ASSUME NEW p \in Proc, CleanHelper(p) PROVE Typed'
  BY <1>18 DEF CleanHelper
<1>19. ASSUME NEW p \in Proc, EndRun(p) PROVE Typed'
  BY <1>19 DEF EndRun, TryFinalize, Finalize, Return, Outcome, Settled
<1>20. ASSUME NEW p \in Proc, NextAttempt(p) PROVE Typed'
  <2>1. lease' \in [Attempt -> {"none", "owned", "released", "closed"}]
    <3>1. \E x \in {"released", "closed"} : lease' = lease \/ lease' = [lease EXCEPT ![cur[p]] = x]
      BY ONLY <1>20 DEF NextAttempt, TryFinalize, Finalize, Set, guard
    <3>. QED BY ONLY <3>1, IInv DEF IInv, Typed
  <2>2. mutex' \in Attempt \cup {NoAttempt}
    BY <1>20 DEF NextAttempt, TryFinalize, Finalize
  <2>3. UNCHANGED <<life, worker, helper>>
    BY ONLY <1>20 DEF NextAttempt
  <2>4. CASE \E enabled \in Enabled[p] : Begin(p, enabled)
    <3>1. pc' \in [Proc -> Labels]
      BY ONLY <2>4, IInv DEF Begin, Return, IInv, Typed, Goto, Labels
    <3>2. cur' \in [Proc -> Attempt \cup {NoAttempt}] /\ used' \subseteq Attempt
      BY ONLY <2>4, IInv DEF Begin, IInv, Typed, Set
    <3>3. phase' \in [Proc -> {"previous", "current"}]
      <4>1. phase' = [phase EXCEPT ![p] = "current"]
        BY ONLY <2>4 DEF Begin, Return, Set
      <4>. QED BY ONLY <4>1, IInv DEF IInv, Typed
    <3>6. late' \in [Proc -> BOOLEAN]
      <4>1. late' = late \/ late' = [late EXCEPT ![p] = FALSE]
        BY ONLY <2>4 DEF Begin, Return, Set
      <4>2. late \in [Proc -> BOOLEAN]
        BY ONLY IInv DEF IInv, Typed
      <4>3. [late EXCEPT ![p] = FALSE] \in [Proc -> BOOLEAN]
        BY ONLY <4>2, Zenon
      <4>. QED BY ONLY <4>1, <4>2, <4>3
    <3>4. wants' \in [Proc -> SUBSET Providers]
      BY <2>4 DEF Begin, Return
    <3>5. doc' \in [Proc -> Errors]
      BY <2>4 DEF Begin, Return
    <3>. QED BY <2>1, <2>2, <2>3, <3>1, <3>2, <3>3, <3>4, <3>5, <3>6
  <2>5. CASE Return(p, "cleanup_failed") /\ UNCHANGED <<cur, used>>
    BY <2>1, <2>2, <2>3, <2>5 DEF Return
  <2>. QED BY ONLY <1>20, <2>4, <2>5 DEF NextAttempt
<1>21. ASSUME NEW p \in Proc, Exhaust(p) PROVE Typed'
  BY <1>21 DEF Exhaust, ReadsClock
<1>22. ASSUME NEW p \in Proc, Killed(p) PROVE Typed'
  BY <1>22 DEF Killed
<1>23. ASSUME NEW p \in Proc, HandlesClosed(p) PROVE Typed'
  BY <1>23 DEF HandlesClosed, Return
<1>24. ASSUME NEW b \in Attempt, WorkerPuts(b) PROVE Typed'
  BY <1>24 DEF WorkerPuts
<1>25. ASSUME NEW b \in Attempt, WorkerCrashes(b) PROVE Typed'
  BY <1>25 DEF WorkerCrashes
<1>26. ASSUME NEW b \in Attempt, Dies(b) PROVE Typed'
  BY <1>26 DEF Dies
<1>27. ASSUME UNCHANGED vars PROVE Typed'
  BY <1>27 DEF vars
<1>28. ASSUME NEW p \in Proc, Step(p) PROVE Typed'
  BY ONLY <1>28, <1>2, <1>3, <1>4, <1>5, <1>6, <1>7, <1>8, <1>9, <1>10, <1>11, <1>12, <1>13, <1>14, <1>15, <1>16, <1>17, <1>18, <1>19, <1>20 DEF Step
<1>. QED BY ONLY [Next]_vars, <1>1, <1>21, <1>22, <1>23, <1>24, <1>25, <1>26, <1>27, <1>28 DEF Next, Over

(* What is left is remembered. *)
LEMMA RememberedStep ==
  ASSUME IInv, [Next]_vars
  PROVE  Remembered'
<1> USE AttemptAssumption DEF IInv, Typed, Remembered, Blank, Quiet, Clean, Finalized, ChildAlive, Errors, Labels, Resources, Providers, Return, call, worker, guard, At, Goto, Fine, Fault, Set
<1>1. ASSUME NEW p \in Proc, Call(p) PROVE Remembered'
  BY <1>1 DEF Call, Begin, Return
<1>2. ASSUME NEW p \in Proc, Acquire(p) PROVE Remembered'
  BY <1>2 DEF Acquire, MutexFree, Refuse
<1>3. ASSUME NEW p \in Proc, CheckDeadline(p) PROVE Remembered'
  BY <1>3 DEF CheckDeadline
<1>4. ASSUME NEW p \in Proc, Codex(p) PROVE Remembered'
  BY <1>4 DEF Codex
<1>5. ASSUME NEW p \in Proc, OpenCode(p) PROVE Remembered'
  BY <1>5 DEF OpenCode
<1>6. ASSUME NEW p \in Proc, Spawn(p) PROVE Remembered'
  <2>1. cur[p] \in used /\ Owner[cur[p]] = p /\ cur[p] \in Attempt
    BY <1>6 DEF Spawn
  <2>2. UNCHANGED <<life, doc, cur, used, helper, lease>> /\ pc'[p] # "idle"
    BY <1>6 DEF Spawn
  <2>3. \A q \in Proc : q # p => pc'[q] = pc[q]
    BY <1>6 DEF Spawn
  <2>4. \A a \in Attempt : a # cur[p] => owned'[a] = owned[a] /\ child'[a] = child[a]
    BY <1>6 DEF Spawn
  <2>5. \/ child'[cur[p]] = child[cur[p]] /\ owned'[cur[p]] = owned[cur[p]]
        \/ "process" \in owned'[cur[p]]
    BY <1>6, <2>1 DEF Spawn
  <2>. QED BY <2>1, <2>2, <2>3, <2>4, <2>5
<1>7. ASSUME NEW p \in Proc, AssignProcess(p) PROVE Remembered'
  BY <1>7 DEF AssignProcess
<1>8. ASSUME NEW p \in Proc, Authorize(p) PROVE Remembered'
  BY <1>8 DEF Authorize
<1>9. ASSUME NEW p \in Proc, Join(p) PROVE Remembered'
  BY <1>9 DEF Join
<1>10. ASSUME NEW p \in Proc, CloseJob(p) PROVE Remembered'
  BY <1>10 DEF CloseJob, JobClosed, JobNotClosed
<1>11. ASSUME NEW p \in Proc, Recover(p) PROVE Remembered'
  BY <1>11 DEF Recover, JobClosed, JobNotClosed
<1>12. ASSUME NEW p \in Proc, Reap(p) PROVE Remembered'
  BY <1>12 DEF Reap, Reaped
<1>13. ASSUME NEW p \in Proc, FinishReap(p) PROVE Remembered'
  BY <1>13 DEF FinishReap, Reaped
<1>14. ASSUME NEW p \in Proc, FinishIpc(p) PROVE Remembered'
  BY <1>14 DEF FinishIpc, CloseIpc
<1>15. ASSUME NEW p \in Proc, CleanJob(p) PROVE Remembered'
  BY <1>15 DEF CleanJob, JobClosed, JobNotClosed
<1>16. ASSUME NEW p \in Proc, CleanIpc(p) PROVE Remembered'
  BY <1>16 DEF CleanIpc, CloseIpc
<1>17. ASSUME NEW p \in Proc, CleanReap(p) PROVE Remembered'
  BY <1>17 DEF CleanReap, Reaped
<1>18. ASSUME NEW p \in Proc, CleanHelper(p) PROVE Remembered'
  BY <1>18 DEF CleanHelper
<1>19. ASSUME NEW p \in Proc, EndRun(p) PROVE Remembered'
  BY <1>19 DEF EndRun, TryFinalize, Finalize, Return, Outcome, Settled
<1>20. ASSUME NEW p \in Proc, NextAttempt(p) PROVE Remembered'
  BY <1>20 DEF NextAttempt, TryFinalize, Finalize, Begin, Return, Settled
<1>21. ASSUME NEW p \in Proc, Exhaust(p) PROVE Remembered'
  BY <1>21 DEF Exhaust, ReadsClock
<1>22. ASSUME NEW p \in Proc, Killed(p) PROVE Remembered'
  BY <1>22 DEF Killed
<1>23. ASSUME NEW p \in Proc, HandlesClosed(p) PROVE Remembered'
  BY <1>23 DEF HandlesClosed, Return
<1>24. ASSUME NEW b \in Attempt, WorkerPuts(b) PROVE Remembered'
  BY <1>24 DEF WorkerPuts
<1>25. ASSUME NEW b \in Attempt, WorkerCrashes(b) PROVE Remembered'
  BY <1>25 DEF WorkerCrashes
<1>26. ASSUME NEW b \in Attempt, Dies(b) PROVE Remembered'
  BY <1>26 DEF Dies
<1>27. ASSUME UNCHANGED vars PROVE Remembered'
  BY <1>27 DEF vars
<1>28. ASSUME NEW p \in Proc, Step(p) PROVE Remembered'
  BY ONLY <1>28, <1>2, <1>3, <1>4, <1>5, <1>6, <1>7, <1>8, <1>9, <1>10, <1>11, <1>12, <1>13, <1>14, <1>15, <1>16, <1>17, <1>18, <1>19, <1>20 DEF Step
<1>. QED BY ONLY [Next]_vars, <1>1, <1>21, <1>22, <1>23, <1>24, <1>25, <1>26, <1>27, <1>28 DEF Next, Over

(* What is at work holds the guard. *)
LEMMA GuardedStep ==
  ASSUME IInv, [Next]_vars
  PROVE  Guarded'
<1> USE AttemptAssumption DEF IInv, Typed, Remembered, Guarded, AtWork, Underway, Blank, Quiet, Clean, Finalized, ChildAlive, Labels, Resources, Providers, Return, call, worker, guard, At, Goto, Fine, Fault, Set
<1>1. ASSUME NEW p \in Proc, Call(p) PROVE Guarded'
  BY <1>1 DEF Call, Begin, Return
<1>2. ASSUME NEW p \in Proc, Acquire(p) PROVE Guarded'
  BY <1>2 DEF Acquire, MutexFree, Refuse
<1>3. ASSUME NEW p \in Proc, CheckDeadline(p) PROVE Guarded'
  BY <1>3 DEF CheckDeadline
<1>4. ASSUME NEW p \in Proc, Codex(p) PROVE Guarded'
  BY <1>4 DEF Codex
<1>5. ASSUME NEW p \in Proc, OpenCode(p) PROVE Guarded'
  BY <1>5 DEF OpenCode
<1>6. ASSUME NEW p \in Proc, Spawn(p) PROVE Guarded'
  BY <1>6 DEF Spawn
<1>7. ASSUME NEW p \in Proc, AssignProcess(p) PROVE Guarded'
  BY <1>7 DEF AssignProcess
<1>8. ASSUME NEW p \in Proc, Authorize(p) PROVE Guarded'
  BY <1>8 DEF Authorize
<1>9. ASSUME NEW p \in Proc, Join(p) PROVE Guarded'
  BY <1>9 DEF Join
<1>10. ASSUME NEW p \in Proc, CloseJob(p) PROVE Guarded'
  BY <1>10 DEF CloseJob, JobClosed, JobNotClosed
<1>11. ASSUME NEW p \in Proc, Recover(p) PROVE Guarded'
  BY <1>11 DEF Recover, JobClosed, JobNotClosed
<1>12. ASSUME NEW p \in Proc, Reap(p) PROVE Guarded'
  BY <1>12 DEF Reap, Reaped
<1>13. ASSUME NEW p \in Proc, FinishReap(p) PROVE Guarded'
  BY <1>13 DEF FinishReap, Reaped
<1>14. ASSUME NEW p \in Proc, FinishIpc(p) PROVE Guarded'
  BY <1>14 DEF FinishIpc, CloseIpc
<1>15. ASSUME NEW p \in Proc, CleanJob(p) PROVE Guarded'
  BY <1>15 DEF CleanJob, JobClosed, JobNotClosed
<1>16. ASSUME NEW p \in Proc, CleanIpc(p) PROVE Guarded'
  BY <1>16 DEF CleanIpc, CloseIpc
<1>17. ASSUME NEW p \in Proc, CleanReap(p) PROVE Guarded'
  BY <1>17 DEF CleanReap, Reaped
<1>18. ASSUME NEW p \in Proc, CleanHelper(p) PROVE Guarded'
  BY <1>18 DEF CleanHelper
<1>19. ASSUME NEW p \in Proc, EndRun(p) PROVE Guarded'
  BY <1>19 DEF EndRun, TryFinalize, Finalize, Return, Outcome, Settled
<1>20. ASSUME NEW p \in Proc, NextAttempt(p) PROVE Guarded'
  BY <1>20 DEF NextAttempt, TryFinalize, Finalize, Begin, Return, Settled
<1>21. ASSUME NEW p \in Proc, Exhaust(p) PROVE Guarded'
  BY <1>21 DEF Exhaust, ReadsClock
<1>22. ASSUME NEW p \in Proc, Killed(p) PROVE Guarded'
  BY <1>22 DEF Killed
<1>23. ASSUME NEW p \in Proc, HandlesClosed(p) PROVE Guarded'
  BY <1>23 DEF HandlesClosed, Return
<1>24. ASSUME NEW b \in Attempt, WorkerPuts(b) PROVE Guarded'
  BY <1>24 DEF WorkerPuts
<1>25. ASSUME NEW b \in Attempt, WorkerCrashes(b) PROVE Guarded'
  BY <1>25 DEF WorkerCrashes
<1>26. ASSUME NEW b \in Attempt, Dies(b) PROVE Guarded'
  BY <1>26 DEF Dies
<1>27. ASSUME UNCHANGED vars PROVE Guarded'
  BY <1>27 DEF vars
<1>28. ASSUME NEW p \in Proc, Step(p) PROVE Guarded'
  BY ONLY <1>28, <1>2, <1>3, <1>4, <1>5, <1>6, <1>7, <1>8, <1>9, <1>10, <1>11, <1>12, <1>13, <1>14, <1>15, <1>16, <1>17, <1>18, <1>19, <1>20 DEF Step
<1>. QED BY ONLY [Next]_vars, <1>1, <1>21, <1>22, <1>23, <1>24, <1>25, <1>26, <1>27, <1>28 DEF Next, Over

(* The gate opens inside the job. *)
LEMMA GatedStep ==
  ASSUME IInv, [Next]_vars
  PROVE  Gated'
<1> USE AttemptAssumption DEF IInv, Typed, Remembered, Guarded, Gated, AtWork, Underway, Blank, Quiet, Clean, Finalized, ChildAlive, Labels, Resources, Providers, Return, call, worker, guard, At, Goto, Fine, Fault, Set
<1>1. ASSUME NEW p \in Proc, Call(p) PROVE Gated'
  BY <1>1 DEF Call, Begin, Return
<1>2. ASSUME NEW p \in Proc, Acquire(p) PROVE Gated'
  BY <1>2 DEF Acquire, MutexFree, Refuse
<1>3. ASSUME NEW p \in Proc, CheckDeadline(p) PROVE Gated'
  BY <1>3 DEF CheckDeadline
<1>4. ASSUME NEW p \in Proc, Codex(p) PROVE Gated'
  BY <1>4 DEF Codex
<1>5. ASSUME NEW p \in Proc, OpenCode(p) PROVE Gated'
  BY <1>5 DEF OpenCode
<1>6. ASSUME NEW p \in Proc, Spawn(p) PROVE Gated'
  BY <1>6 DEF Spawn
<1>7. ASSUME NEW p \in Proc, AssignProcess(p) PROVE Gated'
  BY <1>7 DEF AssignProcess
<1>8. ASSUME NEW p \in Proc, Authorize(p) PROVE Gated'
  BY <1>8 DEF Authorize
<1>9. ASSUME NEW p \in Proc, Join(p) PROVE Gated'
  BY <1>9 DEF Join
<1>10. ASSUME NEW p \in Proc, CloseJob(p) PROVE Gated'
  BY <1>10 DEF CloseJob, JobClosed, JobNotClosed
<1>11. ASSUME NEW p \in Proc, Recover(p) PROVE Gated'
  BY <1>11 DEF Recover, JobClosed, JobNotClosed
<1>12. ASSUME NEW p \in Proc, Reap(p) PROVE Gated'
  BY <1>12 DEF Reap, Reaped
<1>13. ASSUME NEW p \in Proc, FinishReap(p) PROVE Gated'
  BY <1>13 DEF FinishReap, Reaped
<1>14. ASSUME NEW p \in Proc, FinishIpc(p) PROVE Gated'
  BY <1>14 DEF FinishIpc, CloseIpc
<1>15. ASSUME NEW p \in Proc, CleanJob(p) PROVE Gated'
  BY <1>15 DEF CleanJob, JobClosed, JobNotClosed
<1>16. ASSUME NEW p \in Proc, CleanIpc(p) PROVE Gated'
  BY <1>16 DEF CleanIpc, CloseIpc
<1>17. ASSUME NEW p \in Proc, CleanReap(p) PROVE Gated'
  BY <1>17 DEF CleanReap, Reaped
<1>18. ASSUME NEW p \in Proc, CleanHelper(p) PROVE Gated'
  BY <1>18 DEF CleanHelper
<1>19. ASSUME NEW p \in Proc, EndRun(p) PROVE Gated'
  BY <1>19 DEF EndRun, TryFinalize, Finalize, Return, Outcome, Settled
<1>20. ASSUME NEW p \in Proc, NextAttempt(p) PROVE Gated'
  BY <1>20 DEF NextAttempt, TryFinalize, Finalize, Begin, Return, Settled
<1>21. ASSUME NEW p \in Proc, Exhaust(p) PROVE Gated'
  BY <1>21 DEF Exhaust, ReadsClock
<1>22. ASSUME NEW p \in Proc, Killed(p) PROVE Gated'
  BY <1>22 DEF Killed
<1>23. ASSUME NEW p \in Proc, HandlesClosed(p) PROVE Gated'
  BY <1>23 DEF HandlesClosed, Return
<1>24. ASSUME NEW b \in Attempt, WorkerPuts(b) PROVE Gated'
  BY <1>24 DEF WorkerPuts
<1>25. ASSUME NEW b \in Attempt, WorkerCrashes(b) PROVE Gated'
  BY <1>25 DEF WorkerCrashes
<1>26. ASSUME NEW b \in Attempt, Dies(b) PROVE Gated'
  BY <1>26 DEF Dies
<1>27. ASSUME UNCHANGED vars PROVE Gated'
  BY <1>27 DEF vars
<1>28. ASSUME NEW p \in Proc, Step(p) PROVE Gated'
  BY ONLY <1>28, <1>2, <1>3, <1>4, <1>5, <1>6, <1>7, <1>8, <1>9, <1>10, <1>11, <1>12, <1>13, <1>14, <1>15, <1>16, <1>17, <1>18, <1>19, <1>20 DEF Step
<1>. QED BY ONLY [Next]_vars, <1>1, <1>21, <1>22, <1>23, <1>24, <1>25, <1>26, <1>27, <1>28 DEF Next, Over

(* The invariant holds at the start and is kept by every step. *)
THEOREM InductiveInvariant == Spec => []IInv
<1>1. Init => IInv
  BY AttemptAssumption DEF Init, IInv, Typed, Remembered, Guarded, Gated, Blank, Quiet, Clean, Finalized,
     ChildAlive, AtWork, Underway, Labels, Errors, Resources, Providers
<1>2. IInv /\ [Next]_vars => IInv'
  BY TypedStep, RememberedStep, GuardedStep, GatedStep DEF IInv
<1>. QED BY <1>1, <1>2, PTL DEF Spec

(* Whatever fails and whoever is killed: no two attempts of running        *)
(* processes have a worker or a helper at work at the same time, and who   *)
(* believes to own the guard does.                                         *)
THEOREM OneAttemptAtWork == Spec => []OneAtWork
<1>1. IInv => OneAtWork
  BY AttemptAssumption DEF IInv, Typed, Guarded, OneAtWork, AtWork
<1>. QED BY <1>1, InductiveInvariant, PTL

(* No worker reads a provider unless it is in its job and its owner has    *)
(* not gone.                                                               *)
THEOREM NoOrphanReads == Spec => []ReadsContained
<1>1. IInv => ReadsContained
  BY DEF IInv, Gated, ReadsContained
<1>. QED BY <1>1, InductiveInvariant, PTL

(* Whatever is alive, open or locked between two runs is remembered, and   *)
(* the document says so.                                                   *)
THEOREM NothingIsForgotten == Spec => []NothingForgotten
<1>1. IInv => NothingForgotten
  BY AttemptAssumption DEF IInv, Typed, Remembered, NothingForgotten, AtWork, Quiet, Clean, Finalized
<1>. QED BY <1>1, InductiveInvariant, PTL

=============================================================================
