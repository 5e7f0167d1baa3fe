------------------------ MODULE BoundedFileCall_proof ------------------------
(***************************************************************************)
(* Theorems about BoundedFileCall, for any number of accesses and of       *)
(* failures: nothing that could not be closed is forgotten, and the        *)
(* accesses take effect in order.                                          *)
(***************************************************************************)
EXTENDS BoundedFileCall, WindowsJob, TLAPS

(* Closing a job keeps the types of what it changes. *)
LEMMA CloseJobType ==
  ASSUME TypeOK, cur \in Access, NEW before \in BOOLEAN, CloseJob(before)
  PROVE  /\ job' \in [Access -> {"none", "open", "assigned", "closed"}]
         /\ child' \in [Access -> {"none", "waiting", "working", "leaving", "exited"}]
         /\ cleanupFailed' \in BOOLEAN /\ jobTried' \in BOOLEAN
         /\ pendJob' \subseteq Access
<1>1. /\ job \in [Access -> {"none", "open", "assigned", "closed"}]
      /\ child \in [Access -> {"none", "waiting", "working", "leaving", "exited"}]
      /\ pendJob \subseteq Access
  BY DEF TypeOK
<1>2. job' \in [Access -> {"none", "open", "assigned", "closed"}]
  BY ONLY <1>1, CloseJob(before), cur \in Access DEF CloseJob
<1>3. child' \in [Access -> {"none", "waiting", "working", "leaving", "exited"}]
  BY ONLY <1>1, CloseJob(before), cur \in Access DEF CloseJob
<1>4. cleanupFailed' \in BOOLEAN /\ jobTried' \in BOOLEAN
  BY ONLY before \in BOOLEAN, CloseJob(before) DEF CloseJob
<1>5. pendJob' \subseteq Access
  BY ONLY <1>1, CloseJob(before), cur \in Access DEF CloseJob
<1>. QED BY <1>2, <1>3, <1>4, <1>5

(* The variables keep their types. *)
LEMMA TypeStep ==
  ASSUME TypeOK, Asked => cur \in Access, [Next]_vars
  PROVE  TypeOK'
<1> USE BoundsAssumption DEF Asked, TypeOK, Access, Kinds, Ends, Labels, Alive, OpenJob, control,
      verdict, held, pending, work, Goto, Raise, Refuse
<1>0. pc \notin {"idle", "crashed"} => cur \in Access
  OBVIOUS
<1>1. ASSUME NEW k \in Kinds, Call(k) PROVE TypeOK'
  <2>1. cur' \in Access /\ kind' \in Kinds /\ round' \in {1, 2}
    BY <1>1 DEF Call
  <2>2. answer' \in [Access -> {"none", "ok", "file", "deadline"}]
    BY <1>1, <2>1 DEF Call
  <2>3. pc' \in Labels
    BY <1>1 DEF Call
  <2>4. late' \in BOOLEAN /\ cleanupFailed' \in BOOLEAN /\ jobTried' \in BOOLEAN
    BY <1>1 DEF Call
  <2>. QED BY <1>1, <2>1, <2>2, <2>3, <2>4 DEF Call
<1>2. ASSUME RetryProcesses PROVE TypeOK'
  BY <1>2 DEF RetryProcesses
<1>3. ASSUME RetryJobs PROVE TypeOK'
  BY <1>3 DEF RetryJobs
<1>4. ASSUME RetryEnds PROVE TypeOK'
  BY <1>4 DEF RetryEnds
<1>5. ASSUME AcceptPath PROVE TypeOK'
  BY <1>5 DEF AcceptPath
<1>6. ASSUME Create PROVE TypeOK'
  <2>1. processes' \subseteq Access
    BY <1>6 DEF Create
  <2>2. ends' \subseteq Access \X {"output", "receiver", "sender"}
    <3>1. {cur} \X Ends(kind) \subseteq Access \X {"output", "receiver", "sender"}
      BY <1>6 DEF Create
    <3>2. ends' = ends \/ ends' = ends \cup ({cur} \X Ends(kind))
      BY ONLY <1>6 DEF Create
    <3>3. ends \subseteq Access \X {"output", "receiver", "sender"}
      OBVIOUS
    <3>. QED BY ONLY <3>1, <3>2, <3>3
  <2>3. pc' \in Labels /\ failure' \in {"none", "file", "deadline"}
    BY <1>6 DEF Create
  <2>. QED BY <1>6, <2>1, <2>2, <2>3 DEF Create
<1>7. ASSUME Start PROVE TypeOK'
  BY <1>7 DEF Start
<1>8. ASSUME CloseSender PROVE TypeOK'
  <2>1. ends' \subseteq Access \X {"output", "receiver", "sender"}
    BY <1>8 DEF CloseSender
  <2>2. pendIpc' \subseteq Access \X {"output", "receiver", "sender"}
    BY <1>8 DEF CloseSender
  <2>3. cleanupFailed' \in BOOLEAN
    BY <1>8 DEF CloseSender
  <2>. QED BY <1>8, <2>1, <2>2, <2>3 DEF CloseSender
<1>9. ASSUME CreateJob PROVE TypeOK'
  BY <1>9 DEF CreateJob
<1>10. ASSUME AssignJob PROVE TypeOK'
  BY <1>10 DEF AssignJob
<1>11. ASSUME Authorize PROVE TypeOK'
  <2>1. authorized' \subseteq Access
    <3>1. authorized' = authorized \/ authorized' = authorized \cup {cur}
      BY ONLY <1>11 DEF Authorize
    <3>2. pc = "authorize"
      BY ONLY <1>11 DEF Authorize
    <3>3. cur \in Access
      BY ONLY <1>0, <3>2
    <3>4. authorized \subseteq Access
      OBVIOUS
    <3>. QED BY ONLY <3>1, <3>3, <3>4
  <2>2. pc' \in Labels /\ failure' \in {"none", "file", "deadline"}
    BY <1>11 DEF Authorize
  <2>3. cleanupFailed' = cleanupFailed /\ answer' = answer
    BY ONLY <1>11 DEF Authorize, Raise, Goto, verdict
  <2>. QED BY <1>11, <2>1, <2>2, <2>3 DEF Authorize
<1>12. ASSUME AwaitCall PROVE TypeOK'
  BY <1>12 DEF AwaitCall
<1>13. ASSUME AwaitRead PROVE TypeOK'
  BY <1>13 DEF AwaitRead
<1>14. ASSUME GetAnswer PROVE TypeOK'
  BY <1>14 DEF GetAnswer
<1>15. ASSUME GetTimesOut PROVE TypeOK'
  <2>0. cur \in Access
    <3>1. pc \notin {"idle", "crashed"}
      BY ONLY <1>15 DEF GetTimesOut
    <3>. QED BY ONLY <1>0, <3>1
  <2>1. CASE CloseJob(FALSE)
    <3>1. /\ job' \in [Access -> {"none", "open", "assigned", "closed"}]
          /\ child' \in [Access -> {"none", "waiting", "working", "leaving", "exited"}]
          /\ cleanupFailed' \in BOOLEAN /\ jobTried' \in BOOLEAN
          /\ pendJob' \subseteq Access
      BY <2>0, <2>1, CloseJobType
    <3>. QED BY <1>15, <3>1 DEF GetTimesOut
  <2>2. CASE UNCHANGED <<cleanupFailed, job, jobTried, child, pendJob, faults>>
    BY <1>15, <2>2 DEF GetTimesOut
  <2>. QED BY <1>15, <2>1, <2>2 DEF GetTimesOut
<1>16. ASSUME JoinChild PROVE TypeOK'
  BY <1>16 DEF JoinChild
<1>17. ASSUME Success PROVE TypeOK'
  <2>0. cur \in Access
    <3>1. pc \notin {"idle", "crashed"}
      BY ONLY <1>17 DEF Success
    <3>. QED BY ONLY <1>0, <3>1
  <2>1. CASE CloseJob(FALSE)
    <3>1. /\ job' \in [Access -> {"none", "open", "assigned", "closed"}]
          /\ child' \in [Access -> {"none", "waiting", "working", "leaving", "exited"}]
          /\ cleanupFailed' \in BOOLEAN /\ jobTried' \in BOOLEAN
          /\ pendJob' \subseteq Access
      BY <2>0, <2>1, CloseJobType
    <3>. QED BY <1>17, <3>1 DEF Success
  <2>2. CASE UNCHANGED <<cleanupFailed, job, jobTried, child, pendJob, faults>>
    BY <1>17, <2>2 DEF Success
  <2>. QED BY <1>17, <2>1, <2>2 DEF Success
<1>18. ASSUME FinallyJob PROVE TypeOK'
  <2>0. cur \in Access
    <3>1. pc \notin {"idle", "crashed"}
      BY ONLY <1>18 DEF FinallyJob
    <3>. QED BY ONLY <1>0, <3>1
  <2>1. CASE CloseJob(cleanupFailed)
    <3>1. /\ job' \in [Access -> {"none", "open", "assigned", "closed"}]
          /\ child' \in [Access -> {"none", "waiting", "working", "leaving", "exited"}]
          /\ cleanupFailed' \in BOOLEAN /\ jobTried' \in BOOLEAN
          /\ pendJob' \subseteq Access
      BY <2>0, <2>1, CloseJobType
    <3>. QED BY <1>18, <3>1 DEF FinallyJob
  <2>2. CASE UNCHANGED <<cleanupFailed, job, jobTried, child, pendJob, faults>>
    BY <1>18, <2>2 DEF FinallyJob
  <2>. QED BY <1>18, <2>1, <2>2 DEF FinallyJob
<1>19. ASSUME FinallyProcess PROVE TypeOK'
  <2> DEFINE Life == {"none", "waiting", "working", "leaving", "exited"}
  <2>1. cur \in Access /\ child \in [Access -> Life]
    BY <1>19 DEF FinallyProcess
  <2>2. child' = child \/ child' = [child EXCEPT ![cur] = IF cur \in started THEN "exited" ELSE @]
    <3>1. CASE cur \notin processes
      BY ONLY <1>19, <3>1 DEF FinallyProcess
    <3>2. CASE cur \in processes
      BY ONLY <1>19, <3>2 DEF FinallyProcess
    <3>. QED BY <3>1, <3>2
  <2>3. child' \in [Access -> Life]
    BY ONLY <2>1, <2>2
  <2>4. processes' \subseteq Access /\ pendProc' \subseteq Access
    <3>1. processes \subseteq Access /\ pendProc \subseteq Access
      OBVIOUS
    <3>2. CASE cur \notin processes
      BY ONLY <1>19, <3>1, <3>2 DEF FinallyProcess
    <3>3. CASE cur \in processes
      BY ONLY <1>19, <2>1, <3>1, <3>3 DEF FinallyProcess
    <3>. QED BY <3>2, <3>3
  <2>5. cleanupFailed' \in BOOLEAN
    BY <1>19 DEF FinallyProcess
  <2>. QED BY <1>19, <2>3, <2>4, <2>5 DEF FinallyProcess
<1>20. ASSUME FinallyEnds PROVE TypeOK'
  BY <1>20 DEF FinallyEnds
<1>21. ASSUME Report PROVE TypeOK'
  BY <1>21 DEF Report
<1>22. ASSUME DeadlinePasses PROVE TypeOK'
  BY <1>22 DEF DeadlinePasses
<1>23. ASSUME NEW c \in Access, ChildWakes(c) PROVE TypeOK'
  BY <1>23 DEF ChildWakes
<1>24. ASSUME NEW c \in Access, ChildActs(c) PROVE TypeOK'
  BY <1>24 DEF ChildActs
<1>25. ASSUME NEW c \in Access, ChildAnswers(c) PROVE TypeOK'
  <2>1. child' \in [Access -> {"none", "waiting", "working", "leaving", "exited"}]
    BY <1>25 DEF ChildAnswers
  <2>2. reply' \in [Access -> {"none", "value", "error"}]
    BY <1>25 DEF ChildAnswers
  <2>. QED BY <1>25, <2>1, <2>2 DEF ChildAnswers
<1>26. ASSUME NEW c \in Access, ChildExits(c) PROVE TypeOK'
  BY <1>26 DEF ChildExits
<1>27. ASSUME Crash PROVE TypeOK'
  BY <1>27 DEF Crash
<1>28. ASSUME UNCHANGED vars PROVE TypeOK'
  BY <1>28 DEF vars
<1>. QED BY ONLY [Next]_vars, <1>1, <1>2, <1>3, <1>4, <1>5, <1>6, <1>7, <1>8, <1>9, <1>10, <1>11, <1>12, <1>13,
      <1>14, <1>15, <1>16, <1>17, <1>18, <1>19, <1>20, <1>21, <1>22, <1>23, <1>24, <1>25, <1>26, <1>27,
      <1>28 DEF Next, Parent, Child

(* One child at a time, and only for the access that has begun last. *)
LEMMA InTurnStep ==
  ASSUME TypeOK, IInv, [Next]_vars
  PROVE  InTurn'
<1> USE BoundsAssumption DEF IInv, InTurn, Asked, Trying, TypeOK, Access, Kinds, Ends, Labels,
      Alive, OpenJob, control, verdict, held, pending, work, Goto, Raise, Refuse
<1>1. ASSUME NEW k \in Kinds, Call(k) PROVE InTurn'
  BY <1>1 DEF Call
<1>2. ASSUME RetryProcesses PROVE InTurn'
  <2>1. pc = "process_owners" /\ cur \in Access /\ begun < cur
    BY <1>2 DEF RetryProcesses
  <2>2. PICK kept \in SUBSET pendProc, surviving \in SUBSET pendProc :
          /\ surviving \subseteq kept
          /\ child' = [c \in Access |-> IF c \in (pendProc \cap started) \ surviving
                                        THEN "exited" ELSE child[c]]
          /\ pc' = IF kept = {} THEN "job_owners" ELSE "idle"
    BY <1>2 DEF RetryProcesses
  <2>3. \A c \in Access : Alive(c)' => Alive(c) /\ c \in surviving
    BY <2>1, <2>2 DEF Listed
  <2>4. \A c \in Access : c \notin started => child'[c] = child[c]
    BY <2>2
  <2>5. UNCHANGED <<cur, begun, started, job, pendJob>>
    BY <1>2 DEF RetryProcesses
  <2>. QED BY <2>1, <2>2, <2>3, <2>4, <2>5
<1>3. ASSUME RetryJobs PROVE InTurn'
  BY <1>3 DEF RetryJobs
<1>4. ASSUME RetryEnds PROVE InTurn'
  BY <1>4 DEF RetryEnds
<1>5. ASSUME AcceptPath PROVE InTurn'
  BY <1>5 DEF AcceptPath
<1>6. ASSUME Create PROVE InTurn'
  BY <1>6 DEF Create
<1>7. ASSUME Start PROVE InTurn'
  BY <1>7 DEF Start
<1>8. ASSUME CloseSender PROVE InTurn'
  BY <1>8 DEF CloseSender
<1>9. ASSUME CreateJob PROVE InTurn'
  BY <1>9 DEF CreateJob
<1>10. ASSUME AssignJob PROVE InTurn'
  BY <1>10 DEF AssignJob
<1>11. ASSUME Authorize PROVE InTurn'
  BY <1>11 DEF Authorize
<1>12. ASSUME AwaitCall PROVE InTurn'
  BY <1>12 DEF AwaitCall
<1>13. ASSUME AwaitRead PROVE InTurn'
  BY <1>13 DEF AwaitRead
<1>14. ASSUME GetAnswer PROVE InTurn'
  BY <1>14 DEF GetAnswer
<1>15. ASSUME GetTimesOut PROVE InTurn'
  BY <1>15 DEF GetTimesOut, CloseJob
<1>16. ASSUME JoinChild PROVE InTurn'
  BY <1>16 DEF JoinChild
<1>17. ASSUME Success PROVE InTurn'
  BY <1>17 DEF Success, CloseJob
<1>18. ASSUME FinallyJob PROVE InTurn'
  BY <1>18 DEF FinallyJob, CloseJob
<1>19. ASSUME FinallyProcess PROVE InTurn'
  BY <1>19 DEF FinallyProcess
<1>20. ASSUME FinallyEnds PROVE InTurn'
  BY <1>20 DEF FinallyEnds
<1>21. ASSUME Report PROVE InTurn'
  BY <1>21 DEF Report
<1>22. ASSUME DeadlinePasses PROVE InTurn'
  BY <1>22 DEF DeadlinePasses
<1>23. ASSUME NEW c \in Access, ChildWakes(c) PROVE InTurn'
  BY <1>23 DEF ChildWakes
<1>24. ASSUME NEW c \in Access, ChildActs(c) PROVE InTurn'
  BY <1>24 DEF ChildActs
<1>25. ASSUME NEW c \in Access, ChildAnswers(c) PROVE InTurn'
  BY <1>25 DEF ChildAnswers
<1>26. ASSUME NEW c \in Access, ChildExits(c) PROVE InTurn'
  BY <1>26 DEF ChildExits
<1>27. ASSUME Crash PROVE InTurn'
  BY <1>27 DEF Crash
<1>28. ASSUME UNCHANGED vars PROVE InTurn'
  BY <1>28 DEF vars
<1>. QED BY ONLY [Next]_vars, <1>1, <1>2, <1>3, <1>4, <1>5, <1>6, <1>7, <1>8, <1>9, <1>10, <1>11, <1>12, <1>13,
      <1>14, <1>15, <1>16, <1>17, <1>18, <1>19, <1>20, <1>21, <1>22, <1>23, <1>24, <1>25, <1>26, <1>27,
      <1>28 DEF Next, Parent, Child

(* No access succeeds that has not taken effect. *)
LEMMA EarnedStep ==
  ASSUME TypeOK, IInv, [Next]_vars
  PROVE  Earned'
<1> USE BoundsAssumption DEF IInv, InTurn, Earned, Asked, Trying, Closing, TypeOK, Access, Kinds,
      Ends, Labels, Alive, OpenJob, control, verdict, held, pending, work, Goto, Raise, Refuse
<1>1. ASSUME NEW k \in Kinds, Call(k) PROVE Earned'
  BY <1>1 DEF Call
<1>2. ASSUME RetryProcesses PROVE Earned'
  BY <1>2 DEF RetryProcesses
<1>3. ASSUME RetryJobs PROVE Earned'
  BY <1>3 DEF RetryJobs
<1>4. ASSUME RetryEnds PROVE Earned'
  BY <1>4 DEF RetryEnds
<1>5. ASSUME AcceptPath PROVE Earned'
  BY <1>5 DEF AcceptPath
<1>6. ASSUME Create PROVE Earned'
  BY <1>6 DEF Create
<1>7. ASSUME Start PROVE Earned'
  BY <1>7 DEF Start
<1>8. ASSUME CloseSender PROVE Earned'
  BY <1>8 DEF CloseSender
<1>9. ASSUME CreateJob PROVE Earned'
  BY <1>9 DEF CreateJob
<1>10. ASSUME AssignJob PROVE Earned'
  BY <1>10 DEF AssignJob
<1>11. ASSUME Authorize PROVE Earned'
  BY <1>11 DEF Authorize
<1>12. ASSUME AwaitCall PROVE Earned'
  BY <1>12 DEF AwaitCall
<1>13. ASSUME AwaitRead PROVE Earned'
  BY <1>13 DEF AwaitRead
<1>14. ASSUME GetAnswer PROVE Earned'
  BY <1>14 DEF GetAnswer
<1>15. ASSUME GetTimesOut PROVE Earned'
  BY <1>15 DEF GetTimesOut, CloseJob
<1>16. ASSUME JoinChild PROVE Earned'
  BY <1>16 DEF JoinChild
<1>17. ASSUME Success PROVE Earned'
  BY <1>17 DEF Success, CloseJob
<1>18. ASSUME FinallyJob PROVE Earned'
  BY <1>18 DEF FinallyJob, CloseJob
<1>19. ASSUME FinallyProcess PROVE Earned'
  BY <1>19 DEF FinallyProcess
<1>20. ASSUME FinallyEnds PROVE Earned'
  BY <1>20 DEF FinallyEnds
<1>21. ASSUME Report PROVE Earned'
  BY <1>21 DEF Report
<1>22. ASSUME DeadlinePasses PROVE Earned'
  BY <1>22 DEF DeadlinePasses
<1>23. ASSUME NEW c \in Access, ChildWakes(c) PROVE Earned'
  BY <1>23 DEF ChildWakes
<1>24. ASSUME NEW c \in Access, ChildActs(c) PROVE Earned'
  BY <1>24 DEF ChildActs
<1>25. ASSUME NEW c \in Access, ChildAnswers(c) PROVE Earned'
  BY <1>25 DEF ChildAnswers
<1>26. ASSUME NEW c \in Access, ChildExits(c) PROVE Earned'
  BY <1>26 DEF ChildExits
<1>27. ASSUME Crash PROVE Earned'
  BY <1>27 DEF Crash
<1>28. ASSUME UNCHANGED vars PROVE Earned'
  BY <1>28 DEF vars
<1>. QED BY ONLY [Next]_vars, <1>1, <1>2, <1>3, <1>4, <1>5, <1>6, <1>7, <1>8, <1>9, <1>10, <1>11, <1>12, <1>13,
      <1>14, <1>15, <1>16, <1>17, <1>18, <1>19, <1>20, <1>21, <1>22, <1>23, <1>24, <1>25, <1>26, <1>27,
      <1>28 DEF Next, Parent, Child

(* What earlier accesses have left stays on the lists until it is closed. *)
LEMMA ListedStep ==
  ASSUME TypeOK, IInv, [Next]_vars
  PROVE  Listed'
<1> USE BoundsAssumption DEF IInv, InTurn, Listed, Listing, Asked, Trying, TypeOK, Access, Kinds,
      Ends, Labels, Alive, OpenJob, control, verdict, held, pending, work, Goto, Raise, Refuse
<1>1. ASSUME NEW k \in Kinds, Call(k) PROVE Listed'
  BY <1>1 DEF Call
<1>2. ASSUME RetryProcesses PROVE Listed'
  BY <1>2 DEF RetryProcesses
<1>3. ASSUME RetryJobs PROVE Listed'
  BY <1>3 DEF RetryJobs
<1>4. ASSUME RetryEnds PROVE Listed'
  BY <1>4 DEF RetryEnds
<1>5. ASSUME AcceptPath PROVE Listed'
  BY <1>5 DEF AcceptPath
<1>6. ASSUME Create PROVE Listed'
  BY <1>6 DEF Create
<1>7. ASSUME Start PROVE Listed'
  BY <1>7 DEF Start
<1>8. ASSUME CloseSender PROVE Listed'
  BY <1>8 DEF CloseSender
<1>9. ASSUME CreateJob PROVE Listed'
  BY <1>9 DEF CreateJob
<1>10. ASSUME AssignJob PROVE Listed'
  BY <1>10 DEF AssignJob
<1>11. ASSUME Authorize PROVE Listed'
  BY <1>11 DEF Authorize
<1>12. ASSUME AwaitCall PROVE Listed'
  BY <1>12 DEF AwaitCall
<1>13. ASSUME AwaitRead PROVE Listed'
  BY <1>13 DEF AwaitRead
<1>14. ASSUME GetAnswer PROVE Listed'
  BY <1>14 DEF GetAnswer
<1>15. ASSUME GetTimesOut PROVE Listed'
  BY <1>15 DEF GetTimesOut, CloseJob
<1>16. ASSUME JoinChild PROVE Listed'
  BY <1>16 DEF JoinChild
<1>17. ASSUME Success PROVE Listed'
  BY <1>17 DEF Success, CloseJob
<1>18. ASSUME FinallyJob PROVE Listed'
  BY <1>18 DEF FinallyJob, CloseJob
<1>19. ASSUME FinallyProcess PROVE Listed'
  BY <1>19 DEF FinallyProcess
<1>20. ASSUME FinallyEnds PROVE Listed'
  BY <1>20 DEF FinallyEnds
<1>21. ASSUME Report PROVE Listed'
  <2>1. Asked /\ pc = "report" /\ pc' = "idle"
    BY <1>21 DEF Report
  <2>2. UNCHANGED <<held, pending, child, cur>>
    BY <1>21 DEF Report
  <2>3. \A c \in Access : /\ c \in processes => c \in pendProc
                          /\ Alive(c) => c \in pendProc
                          /\ OpenJob(c) => c \in pendJob
    <3> SUFFICES ASSUME NEW c \in Access
                 PROVE  /\ c \in processes => c \in pendProc
                        /\ Alive(c) => c \in pendProc
                        /\ OpenJob(c) => c \in pendJob
      OBVIOUS
    <3>1. Listed /\ Listing
      OBVIOUS
    <3>2. CASE c # cur
      BY ONLY <2>1, <3>1, <3>2, c \in Access DEF Listed
    <3>3. CASE c = cur
      BY ONLY <2>1, <3>1, <3>3 DEF Listing, Closing, Trying
    <3>. QED BY ONLY <3>2, <3>3
  <2>4. \A e \in ends : e \in pendIpc
    <3>1. Listed /\ Listing
      OBVIOUS
    <3>2. /\ \A e \in ends : e[1] = cur => e \in pendIpc
          /\ \A e \in ends : e[1] # cur => e \in pendIpc
      BY ONLY <2>1, <3>1 DEF Listed, Listing
    <3>. QED BY ONLY <3>2
  <2>. QED BY ONLY <2>1, <2>2, <2>3, <2>4 DEF Listed, Alive, OpenJob, held, pending, Trying
<1>22. ASSUME DeadlinePasses PROVE Listed'
  BY <1>22 DEF DeadlinePasses
<1>23. ASSUME NEW c \in Access, ChildWakes(c) PROVE Listed'
  BY <1>23 DEF ChildWakes
<1>24. ASSUME NEW c \in Access, ChildActs(c) PROVE Listed'
  BY <1>24 DEF ChildActs
<1>25. ASSUME NEW c \in Access, ChildAnswers(c) PROVE Listed'
  BY <1>25 DEF ChildAnswers
<1>26. ASSUME NEW c \in Access, ChildExits(c) PROVE Listed'
  BY <1>26 DEF ChildExits
<1>27. ASSUME Crash PROVE Listed'
  BY <1>27 DEF Crash
<1>28. ASSUME UNCHANGED vars PROVE Listed'
  BY <1>28 DEF vars
<1>. QED BY ONLY [Next]_vars, <1>1, <1>2, <1>3, <1>4, <1>5, <1>6, <1>7, <1>8, <1>9, <1>10, <1>11, <1>12, <1>13,
      <1>14, <1>15, <1>16, <1>17, <1>18, <1>19, <1>20, <1>21, <1>22, <1>23, <1>24, <1>25, <1>26, <1>27,
      <1>28 DEF Next, Parent, Child

(* What the present access leaves gets on the lists before it ends. *)
LEMMA ListingStep ==
  ASSUME TypeOK, IInv, [Next]_vars
  PROVE  Listing'
<1> USE BoundsAssumption DEF IInv, InTurn, Listing, Asked, Trying, Closing, TypeOK, Access, Kinds,
      Ends, Labels, Alive, OpenJob, control, verdict, held, pending, work, Goto, Raise, Refuse
<1>1. ASSUME NEW k \in Kinds, Call(k) PROVE Listing'
  BY <1>1 DEF Call
<1>2. ASSUME RetryProcesses PROVE Listing'
  BY <1>2 DEF RetryProcesses
<1>3. ASSUME RetryJobs PROVE Listing'
  BY <1>3 DEF RetryJobs
<1>4. ASSUME RetryEnds PROVE Listing'
  BY <1>4 DEF RetryEnds
<1>5. ASSUME AcceptPath PROVE Listing'
  BY <1>5 DEF AcceptPath
<1>6. ASSUME Create PROVE Listing'
  BY <1>6 DEF Create
<1>7. ASSUME Start PROVE Listing'
  BY <1>7 DEF Start
<1>8. ASSUME CloseSender PROVE Listing'
  BY <1>8 DEF CloseSender
<1>9. ASSUME CreateJob PROVE Listing'
  BY <1>9 DEF CreateJob
<1>10. ASSUME AssignJob PROVE Listing'
  BY <1>10 DEF AssignJob
<1>11. ASSUME Authorize PROVE Listing'
  BY <1>11 DEF Authorize
<1>12. ASSUME AwaitCall PROVE Listing'
  BY <1>12 DEF AwaitCall
<1>13. ASSUME AwaitRead PROVE Listing'
  BY <1>13 DEF AwaitRead
<1>14. ASSUME GetAnswer PROVE Listing'
  BY <1>14 DEF GetAnswer
<1>15. ASSUME GetTimesOut PROVE Listing'
  BY <1>15 DEF GetTimesOut, CloseJob
<1>16. ASSUME JoinChild PROVE Listing'
  BY <1>16 DEF JoinChild
<1>17. ASSUME Success PROVE Listing'
  BY <1>17 DEF Success, CloseJob
<1>18. ASSUME FinallyJob PROVE Listing'
  BY <1>18 DEF FinallyJob, CloseJob
<1>19. ASSUME FinallyProcess PROVE Listing'
  BY <1>19 DEF FinallyProcess
<1>20. ASSUME FinallyEnds PROVE Listing'
  BY <1>20 DEF FinallyEnds
<1>21. ASSUME Report PROVE Listing'
  BY <1>21 DEF Report
<1>22. ASSUME DeadlinePasses PROVE Listing'
  BY <1>22 DEF DeadlinePasses
<1>23. ASSUME NEW c \in Access, ChildWakes(c) PROVE Listing'
  BY <1>23 DEF ChildWakes
<1>24. ASSUME NEW c \in Access, ChildActs(c) PROVE Listing'
  BY <1>24 DEF ChildActs
<1>25. ASSUME NEW c \in Access, ChildAnswers(c) PROVE Listing'
  BY <1>25 DEF ChildAnswers
<1>26. ASSUME NEW c \in Access, ChildExits(c) PROVE Listing'
  BY <1>26 DEF ChildExits
<1>27. ASSUME Crash PROVE Listing'
  BY <1>27 DEF Crash
<1>28. ASSUME UNCHANGED vars PROVE Listing'
  BY <1>28 DEF vars
<1>. QED BY ONLY [Next]_vars, <1>1, <1>2, <1>3, <1>4, <1>5, <1>6, <1>7, <1>8, <1>9, <1>10, <1>11, <1>12, <1>13,
      <1>14, <1>15, <1>16, <1>17, <1>18, <1>19, <1>20, <1>21, <1>22, <1>23, <1>24, <1>25, <1>26, <1>27,
      <1>28 DEF Next, Parent, Child

(* The invariant holds at the start and is kept by every step. *)
THEOREM InductiveInvariant == Spec => [](TypeOK /\ IInv)
<1>1. Init => TypeOK /\ IInv
  <2> SUFFICES ASSUME Init PROVE TypeOK /\ IInv
    OBVIOUS
  <2> USE BoundsAssumption DEF Init
  <2>1. TypeOK
    <3>1. /\ nt \in BOOLEAN /\ late \in BOOLEAN /\ cleanupFailed \in BOOLEAN /\ jobTried \in BOOLEAN
          /\ pc \in Labels /\ kind \in Kinds /\ round \in {1, 2}
      BY DEF Kinds, Labels
    <3>2. cur \in 0 .. MaxCalls /\ begun \in 0 .. MaxCalls
      OBVIOUS
    <3>3. /\ failure \in {"none", "file", "deadline"}
          /\ answer \in [Access -> {"none", "ok", "file", "deadline"}]
          /\ job \in [Access -> {"none", "open", "assigned", "closed"}]
      OBVIOUS
    <3>4. /\ child \in [Access -> {"none", "waiting", "working", "leaving", "exited"}]
          /\ reply \in [Access -> {"none", "value", "error"}]
      OBVIOUS
    <3>5. /\ {} \subseteq Access
          /\ {} \subseteq Access \X {"output", "receiver", "sender"}
      OBVIOUS
    <3>. QED BY <3>1, <3>2, <3>3, <3>4, <3>5 DEF TypeOK
  <2>2. InTurn
    BY DEF InTurn, Asked, Trying, Alive, Access
  <2>3. Earned
    BY DEF Earned, Asked, Closing, Access
  <2>4. Listed /\ Listing
    BY DEF Listed, Listing, Asked, Trying, Closing, Alive, OpenJob
  <2>. QED BY <2>1, <2>2, <2>3, <2>4 DEF IInv
<1>2. TypeOK /\ IInv /\ [Next]_vars => (TypeOK /\ IInv)'
  BY TypeStep, InTurnStep, EarnedStep, ListedStep, ListingStep DEF IInv, InTurn
<1>. QED BY <1>1, <1>2, PTL DEF Spec

(* Whatever fails while an access is cleaned up: between two accesses every *)
(* process, job and end that is still open is on the list the next access  *)
(* works through before it begins.                                         *)
THEOREM NothingIsForgotten == Spec => []NothingForgotten
<1>1. TypeOK /\ IInv => NothingForgotten
  BY DEF IInv, Listed, NothingForgotten, TypeOK, Trying
<1>. QED BY <1>1, InductiveInvariant, PTL

(* A child that may go on stays in its job.                                *)
LEMMA BoxedStep ==
  ASSUME TypeOK, IInv, Boxed, [Next]_vars
  PROVE  Boxed'
<1> USE BoundsAssumption DEF IInv, InTurn, Boxed, Asked, Trying, TypeOK, Access, Kinds, Labels,
      Alive, OpenJob, control, verdict, held, pending, work, Goto, Raise, Refuse
<1>1. ASSUME NEW k \in Kinds, Call(k) PROVE Boxed'
  BY <1>1 DEF Call
<1>2. ASSUME RetryProcesses PROVE Boxed'
  BY <1>2 DEF RetryProcesses
<1>3. ASSUME RetryJobs PROVE Boxed'
  BY <1>3 DEF RetryJobs
<1>4. ASSUME RetryEnds PROVE Boxed'
  BY <1>4 DEF RetryEnds
<1>5. ASSUME AcceptPath PROVE Boxed'
  BY <1>5 DEF AcceptPath
<1>6. ASSUME Create PROVE Boxed'
  BY <1>6 DEF Create
<1>7. ASSUME Start PROVE Boxed'
  BY <1>7 DEF Start
<1>8. ASSUME CloseSender PROVE Boxed'
  BY <1>8 DEF CloseSender
<1>9. ASSUME CreateJob PROVE Boxed'
  BY <1>9 DEF CreateJob
<1>10. ASSUME AssignJob PROVE Boxed'
  BY <1>10 DEF AssignJob
<1>11. ASSUME Authorize PROVE Boxed'
  <2>1. /\ pc = "authorize" /\ cur = begun /\ cur \in Access
        /\ UNCHANGED <<nt, cur, begun, child, job>>
    BY <1>11 DEF Authorize
  <2>2. CASE late
    <3>1. pc' = "close_job" /\ authorized' = authorized
      BY <1>11, <2>2 DEF Authorize
    <3>. QED BY <2>1, <3>1
  <2>3. CASE ~late
    <3>1. pc' = "await" /\ authorized' = authorized \cup {cur}
      BY <1>11, <2>3 DEF Authorize
    <3>. QED BY <2>1, <3>1
  <2>. QED BY <2>2, <2>3
<1>12. ASSUME AwaitCall PROVE Boxed'
  BY <1>12 DEF AwaitCall
<1>13. ASSUME AwaitRead PROVE Boxed'
  BY <1>13 DEF AwaitRead
<1>14. ASSUME GetAnswer PROVE Boxed'
  BY <1>14 DEF GetAnswer
<1>15. ASSUME GetTimesOut PROVE Boxed'
  BY <1>15 DEF GetTimesOut, CloseJob
<1>16. ASSUME JoinChild PROVE Boxed'
  BY <1>16 DEF JoinChild
<1>17. ASSUME Success PROVE Boxed'
  BY <1>17 DEF Success, CloseJob
<1>18. ASSUME FinallyJob PROVE Boxed'
  BY <1>18 DEF FinallyJob, CloseJob
<1>19. ASSUME FinallyProcess PROVE Boxed'
  BY <1>19 DEF FinallyProcess
<1>20. ASSUME FinallyEnds PROVE Boxed'
  BY <1>20 DEF FinallyEnds
<1>21. ASSUME Report PROVE Boxed'
  BY <1>21 DEF Report
<1>22. ASSUME DeadlinePasses PROVE Boxed'
  BY <1>22 DEF DeadlinePasses
<1>23. ASSUME NEW c \in Access, ChildWakes(c) PROVE Boxed'
  BY <1>23 DEF ChildWakes
<1>24. ASSUME NEW c \in Access, ChildActs(c) PROVE Boxed'
  BY <1>24 DEF ChildActs
<1>25. ASSUME NEW c \in Access, ChildAnswers(c) PROVE Boxed'
  BY <1>25 DEF ChildAnswers
<1>26. ASSUME NEW c \in Access, ChildExits(c) PROVE Boxed'
  BY <1>26 DEF ChildExits
<1>27. ASSUME Crash PROVE Boxed'
  BY <1>27 DEF Crash
<1>28. ASSUME UNCHANGED vars PROVE Boxed'
  BY <1>28 DEF vars
<1>. QED BY ONLY [Next]_vars, <1>1, <1>2, <1>3, <1>4, <1>5, <1>6, <1>7, <1>8, <1>9, <1>10, <1>11, <1>12, <1>13,
      <1>14, <1>15, <1>16, <1>17, <1>18, <1>19, <1>20, <1>21, <1>22, <1>23, <1>24, <1>25, <1>26, <1>27,
      <1>28 DEF Next, Parent, Child

(* Under Windows nothing is read or written for a process that has died.   *)
THEOREM OrphansIdle == Spec => DiesWithCaller
<1> DEFINE Quiet == nt /\ pc = "crashed" => landed' = landed
<1>1. Init => Boxed
  BY BoundsAssumption DEF Init, Boxed, OpenJob, Alive
<1>2. TypeOK /\ IInv /\ Boxed /\ [Next]_vars => Boxed'
  BY BoxedStep
<1>3. TypeOK /\ IInv /\ Boxed /\ [Next]_vars => [Quiet]_vars
  <2> SUFFICES ASSUME TypeOK, Boxed, Next, nt, pc = "crashed" PROVE landed' = landed
    OBVIOUS
  <2>1. CASE Parent
    BY <2>1 DEF Parent, RetryProcesses, RetryJobs, RetryEnds, AcceptPath, Create, Start, CloseSender,
         CreateJob, AssignJob, Authorize, AwaitCall, AwaitRead, GetAnswer, GetTimesOut, JoinChild,
         Success, FinallyJob, FinallyProcess, FinallyEnds, Report
  <2>2. ASSUME NEW c \in Access, ChildActs(c) PROVE FALSE
    BY <2>2 DEF ChildActs, Boxed, Alive, OpenJob
  <2>3. ASSUME NEW c \in Access, ChildWakes(c) \/ ChildAnswers(c) \/ ChildExits(c)
        PROVE  landed' = landed
    BY <2>3 DEF ChildWakes, ChildAnswers, ChildExits
  <2>4. ASSUME NEW k \in Kinds, Call(k) PROVE FALSE
    BY <2>4 DEF Call
  <2>. QED BY <2>1, <2>2, <2>3, <2>4 DEF Next, Child, DeadlinePasses, Crash
<1>. QED BY <1>1, <1>2, <1>3, InductiveInvariant, PTL DEF Spec, DiesWithCaller

(* A step of the access is a step of the abstract one, or changes nothing  *)
(* of it.                                                                  *)
LEMMA RefinementStep ==
  ASSUME TypeOK, IInv, [Next]_vars
  PROVE  [FileAccess!FANext]_FileAccess!faVars
<1> DEFINE Same == UNCHANGED FileAccess!faVars
<1> USE DEF control, verdict, held, pending, work, Goto, Raise, Refuse, FileAccess!faVars
<1>0. cur \in Nat /\ answer \in [Access -> {"none", "ok", "file", "deadline"}]
  BY BoundsAssumption DEF TypeOK
<1>a. ASSUME Asked, UNCHANGED <<begun, landed>>,
             answer' = [answer EXCEPT ![cur] = "file"] \/ answer' = [answer EXCEPT ![cur] = "deadline"]
      PROVE  FileAccess!FANext
  <2>1. cur \in Access /\ answer[cur] = "none"
    BY <1>a DEF IInv, InTurn, Earned
  <2>2. FileAccess!Fail(cur)
    BY ONLY <1>a, <2>1 DEF FileAccess!Fail
  <2>. QED BY <2>1, <2>2 DEF FileAccess!FANext
<1>1. ASSUME NEW k \in Kinds, Call(k) PROVE FileAccess!FANext \/ Same
  <2>1. CASE late'
    <3>1. /\ UNCHANGED <<begun, landed>>
          /\ answer' = [answer EXCEPT ![cur + 1] = "deadline"]
          /\ cur + 1 \in Access
      BY <1>1, <1>0, <2>1, BoundsAssumption DEF Call, Access
    <3>2. answer[cur + 1] = "none"
      BY <1>0, <3>1 DEF IInv, Earned
    <3>3. FileAccess!Fail(cur + 1)
      BY ONLY <3>1, <3>2 DEF FileAccess!Fail
    <3>. QED BY <3>1, <3>3 DEF FileAccess!FANext
  <2>2. CASE ~late'
    BY <1>1, <2>2 DEF Call
  <2>. QED BY <2>1, <2>2
<1>2. ASSUME RetryProcesses PROVE FileAccess!FANext \/ Same
  BY <1>2, <1>a DEF RetryProcesses, Asked
<1>3. ASSUME RetryJobs PROVE FileAccess!FANext \/ Same
  BY <1>3, <1>a DEF RetryJobs, Asked
<1>4. ASSUME RetryEnds PROVE FileAccess!FANext \/ Same
  <2>1. CASE pc' = "idle"
    <3>1. UNCHANGED <<begun, landed>> /\ answer' = [answer EXCEPT ![cur] = "file"]
      BY <1>4, <2>1 DEF RetryEnds
    <3>. QED BY <1>4, <1>a, <3>1 DEF RetryEnds, Asked
  <2>2. CASE pc' = "create"
    <3>1. begun' = cur /\ UNCHANGED <<landed, answer>>
      BY <1>4, <2>2 DEF RetryEnds
    <3>2. cur \in Access /\ answer[cur] = "none" /\ begun < cur
      BY <1>4 DEF RetryEnds, IInv, InTurn, Earned, Asked, Trying
    <3>3. FileAccess!Begin(cur)
      BY ONLY <3>1, <3>2 DEF FileAccess!Begin
    <3>. QED BY <3>2, <3>3 DEF FileAccess!FANext
  <2>3. CASE pc' = "path"
    BY <1>4, <2>3 DEF RetryEnds
  <2>. QED BY <1>4, <2>1, <2>2, <2>3 DEF RetryEnds
<1>5. ASSUME AcceptPath PROVE FileAccess!FANext \/ Same
  BY <1>5, <1>a DEF AcceptPath, Asked
<1>6. ASSUME Create PROVE Same
  BY ONLY <1>6 DEF Create, Same, control, verdict, held, pending, work, Goto, Raise, FileAccess!faVars
<1>7. ASSUME Start PROVE Same
  BY ONLY <1>7 DEF Start, Same, control, verdict, held, pending, work, Goto, Raise, FileAccess!faVars
<1>8. ASSUME CloseSender PROVE Same
  BY ONLY <1>8 DEF CloseSender, Same, control, verdict, held, pending, work, Goto, Raise, FileAccess!faVars
<1>9. ASSUME CreateJob PROVE Same
  BY ONLY <1>9 DEF CreateJob, Same, control, verdict, held, pending, work, Goto, Raise, FileAccess!faVars
<1>10. ASSUME AssignJob PROVE Same
  BY ONLY <1>10 DEF AssignJob, Same, control, verdict, held, pending, work, Goto, Raise, FileAccess!faVars
<1>11. ASSUME Authorize PROVE Same
  BY ONLY <1>11 DEF Authorize, Same, control, verdict, held, pending, work, Goto, Raise, FileAccess!faVars
<1>12. ASSUME AwaitCall PROVE Same
  BY ONLY <1>12 DEF AwaitCall, Same, control, verdict, held, pending, work, Goto, Raise, FileAccess!faVars
<1>13. ASSUME AwaitRead PROVE Same
  BY ONLY <1>13 DEF AwaitRead, Same, control, verdict, held, pending, work, Goto, Raise, FileAccess!faVars
<1>14. ASSUME GetAnswer PROVE Same
  BY ONLY <1>14 DEF GetAnswer, Same, control, verdict, held, pending, work, Goto, Raise, FileAccess!faVars
<1>15. ASSUME GetTimesOut PROVE Same
  BY ONLY <1>15 DEF GetTimesOut, CloseJob, Same, control, verdict, held, pending, work, Goto,
        Raise, FileAccess!faVars
<1>16. ASSUME JoinChild PROVE Same
  BY ONLY <1>16 DEF JoinChild, Same, control, verdict, held, pending, work, Goto, Raise, FileAccess!faVars
<1>17. ASSUME Success PROVE Same
  BY ONLY <1>17 DEF Success, CloseJob, Same, control, verdict, held, pending, work, Goto, Raise,
        FileAccess!faVars
<1>18. ASSUME FinallyJob PROVE Same
  BY ONLY <1>18 DEF FinallyJob, CloseJob, Same, control, verdict, held, pending, work, Goto,
        Raise, FileAccess!faVars
<1>19. ASSUME FinallyProcess PROVE Same
  BY ONLY <1>19 DEF FinallyProcess, Same, control, verdict, held, pending, work, Goto, Raise,
        FileAccess!faVars
<1>20. ASSUME FinallyEnds PROVE Same
  BY ONLY <1>20 DEF FinallyEnds, Same, control, verdict, held, pending, work, Goto, Raise, FileAccess!faVars
<1>21. ASSUME Report PROVE FileAccess!FANext
  <2>1. /\ pc = "report" /\ UNCHANGED <<begun, landed>>
        /\ \/ cleanupFailed /\ answer' = [answer EXCEPT ![cur] = "file"]
           \/ failure # "none" /\ answer' = [answer EXCEPT ![cur] = failure]
           \/ failure = "none" /\ answer' = [answer EXCEPT ![cur] = "ok"]
    BY <1>21 DEF Report
  <2>2. CASE failure = "none" /\ answer' = [answer EXCEPT ![cur] = "ok"]
    <3>1. cur \in Access /\ cur \in landed /\ answer[cur] = "none"
      BY <2>1, <2>2 DEF IInv, InTurn, Earned, Asked, Closing
    <3>2. FileAccess!Succeed(cur)
      BY ONLY <2>1, <2>2, <3>1 DEF FileAccess!Succeed
    <3>. QED BY <3>1, <3>2 DEF FileAccess!FANext
  <2>3. CASE answer' = [answer EXCEPT ![cur] = "file"] \/ answer' = [answer EXCEPT ![cur] = "deadline"]
    BY <1>a, <2>1, <2>3 DEF Asked
  <2>4. failure \in {"none", "file", "deadline"}
    BY DEF TypeOK
  <2>. QED BY ONLY <2>1, <2>2, <2>3, <2>4
<1>22. ASSUME DeadlinePasses PROVE Same
  BY ONLY <1>22 DEF DeadlinePasses, Same, control, verdict, held, pending, work, Goto, Raise,
        FileAccess!faVars
<1>23. ASSUME NEW c \in Access, ChildWakes(c) PROVE Same
  BY ONLY <1>23 DEF ChildWakes, Same, control, verdict, held, pending, work, FileAccess!faVars
<1>24. ASSUME NEW c \in Access, ChildActs(c) PROVE FileAccess!FANext
  <2>1. c = begun
    BY <1>24 DEF ChildActs, IInv, InTurn, Alive
  <2>2. FileAccess!Land(c)
    BY ONLY <1>24, <2>1 DEF ChildActs, FileAccess!Land, verdict
  <2>. QED BY <2>2 DEF FileAccess!FANext
<1>25. ASSUME NEW c \in Access, ChildAnswers(c) PROVE Same
  BY ONLY <1>25 DEF ChildAnswers, Same, control, verdict, held, pending, work, FileAccess!faVars
<1>26. ASSUME NEW c \in Access, ChildExits(c) PROVE Same
  BY ONLY <1>26 DEF ChildExits, Same, control, verdict, held, pending, work, FileAccess!faVars
<1>27. ASSUME Crash PROVE Same
  BY ONLY <1>27 DEF Crash, Same, verdict, FileAccess!faVars
<1>28. ASSUME UNCHANGED vars PROVE Same
  BY ONLY <1>28 DEF vars, Same, FileAccess!faVars
<1>. QED BY ONLY [Next]_vars, <1>1, <1>2, <1>3, <1>4, <1>5, <1>6, <1>7, <1>8, <1>9, <1>10, <1>11, <1>12, <1>13,
      <1>14, <1>15, <1>16, <1>17, <1>18, <1>19, <1>20, <1>21, <1>22, <1>23, <1>24, <1>25, <1>26, <1>27,
      <1>28 DEF Next, Parent, Child

(* Effects come in the order of the requests, and what is answered with    *)
(* "ok" has taken effect: the children and their cleanup do what           *)
(* FileAccess promises.                                                    *)
THEOREM AccessesInOrder == Spec => ImplementsFileAccess
<1>1. Init => FileAccess!FAInit
  BY DEF Init, FileAccess!FAInit
<1>2. TypeOK /\ IInv /\ [Next]_vars => [FileAccess!FANext]_FileAccess!faVars
  BY RefinementStep
<1>. QED BY <1>1, <1>2, InductiveInvariant, PTL DEF Spec, ImplementsFileAccess, FileAccess!FASpec

-----------------------------------------------------------------------------
(* Theorems about WindowsJob, whose boundary each child of an access is    *)
(* put into, for any descendants and any number of failing calls.          *)

(* Nobody gets out of the job. *)
LEMMA JobEnclosedStep ==
  ASSUME JobInv, [JobNext]_jobVars
  PROVE  Enclosed'
<1> USE JobAssumption DEF JobInv, Enclosed, boundary, system, Fine, Fails, Idle, Active, Procs, Set
<1>1. ASSUME Construct PROVE Enclosed'
  BY <1>1 DEF Construct
<1>2. ASSUME NEW m \in {"assign", "borrow"}, Assign(m) PROVE Enclosed'
  BY <1>2 DEF Assign
<1>3. ASSUME VerifyAssignment PROVE Enclosed'
  BY <1>3 DEF VerifyAssignment
<1>4. ASSUME AuthorizeChild PROVE Enclosed'
  BY <1>4 DEF AuthorizeChild
<1>5. ASSUME Go PROVE Enclosed'
  BY <1>5 DEF Go
<1>6. ASSUME NEW m \in {"close", "deadline"}, Close(m) PROVE Enclosed'
  BY <1>6 DEF Close
<1>7. ASSUME Terminate PROVE Enclosed'
  BY <1>7 DEF Terminate
<1>8. ASSUME WaitProcess PROVE Enclosed'
  <2>1. UNCHANGED <<boundary, system>>
    BY ONLY <1>8 DEF WaitProcess
  <2>2. at' # "verify"
    BY ONLY <1>8 DEF WaitProcess, AfterWait
  <2>. QED BY <2>1, <2>2
<1>9. ASSUME NothingLeft PROVE Enclosed'
  BY <1>9 DEF NothingLeft
<1>10. ASSUME QueryActive PROVE Enclosed'
  BY <1>10 DEF QueryActive
<1>11. ASSUME CloseHandles PROVE Enclosed'
  <2>1. UNCHANGED <<assigned, alive, inJob, going>>
    BY ONLY <1>11 DEF CloseHandles
  <2>2. state' \in {"closed", "broken"} /\ at' \in {"idle", "lost"}
    BY ONLY <1>11 DEF CloseHandles, StateAfter, Idle
  <2>. QED BY <2>1, <2>2
<1>12. ASSUME TimeUp PROVE Enclosed'
  BY <1>12 DEF TimeUp
<1>13. ASSUME NEW p \in Procs, Exit(p) PROVE Enclosed'
  BY <1>13 DEF Exit
<1>14. ASSUME NEW k \in Kids, Spawn(k) PROVE Enclosed'
  BY <1>14 DEF Spawn
<1>15. ASSUME OwnerKilled PROVE Enclosed'
  BY <1>15 DEF OwnerKilled
<1>16. ASSUME UNCHANGED jobVars PROVE Enclosed'
  BY <1>16 DEF jobVars
<1>. QED BY ONLY [JobNext]_jobVars, <1>1, <1>2, <1>3, <1>4, <1>5, <1>6, <1>7, <1>8, <1>9, <1>10, <1>11, <1>12, <1>13, <1>14, <1>15, <1>16 DEF JobNext, Cleanup

(* A job that was counted as empty stays empty. *)
LEMMA JobCountedStep ==
  ASSUME JobInv, [JobNext]_jobVars
  PROVE  CountedEmpty'
<1> USE JobAssumption DEF JobInv, Enclosed, CountedEmpty, Locals, NoLocals, boundary, system, Fine, Fails, Idle, Active, Procs, Set
<1>1. ASSUME Construct PROVE CountedEmpty'
  <2>1. loc' = NoLocals
    BY <1>1 DEF Construct
  <2>. QED BY <2>1
<1>2. ASSUME NEW m \in {"assign", "borrow"}, Assign(m) PROVE CountedEmpty'
  BY <1>2 DEF Assign
<1>3. ASSUME VerifyAssignment PROVE CountedEmpty'
  BY <1>3 DEF VerifyAssignment
<1>4. ASSUME AuthorizeChild PROVE CountedEmpty'
  BY <1>4 DEF AuthorizeChild
<1>5. ASSUME Go PROVE CountedEmpty'
  BY <1>5 DEF Go
<1>6. ASSUME NEW m \in {"close", "deadline"}, Close(m) PROVE CountedEmpty'
  BY <1>6 DEF Close
<1>7. ASSUME Terminate PROVE CountedEmpty'
  <2>1. at' = "wait" /\ UNCHANGED <<handle, assigned, alive, inJob>>
    BY ONLY <1>7 DEF Terminate, boundary
  <2>2. PICK pt \in BOOLEAN, jt \in BOOLEAN :
          loc' = [ok |-> pt /\ jt, waited |-> NothingToWaitFor, pterm |-> pt, jterm |-> jt,
                  zero |-> ~handle \/ ~assigned, wfail |-> FALSE, timed |-> FALSE]
    BY ONLY <1>7 DEF Terminate
  <2>3. NothingToWaitFor \in BOOLEAN /\ (pt /\ jt) \in BOOLEAN /\ (~handle \/ ~assigned) \in BOOLEAN
    BY DEF NothingToWaitFor
  <2>4. loc' \in Locals
    BY ONLY <2>2, <2>3 DEF Locals
  <2>5. handle /\ loc'.zero => Active = {}
    BY <2>2
  <2>. QED BY ONLY <2>1, <2>4, <2>5 DEF CountedEmpty, Active
<1>8. ASSUME WaitProcess PROVE CountedEmpty'
  <2>1. UNCHANGED <<handle, alive, inJob>>
    BY ONLY <1>8 DEF WaitProcess, boundary, system
  <2>2. loc' \in Locals /\ loc'.zero = loc.zero
    BY ONLY <1>8, loc \in Locals DEF WaitProcess, Locals, Set
  <2>3. at' \notin {"idle", "verify", "terminate"}
    BY ONLY <1>8 DEF WaitProcess, AfterWait
  <2>4. handle /\ loc.zero => Active = {}
    OBVIOUS
  <2>. QED BY ONLY <2>1, <2>2, <2>3, <2>4 DEF CountedEmpty, Active
<1>9. ASSUME NothingLeft PROVE CountedEmpty'
  BY <1>9 DEF NothingLeft
<1>10. ASSUME QueryActive PROVE CountedEmpty'
  BY <1>10 DEF QueryActive
<1>11. ASSUME CloseHandles PROVE CountedEmpty'
  <2>1. UNCHANGED <<alive, inJob>> /\ (handle' => handle)
    BY ONLY <1>11 DEF CloseHandles
  <2>2. loc' = NoLocals \/ (at' = "lost" /\ loc' = loc)
    BY ONLY <1>11 DEF CloseHandles, Idle
  <2>3. loc \in Locals /\ (handle /\ loc.zero => Active = {})
    OBVIOUS
  <2>4. CASE loc' = NoLocals
    BY ONLY <2>4 DEF CountedEmpty, Locals, NoLocals
  <2>5. CASE at' = "lost" /\ loc' = loc
    BY ONLY <2>1, <2>3, <2>5 DEF CountedEmpty, Active
  <2>. QED BY ONLY <2>2, <2>4, <2>5
<1>12. ASSUME TimeUp PROVE CountedEmpty'
  BY <1>12 DEF TimeUp
<1>13. ASSUME NEW p \in Procs, Exit(p) PROVE CountedEmpty'
  BY <1>13 DEF Exit
<1>14. ASSUME NEW k \in Kids, Spawn(k) PROVE CountedEmpty'
  BY <1>14 DEF Spawn
<1>15. ASSUME OwnerKilled PROVE CountedEmpty'
  BY <1>15 DEF OwnerKilled
<1>16. ASSUME UNCHANGED jobVars PROVE CountedEmpty'
  BY <1>16 DEF jobVars
<1>. QED BY ONLY [JobNext]_jobVars, <1>1, <1>2, <1>3, <1>4, <1>5, <1>6, <1>7, <1>8, <1>9, <1>10, <1>11, <1>12, <1>13, <1>14, <1>15, <1>16 DEF JobNext, Cleanup

(* The invariant holds at the start and is kept by every step. *)
THEOREM JobInvariant == JobSpec => []JobInv
<1>1. JobInit => JobInv
  BY JobAssumption DEF JobInit, JobInv, Enclosed, CountedEmpty, Locals, NoLocals, Active
<1>2. JobInv /\ [JobNext]_jobVars => JobInv'
  BY JobEnclosedStep, JobCountedStep DEF JobInv
<1>. QED BY <1>1, <1>2, PTL DEF JobSpec

(* Whatever fails in creating, assigning and closing: a child that was     *)
(* told to go on, and all that it has started, are in the job.             *)
THEOREM TreeContained == JobSpec => []Contained
<1>1. JobInv => Contained
  BY DEF JobInv, Enclosed, Contained
<1>. QED BY <1>1, JobInvariant, PTL

(* The owner gives up the handle of the job, its only means to terminate   *)
(* the tree, after the last process of the tree has gone.                  *)
THEOREM HandleKept == JobSpec => HandleOutlivesTree
<1>1. JobInv /\ [JobNext]_jobVars => [handle /\ ~handle' /\ at' # "dead" => Active = {}]_jobVars
  <2> SUFFICES ASSUME JobInv, [JobNext]_jobVars, handle, ~handle', at' # "dead"
               PROVE  Active = {}
    OBVIOUS
  <2>1. CASE CloseHandles
    <3>1. loc.zero
      BY <2>1 DEF CloseHandles, JobReady
    <3>. QED BY <3>1 DEF JobInv, CountedEmpty
  <2>2. CASE ~CloseHandles
    <3>1. handle' = handle \/ handle' = TRUE \/ at' = "dead"
      BY <2>2 DEF JobNext, Cleanup, Construct, Assign, VerifyAssignment, AuthorizeChild, Go, Close, Terminate,
                  WaitProcess, NothingLeft, QueryActive, TimeUp, Exit, Spawn, OwnerKilled,
                  jobVars, boundary, system
    <3>. QED BY <3>1
  <2>. QED BY <2>1, <2>2
<1>. QED BY <1>1, JobInvariant, PTL DEF JobSpec, HandleOutlivesTree

=============================================================================
