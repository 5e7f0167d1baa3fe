-------------------------- MODULE ConfigLock_proof --------------------------
EXTENDS ConfigLock, TLAPS

(* The invariant holds initially. *)
LEMMA InitInv == Init => IInv
BY LockAssumption DEF Init, IInv, TypeOK, Labels, Outcomes, AtTheLock, WriterHasLived, JudgedGone,
   NotYetThere, OwnsTheName, Running

(* Every step keeps the types. *)
LEMMA TypeStep ==
  ASSUME IInv, [Next]_vars
  PROVE  TypeOK'
<1>1. ASSUME NEW p \in Proc, AcquireGuard(p), UNCHANGED given PROVE TypeOK'
  BY <1>1 DEF given, AcquireGuard, files, Goto, MutexFree, Busy, End, DropHandle, NoFault, Fault, IInv, TypeOK, Labels, Outcomes
<1>2. ASSUME NEW p \in Proc, GuardUnavailable(p), UNCHANGED given PROVE TypeOK'
  BY <1>2 DEF given, GuardUnavailable, files, Goto, NoFault, Fault, IInv, TypeOK, Labels, Outcomes
<1>3. ASSUME NEW p \in Proc, VerifyParent(p), UNCHANGED given PROVE TypeOK'
  BY <1>3 DEF given, VerifyParent, files, Goto, Busy, End, DropHandle, NoFault, Fault, IInv, TypeOK, Labels, Outcomes
<1>4. ASSUME NEW p \in Proc, CreateMarker(p), UNCHANGED given PROVE TypeOK'
  BY <1>4 DEF given, CreateMarker, files, Goto, Busy, End, DropHandle, NoFault, Fault, IInv, TypeOK, Labels, Outcomes
<1>5. ASSUME NEW p \in Proc, WriteMarker(p), UNCHANGED given PROVE TypeOK'
  BY <1>5 DEF given, WriteMarker, files, Goto, End, DropHandle, NoFault, Fault, IInv, TypeOK, Labels, Outcomes
<1>6. ASSUME NEW p \in Proc, OpenMarker(p), UNCHANGED given PROVE TypeOK'
  BY <1>6 DEF given, OpenMarker, files, Goto, Busy, End, DropHandle, NoFault, Fault, IInv, TypeOK, Labels, Outcomes
<1>7. ASSUME NEW p \in Proc, JudgeMarker(p), UNCHANGED given PROVE TypeOK'
  BY <1>7 DEF given, JudgeMarker, files, Goto, Busy, End, DropHandle, NoFault, Fault, IInv, TypeOK, Labels, Outcomes
<1>8. ASSUME NEW p \in Proc, Reopen(p), UNCHANGED given PROVE TypeOK'
  BY <1>8 DEF given, Reopen, files, Goto, Busy, End, DropHandle, NoFault, Fault, IInv, TypeOK, Labels, Outcomes
<1>9. ASSUME NEW p \in Proc, Dispose(p), UNCHANGED given PROVE TypeOK'
  BY <1>9 DEF given, Dispose, files, Goto, Busy, End, DropHandle, DeleteByHandle, NoFault, Fault, IInv, TypeOK, Labels, Outcomes, JudgedGone
<1>10. ASSUME NEW p \in Proc, CloseReclaimed(p), UNCHANGED given PROVE TypeOK'
  BY <1>10 DEF given, CloseReclaimed, files, Goto, DropHandle, NoFault, Fault, IInv, TypeOK, Labels, Outcomes
<1>11. ASSUME NEW p \in Proc, ReleaseGuard(p), UNCHANGED given PROVE TypeOK'
  BY <1>11 DEF given, ReleaseGuard, files, Goto, End, DropHandle, NoFault, Fault, IInv, TypeOK, Labels, Outcomes
<1>12. ASSUME NEW p \in Proc, DeleteMarker(p), UNCHANGED given PROVE TypeOK'
  BY <1>12 DEF given, DeleteMarker, files, Goto, DeleteByHandle, NoFault, Fault, IInv, TypeOK, Labels, Outcomes, OwnsTheName
<1>13. ASSUME NEW p \in Proc, CloseMarker(p), UNCHANGED given PROVE TypeOK'
  BY <1>13 DEF given, CloseMarker, files, Goto, End, DropHandle, NoFault, Fault, IInv, TypeOK, Labels, Outcomes
<1>14. ASSUME NEW p \in Proc, Enter(p), UNCHANGED given PROVE TypeOK'
  BY <1>14 DEF given, Enter, files, Goto, IInv, TypeOK, Labels, Outcomes
<1>15. ASSUME NEW p \in Proc, Start(p), UNCHANGED given PROVE TypeOK'
  BY <1>15 DEF given, Start, files, Goto, Running, Present, IInv, TypeOK, Labels, Outcomes
<1>16. ASSUME NEW p \in Proc, Terminate(p), UNCHANGED given PROVE TypeOK'
  BY <1>16 DEF given, Terminate, files, Goto, Running, DropHandle, IInv, TypeOK, Labels, Outcomes
<1>17. ASSUME NEW p \in Proc, LastHandleClosed(p), UNCHANGED given PROVE TypeOK'
  BY <1>17 DEF given, LastHandleClosed, files, Goto, IInv, TypeOK, Labels, Outcomes
<1>18. ASSUME NEW p \in Proc, Exhaust(p), UNCHANGED given PROVE TypeOK'
  BY <1>18 DEF given, Exhaust, files, Goto, IInv, TypeOK, Labels, Outcomes
<1>19. CASE UNCHANGED vars
  BY <1>19 DEF vars, files, IInv, TypeOK, Labels, Outcomes
<1>20. QED
  BY <1>1, <1>2, <1>3, <1>4, <1>5, <1>6, <1>7, <1>8, <1>9, <1>10, <1>11, <1>12, <1>13, <1>14, <1>15, <1>16, <1>17, <1>18, <1>19 DEF Next, Step, Environment, Over

(* Only running processes are at the lock. *)
LEMMA AtTheLockStep ==
  ASSUME IInv, [Next]_vars
  PROVE  AtTheLock'
<1>1. ASSUME NEW p \in Proc, AcquireGuard(p) PROVE AtTheLock'
  BY <1>1 DEF AcquireGuard, files, Goto, MutexFree, Busy, End, DropHandle, NoFault, Fault, IInv, TypeOK, AtTheLock, Running
<1>2. ASSUME NEW p \in Proc, GuardUnavailable(p) PROVE AtTheLock'
  BY <1>2 DEF GuardUnavailable, files, Goto, NoFault, Fault, IInv, TypeOK, AtTheLock, Running
<1>3. ASSUME NEW p \in Proc, VerifyParent(p) PROVE AtTheLock'
  BY <1>3 DEF VerifyParent, files, Goto, Busy, End, DropHandle, NoFault, Fault, IInv, TypeOK, AtTheLock, Running
<1>4. ASSUME NEW p \in Proc, CreateMarker(p) PROVE AtTheLock'
  BY <1>4 DEF CreateMarker, files, Goto, Busy, End, DropHandle, NoFault, Fault, IInv, TypeOK, AtTheLock, Running
<1>5. ASSUME NEW p \in Proc, WriteMarker(p) PROVE AtTheLock'
  BY <1>5 DEF WriteMarker, files, Goto, End, DropHandle, NoFault, Fault, IInv, TypeOK, AtTheLock, Running
<1>6. ASSUME NEW p \in Proc, OpenMarker(p) PROVE AtTheLock'
  BY <1>6 DEF OpenMarker, files, Goto, Busy, End, DropHandle, NoFault, Fault, IInv, TypeOK, AtTheLock, Running
<1>7. ASSUME NEW p \in Proc, JudgeMarker(p) PROVE AtTheLock'
  BY <1>7 DEF JudgeMarker, files, Goto, Busy, End, DropHandle, NoFault, Fault, IInv, TypeOK, AtTheLock, Running
<1>8. ASSUME NEW p \in Proc, Reopen(p) PROVE AtTheLock'
  BY <1>8 DEF Reopen, files, Goto, Busy, End, DropHandle, NoFault, Fault, IInv, TypeOK, AtTheLock, Running
<1>9. ASSUME NEW p \in Proc, Dispose(p) PROVE AtTheLock'
  BY <1>9 DEF Dispose, files, Goto, Busy, End, DropHandle, DeleteByHandle, NoFault, Fault, IInv, TypeOK, AtTheLock, Running
<1>10. ASSUME NEW p \in Proc, CloseReclaimed(p) PROVE AtTheLock'
  BY <1>10 DEF CloseReclaimed, files, Goto, DropHandle, NoFault, Fault, IInv, TypeOK, AtTheLock, Running
<1>11. ASSUME NEW p \in Proc, ReleaseGuard(p) PROVE AtTheLock'
  BY <1>11 DEF ReleaseGuard, files, Goto, End, DropHandle, NoFault, Fault, IInv, TypeOK, AtTheLock, Running
<1>12. ASSUME NEW p \in Proc, DeleteMarker(p) PROVE AtTheLock'
  BY <1>12 DEF DeleteMarker, files, Goto, DeleteByHandle, NoFault, Fault, IInv, TypeOK, AtTheLock, Running
<1>13. ASSUME NEW p \in Proc, CloseMarker(p) PROVE AtTheLock'
  BY <1>13 DEF CloseMarker, files, Goto, End, DropHandle, NoFault, Fault, IInv, TypeOK, AtTheLock, Running
<1>14. ASSUME NEW p \in Proc, Enter(p) PROVE AtTheLock'
  BY <1>14 DEF Enter, files, Goto, IInv, TypeOK, AtTheLock, Running
<1>15. ASSUME NEW p \in Proc, Start(p) PROVE AtTheLock'
  BY <1>15 DEF Start, files, Goto, Running, Present, IInv, TypeOK, AtTheLock, Running
<1>16. ASSUME NEW p \in Proc, Terminate(p) PROVE AtTheLock'
  BY <1>16 DEF Terminate, files, Goto, Running, DropHandle, IInv, TypeOK, AtTheLock, Running
<1>17. ASSUME NEW p \in Proc, LastHandleClosed(p) PROVE AtTheLock'
  BY <1>17 DEF LastHandleClosed, files, Goto, IInv, TypeOK, AtTheLock, Running
<1>18. ASSUME NEW p \in Proc, Exhaust(p) PROVE AtTheLock'
  BY <1>18 DEF Exhaust, files, Goto, IInv, TypeOK, AtTheLock, Running
<1>19. CASE UNCHANGED vars
  BY <1>19 DEF vars, files, IInv, TypeOK, AtTheLock, Running
<1>20. QED
  BY <1>1, <1>2, <1>3, <1>4, <1>5, <1>6, <1>7, <1>8, <1>9, <1>10, <1>11, <1>12, <1>13, <1>14, <1>15, <1>16, <1>17, <1>18, <1>19 DEF Next, Step, Environment, Over

(* A marker is completed only by a process that has been started. *)
LEMMA WriterHasLivedStep ==
  ASSUME IInv, [Next]_vars
  PROVE  WriterHasLived'
<1>1. ASSUME NEW p \in Proc, AcquireGuard(p) PROVE WriterHasLived'
  BY <1>1 DEF AcquireGuard, files, Goto, MutexFree, Busy, End, DropHandle, NoFault, Fault, IInv, TypeOK, WriterHasLived
<1>2. ASSUME NEW p \in Proc, GuardUnavailable(p) PROVE WriterHasLived'
  BY <1>2 DEF GuardUnavailable, files, Goto, NoFault, Fault, IInv, TypeOK, WriterHasLived
<1>3. ASSUME NEW p \in Proc, VerifyParent(p) PROVE WriterHasLived'
  BY <1>3 DEF VerifyParent, files, Goto, Busy, End, DropHandle, NoFault, Fault, IInv, TypeOK, WriterHasLived
<1>4. ASSUME NEW p \in Proc, CreateMarker(p) PROVE WriterHasLived'
  BY <1>4 DEF CreateMarker, files, Goto, Busy, End, DropHandle, NoFault, Fault, IInv, TypeOK, WriterHasLived
<1>5. ASSUME NEW p \in Proc, WriteMarker(p) PROVE WriterHasLived'
  BY <1>5 DEF WriteMarker, files, Goto, End, DropHandle, NoFault, Fault, IInv, TypeOK, WriterHasLived, AtTheLock, Running
<1>6. ASSUME NEW p \in Proc, OpenMarker(p) PROVE WriterHasLived'
  BY <1>6 DEF OpenMarker, files, Goto, Busy, End, DropHandle, NoFault, Fault, IInv, TypeOK, WriterHasLived
<1>7. ASSUME NEW p \in Proc, JudgeMarker(p) PROVE WriterHasLived'
  BY <1>7 DEF JudgeMarker, files, Goto, Busy, End, DropHandle, NoFault, Fault, IInv, TypeOK, WriterHasLived
<1>8. ASSUME NEW p \in Proc, Reopen(p) PROVE WriterHasLived'
  BY <1>8 DEF Reopen, files, Goto, Busy, End, DropHandle, NoFault, Fault, IInv, TypeOK, WriterHasLived
<1>9. ASSUME NEW p \in Proc, Dispose(p) PROVE WriterHasLived'
  BY <1>9 DEF Dispose, files, Goto, Busy, End, DropHandle, DeleteByHandle, NoFault, Fault, IInv, TypeOK, WriterHasLived
<1>10. ASSUME NEW p \in Proc, CloseReclaimed(p) PROVE WriterHasLived'
  BY <1>10 DEF CloseReclaimed, files, Goto, DropHandle, NoFault, Fault, IInv, TypeOK, WriterHasLived
<1>11. ASSUME NEW p \in Proc, ReleaseGuard(p) PROVE WriterHasLived'
  BY <1>11 DEF ReleaseGuard, files, Goto, End, DropHandle, NoFault, Fault, IInv, TypeOK, WriterHasLived
<1>12. ASSUME NEW p \in Proc, DeleteMarker(p) PROVE WriterHasLived'
  BY <1>12 DEF DeleteMarker, files, Goto, DeleteByHandle, NoFault, Fault, IInv, TypeOK, WriterHasLived
<1>13. ASSUME NEW p \in Proc, CloseMarker(p) PROVE WriterHasLived'
  BY <1>13 DEF CloseMarker, files, Goto, End, DropHandle, NoFault, Fault, IInv, TypeOK, WriterHasLived
<1>14. ASSUME NEW p \in Proc, Enter(p) PROVE WriterHasLived'
  BY <1>14 DEF Enter, files, Goto, IInv, TypeOK, WriterHasLived
<1>15. ASSUME NEW p \in Proc, Start(p) PROVE WriterHasLived'
  BY <1>15 DEF Start, files, Goto, Running, Present, IInv, TypeOK, WriterHasLived, AtTheLock, Running
<1>16. ASSUME NEW p \in Proc, Terminate(p) PROVE WriterHasLived'
  BY <1>16 DEF Terminate, files, Goto, Running, DropHandle, IInv, TypeOK, WriterHasLived
<1>17. ASSUME NEW p \in Proc, LastHandleClosed(p) PROVE WriterHasLived'
  BY <1>17 DEF LastHandleClosed, files, Goto, IInv, TypeOK, WriterHasLived
<1>18. ASSUME NEW p \in Proc, Exhaust(p) PROVE WriterHasLived'
  BY <1>18 DEF Exhaust, files, Goto, IInv, TypeOK, WriterHasLived
<1>19. CASE UNCHANGED vars
  BY <1>19 DEF vars, files, IInv, TypeOK, WriterHasLived
<1>20. QED
  BY <1>1, <1>2, <1>3, <1>4, <1>5, <1>6, <1>7, <1>8, <1>9, <1>10, <1>11, <1>12, <1>13, <1>14, <1>15, <1>16, <1>17, <1>18, <1>19 DEF Next, Step, Environment, Over

(* A marker is up for deletion only when its creator is gone for good: a
   process instance that is gone never comes back, even if its pid does. *)
LEMMA JudgedGoneStep ==
  ASSUME IInv, [Next]_vars
  PROVE  JudgedGone'
<1>1. ASSUME NEW p \in Proc, AcquireGuard(p) PROVE JudgedGone'
  BY <1>1 DEF AcquireGuard, files, Goto, MutexFree, Busy, End, DropHandle, NoFault, Fault, IInv, TypeOK, JudgedGone
<1>2. ASSUME NEW p \in Proc, GuardUnavailable(p) PROVE JudgedGone'
  BY <1>2 DEF GuardUnavailable, files, Goto, NoFault, Fault, IInv, TypeOK, JudgedGone
<1>3. ASSUME NEW p \in Proc, VerifyParent(p) PROVE JudgedGone'
  BY <1>3 DEF VerifyParent, files, Goto, Busy, End, DropHandle, NoFault, Fault, IInv, TypeOK, JudgedGone
<1>4. ASSUME NEW p \in Proc, CreateMarker(p) PROVE JudgedGone'
  BY <1>4 DEF CreateMarker, files, Goto, Busy, End, DropHandle, NoFault, Fault, IInv, TypeOK, JudgedGone
<1>5. ASSUME NEW p \in Proc, WriteMarker(p) PROVE JudgedGone'
  BY <1>5 DEF WriteMarker, files, Goto, End, DropHandle, NoFault, Fault, IInv, TypeOK, JudgedGone
<1>6. ASSUME NEW p \in Proc, OpenMarker(p) PROVE JudgedGone'
  BY <1>6 DEF OpenMarker, files, Goto, Busy, End, DropHandle, NoFault, Fault, IInv, TypeOK, JudgedGone
<1>7. ASSUME NEW p \in Proc, JudgeMarker(p) PROVE JudgedGone'
  BY <1>7 DEF JudgeMarker, files, Goto, Busy, End, DropHandle, NoFault, Fault, IInv, TypeOK, JudgedGone, WriterHasLived, Reclaimable, Present
<1>8. ASSUME NEW p \in Proc, Reopen(p) PROVE JudgedGone'
  BY <1>8 DEF Reopen, files, Goto, Busy, End, DropHandle, NoFault, Fault, IInv, TypeOK, JudgedGone
<1>9. ASSUME NEW p \in Proc, Dispose(p) PROVE JudgedGone'
  BY <1>9 DEF Dispose, files, Goto, Busy, End, DropHandle, DeleteByHandle, NoFault, Fault, IInv, TypeOK, JudgedGone
<1>10. ASSUME NEW p \in Proc, CloseReclaimed(p) PROVE JudgedGone'
  BY <1>10 DEF CloseReclaimed, files, Goto, DropHandle, NoFault, Fault, IInv, TypeOK, JudgedGone
<1>11. ASSUME NEW p \in Proc, ReleaseGuard(p) PROVE JudgedGone'
  BY <1>11 DEF ReleaseGuard, files, Goto, End, DropHandle, NoFault, Fault, IInv, TypeOK, JudgedGone
<1>12. ASSUME NEW p \in Proc, DeleteMarker(p) PROVE JudgedGone'
  BY <1>12 DEF DeleteMarker, files, Goto, DeleteByHandle, NoFault, Fault, IInv, TypeOK, JudgedGone
<1>13. ASSUME NEW p \in Proc, CloseMarker(p) PROVE JudgedGone'
  BY <1>13 DEF CloseMarker, files, Goto, End, DropHandle, NoFault, Fault, IInv, TypeOK, JudgedGone
<1>14. ASSUME NEW p \in Proc, Enter(p) PROVE JudgedGone'
  BY <1>14 DEF Enter, files, Goto, IInv, TypeOK, JudgedGone
<1>15. ASSUME NEW p \in Proc, Start(p) PROVE JudgedGone'
  BY <1>15 DEF Start, files, Goto, Running, Present, IInv, TypeOK, JudgedGone, AtTheLock, Running
<1>16. ASSUME NEW p \in Proc, Terminate(p) PROVE JudgedGone'
  BY <1>16 DEF Terminate, files, Goto, Running, DropHandle, IInv, TypeOK, JudgedGone
<1>17. ASSUME NEW p \in Proc, LastHandleClosed(p) PROVE JudgedGone'
  BY <1>17 DEF LastHandleClosed, files, Goto, IInv, TypeOK, JudgedGone, AtTheLock, Running
<1>18. ASSUME NEW p \in Proc, Exhaust(p) PROVE JudgedGone'
  BY <1>18 DEF Exhaust, files, Goto, IInv, TypeOK, JudgedGone
<1>19. CASE UNCHANGED vars
  BY <1>19 DEF vars, files, IInv, TypeOK, JudgedGone
<1>20. QED
  BY <1>1, <1>2, <1>3, <1>4, <1>5, <1>6, <1>7, <1>8, <1>9, <1>10, <1>11, <1>12, <1>13, <1>14, <1>15, <1>16, <1>17, <1>18, <1>19 DEF Next, Step, Environment, Over

(* No file of a process that has not created one yet is marked for deletion. *)
LEMMA NotYetThereStep ==
  ASSUME IInv, [Next]_vars
  PROVE  NotYetThere'
<1>1. ASSUME NEW p \in Proc, AcquireGuard(p) PROVE NotYetThere'
  BY <1>1 DEF AcquireGuard, files, Goto, MutexFree, Busy, End, DropHandle, NoFault, Fault, IInv, TypeOK, NotYetThere, AtTheLock, Running
<1>2. ASSUME NEW p \in Proc, GuardUnavailable(p) PROVE NotYetThere'
  BY <1>2 DEF GuardUnavailable, files, Goto, NoFault, Fault, IInv, TypeOK, NotYetThere, AtTheLock, Running
<1>3. ASSUME NEW p \in Proc, VerifyParent(p) PROVE NotYetThere'
  BY <1>3 DEF VerifyParent, files, Goto, Busy, End, DropHandle, NoFault, Fault, IInv, TypeOK, NotYetThere, AtTheLock, Running
<1>4. ASSUME NEW p \in Proc, CreateMarker(p) PROVE NotYetThere'
  BY <1>4 DEF CreateMarker, files, Goto, Busy, End, DropHandle, NoFault, Fault, IInv, TypeOK, NotYetThere, AtTheLock, Running
<1>5. ASSUME NEW p \in Proc, WriteMarker(p) PROVE NotYetThere'
  BY <1>5 DEF WriteMarker, files, Goto, End, DropHandle, NoFault, Fault, IInv, TypeOK, NotYetThere, AtTheLock, Running
<1>6. ASSUME NEW p \in Proc, OpenMarker(p) PROVE NotYetThere'
  BY <1>6 DEF OpenMarker, files, Goto, Busy, End, DropHandle, NoFault, Fault, IInv, TypeOK, NotYetThere, AtTheLock, Running
<1>7. ASSUME NEW p \in Proc, JudgeMarker(p) PROVE NotYetThere'
  BY <1>7 DEF JudgeMarker, files, Goto, Busy, End, DropHandle, NoFault, Fault, IInv, TypeOK, NotYetThere, AtTheLock, Running
<1>8. ASSUME NEW p \in Proc, Reopen(p) PROVE NotYetThere'
  BY <1>8 DEF Reopen, files, Goto, Busy, End, DropHandle, NoFault, Fault, IInv, TypeOK, NotYetThere, AtTheLock, Running
<1>9. ASSUME NEW p \in Proc, Dispose(p) PROVE NotYetThere'
  BY <1>9 DEF Dispose, files, Goto, Busy, End, DropHandle, DeleteByHandle, NoFault, Fault, IInv, TypeOK, NotYetThere, AtTheLock, Running, JudgedGone
<1>10. ASSUME NEW p \in Proc, CloseReclaimed(p) PROVE NotYetThere'
  BY <1>10 DEF CloseReclaimed, files, Goto, DropHandle, NoFault, Fault, IInv, TypeOK, NotYetThere, AtTheLock, Running
<1>11. ASSUME NEW p \in Proc, ReleaseGuard(p) PROVE NotYetThere'
  BY <1>11 DEF ReleaseGuard, files, Goto, End, DropHandle, NoFault, Fault, IInv, TypeOK, NotYetThere, AtTheLock, Running
<1>12. ASSUME NEW p \in Proc, DeleteMarker(p) PROVE NotYetThere'
  BY <1>12 DEF DeleteMarker, files, Goto, DeleteByHandle, NoFault, Fault, IInv, TypeOK, NotYetThere, AtTheLock, Running, OwnsTheName
<1>13. ASSUME NEW p \in Proc, CloseMarker(p) PROVE NotYetThere'
  BY <1>13 DEF CloseMarker, files, Goto, End, DropHandle, NoFault, Fault, IInv, TypeOK, NotYetThere, AtTheLock, Running
<1>14. ASSUME NEW p \in Proc, Enter(p) PROVE NotYetThere'
  BY <1>14 DEF Enter, files, Goto, IInv, TypeOK, NotYetThere, AtTheLock, Running
<1>15. ASSUME NEW p \in Proc, Start(p) PROVE NotYetThere'
  BY <1>15 DEF Start, files, Goto, Running, Present, IInv, TypeOK, NotYetThere, AtTheLock, Running
<1>16. ASSUME NEW p \in Proc, Terminate(p) PROVE NotYetThere'
  BY <1>16 DEF Terminate, files, Goto, Running, DropHandle, IInv, TypeOK, NotYetThere, AtTheLock, Running
<1>17. ASSUME NEW p \in Proc, LastHandleClosed(p) PROVE NotYetThere'
  BY <1>17 DEF LastHandleClosed, files, Goto, IInv, TypeOK, NotYetThere, AtTheLock, Running
<1>18. ASSUME NEW p \in Proc, Exhaust(p) PROVE NotYetThere'
  BY <1>18 DEF Exhaust, files, Goto, IInv, TypeOK, NotYetThere, AtTheLock, Running
<1>19. CASE UNCHANGED vars
  BY <1>19 DEF vars, files, IInv, TypeOK, NotYetThere, AtTheLock, Running
<1>20. QED
  BY <1>1, <1>2, <1>3, <1>4, <1>5, <1>6, <1>7, <1>8, <1>9, <1>10, <1>11, <1>12, <1>13, <1>14, <1>15, <1>16, <1>17, <1>18, <1>19 DEF Next, Step, Environment, Over

(* Whoever creates or holds a marker owns the name. *)
LEMMA OwnsTheNameStep ==
  ASSUME IInv, [Next]_vars
  PROVE  OwnsTheName'
<1>1. ASSUME NEW p \in Proc, AcquireGuard(p) PROVE OwnsTheName'
  BY <1>1 DEF AcquireGuard, files, Goto, MutexFree, Busy, End, DropHandle, NoFault, Fault, IInv, TypeOK, OwnsTheName
<1>2. ASSUME NEW p \in Proc, GuardUnavailable(p) PROVE OwnsTheName'
  BY <1>2 DEF GuardUnavailable, files, Goto, NoFault, Fault, IInv, TypeOK, OwnsTheName
<1>3. ASSUME NEW p \in Proc, VerifyParent(p) PROVE OwnsTheName'
  BY <1>3 DEF VerifyParent, files, Goto, Busy, End, DropHandle, NoFault, Fault, IInv, TypeOK, OwnsTheName
<1>4. ASSUME NEW p \in Proc, CreateMarker(p) PROVE OwnsTheName'
  BY <1>4, LockAssumption DEF CreateMarker, files, Goto, Busy, End, DropHandle, NoFault, Fault, IInv, TypeOK, OwnsTheName, NotYetThere
<1>5. ASSUME NEW p \in Proc, WriteMarker(p) PROVE OwnsTheName'
  BY <1>5 DEF WriteMarker, files, Goto, End, DropHandle, NoFault, Fault, IInv, TypeOK, OwnsTheName
<1>6. ASSUME NEW p \in Proc, OpenMarker(p) PROVE OwnsTheName'
  BY <1>6 DEF OpenMarker, files, Goto, Busy, End, DropHandle, NoFault, Fault, IInv, TypeOK, OwnsTheName
<1>7. ASSUME NEW p \in Proc, JudgeMarker(p) PROVE OwnsTheName'
  BY <1>7 DEF JudgeMarker, files, Goto, Busy, End, DropHandle, NoFault, Fault, IInv, TypeOK, OwnsTheName
<1>8. ASSUME NEW p \in Proc, Reopen(p) PROVE OwnsTheName'
  BY <1>8 DEF Reopen, files, Goto, Busy, End, DropHandle, NoFault, Fault, IInv, TypeOK, OwnsTheName
<1>9. ASSUME NEW p \in Proc, Dispose(p) PROVE OwnsTheName'
  BY <1>9 DEF Dispose, files, Goto, Busy, End, DropHandle, DeleteByHandle, NoFault, Fault, IInv, TypeOK, OwnsTheName, JudgedGone, AtTheLock, Running
<1>10. ASSUME NEW p \in Proc, CloseReclaimed(p) PROVE OwnsTheName'
  BY <1>10 DEF CloseReclaimed, files, Goto, DropHandle, NoFault, Fault, IInv, TypeOK, OwnsTheName
<1>11. ASSUME NEW p \in Proc, ReleaseGuard(p) PROVE OwnsTheName'
  BY <1>11 DEF ReleaseGuard, files, Goto, End, DropHandle, NoFault, Fault, IInv, TypeOK, OwnsTheName
<1>12. ASSUME NEW p \in Proc, DeleteMarker(p) PROVE OwnsTheName'
  BY <1>12 DEF DeleteMarker, files, Goto, DeleteByHandle, NoFault, Fault, IInv, TypeOK, OwnsTheName
<1>13. ASSUME NEW p \in Proc, CloseMarker(p) PROVE OwnsTheName'
  BY <1>13 DEF CloseMarker, files, Goto, End, DropHandle, NoFault, Fault, IInv, TypeOK, OwnsTheName
<1>14. ASSUME NEW p \in Proc, Enter(p) PROVE OwnsTheName'
  BY <1>14 DEF Enter, files, Goto, IInv, TypeOK, OwnsTheName
<1>15. ASSUME NEW p \in Proc, Start(p) PROVE OwnsTheName'
  BY <1>15 DEF Start, files, Goto, Running, Present, IInv, TypeOK, OwnsTheName
<1>16. ASSUME NEW p \in Proc, Terminate(p) PROVE OwnsTheName'
  BY <1>16 DEF Terminate, files, Goto, Running, DropHandle, IInv, TypeOK, OwnsTheName
<1>17. ASSUME NEW p \in Proc, LastHandleClosed(p) PROVE OwnsTheName'
  BY <1>17 DEF LastHandleClosed, files, Goto, IInv, TypeOK, OwnsTheName
<1>18. ASSUME NEW p \in Proc, Exhaust(p) PROVE OwnsTheName'
  BY <1>18 DEF Exhaust, files, Goto, IInv, TypeOK, OwnsTheName
<1>19. CASE UNCHANGED vars
  BY <1>19 DEF vars, files, IInv, TypeOK, OwnsTheName
<1>20. QED
  BY <1>1, <1>2, <1>3, <1>4, <1>5, <1>6, <1>7, <1>8, <1>9, <1>10, <1>11, <1>12, <1>13, <1>14, <1>15, <1>16, <1>17, <1>18, <1>19 DEF Next, Step, Environment, Over

(* The inductive invariant holds throughout every behaviour. *)
THEOREM Inductive == Spec => []IInv
<1>1. IInv /\ [Next]_vars => IInv'
  BY TypeStep, AtTheLockStep, WriterHasLivedStep, JudgedGoneStep, NotYetThereStep, OwnsTheNameStep DEF IInv
<1>2. QED
  BY InitInv, <1>1, PTL DEF Spec

(***************************************************************************)
(* The marker of a process that is inside the lock stays: for any number   *)
(* of processes, any assignment of pids and any number of failures.        *)
(***************************************************************************)
THEOREM HeldMarkerStandsAlways == Spec => []HeldMarkerStands
<1>1. IInv => HeldMarkerStands
  BY DEF IInv, OwnsTheName, HeldMarkerStands
<1>2. QED
  BY Inductive, <1>1, PTL

(* A lease of the mutex is taken from its owner only if that one is dead. *)
LEMMA GuardOwnedStep ==
  ASSUME IInv, GuardOwned, [Next]_vars
  PROVE  GuardOwned'
<1>1. ASSUME NEW p \in Proc, AcquireGuard(p) PROVE GuardOwned'
  <2>1. CASE MutexFree(mutex) /\ mutex' = p /\ lease' = [lease EXCEPT ![p] = "guard"] /\ Goto(p, "holding")
    <3>1. \A q \in Proc : ~(pc[q] = "holding" /\ lease[q] = "guard")
      BY <2>1, LockAssumption DEF MutexFree, GuardOwned, IInv, AtTheLock, Running
    <3>2. QED
      BY <2>1, <3>1 DEF Goto, IInv, TypeOK, GuardOwned
  <2>2. CASE Busy(p) /\ UNCHANGED <<mutex, lease>>
    BY <2>2 DEF Busy, End, Goto, IInv, TypeOK, GuardOwned
  <2>3. QED
    BY <1>1, <2>1, <2>2 DEF AcquireGuard
<1>2. ASSUME NEW p \in Proc, GuardUnavailable(p) PROVE GuardOwned'
  BY <1>2 DEF GuardUnavailable, files, Goto, NoFault, Fault, IInv, TypeOK, GuardOwned, AtTheLock, Running
<1>3. ASSUME NEW p \in Proc, VerifyParent(p) PROVE GuardOwned'
  BY <1>3 DEF VerifyParent, files, Goto, Busy, End, DropHandle, NoFault, Fault, IInv, TypeOK, GuardOwned, AtTheLock, Running
<1>4. ASSUME NEW p \in Proc, CreateMarker(p) PROVE GuardOwned'
  BY <1>4 DEF CreateMarker, files, Goto, Busy, End, DropHandle, NoFault, Fault, IInv, TypeOK, GuardOwned, AtTheLock, Running
<1>5. ASSUME NEW p \in Proc, WriteMarker(p) PROVE GuardOwned'
  BY <1>5 DEF WriteMarker, files, Goto, End, DropHandle, NoFault, Fault, IInv, TypeOK, GuardOwned, AtTheLock, Running
<1>6. ASSUME NEW p \in Proc, OpenMarker(p) PROVE GuardOwned'
  BY <1>6 DEF OpenMarker, files, Goto, Busy, End, DropHandle, NoFault, Fault, IInv, TypeOK, GuardOwned, AtTheLock, Running
<1>7. ASSUME NEW p \in Proc, JudgeMarker(p) PROVE GuardOwned'
  BY <1>7 DEF JudgeMarker, files, Goto, Busy, End, DropHandle, NoFault, Fault, IInv, TypeOK, GuardOwned, AtTheLock, Running
<1>8. ASSUME NEW p \in Proc, Reopen(p) PROVE GuardOwned'
  BY <1>8 DEF Reopen, files, Goto, Busy, End, DropHandle, NoFault, Fault, IInv, TypeOK, GuardOwned, AtTheLock, Running
<1>9. ASSUME NEW p \in Proc, Dispose(p) PROVE GuardOwned'
  BY <1>9 DEF Dispose, files, Goto, Busy, End, DropHandle, DeleteByHandle, NoFault, Fault, IInv, TypeOK, GuardOwned, AtTheLock, Running
<1>10. ASSUME NEW p \in Proc, CloseReclaimed(p) PROVE GuardOwned'
  BY <1>10 DEF CloseReclaimed, files, Goto, DropHandle, NoFault, Fault, IInv, TypeOK, GuardOwned, AtTheLock, Running
<1>11. ASSUME NEW p \in Proc, ReleaseGuard(p) PROVE GuardOwned'
  BY <1>11 DEF ReleaseGuard, files, Goto, End, DropHandle, NoFault, Fault, IInv, TypeOK, GuardOwned, AtTheLock, Running
<1>12. ASSUME NEW p \in Proc, DeleteMarker(p) PROVE GuardOwned'
  BY <1>12 DEF DeleteMarker, files, Goto, DeleteByHandle, NoFault, Fault, IInv, TypeOK, GuardOwned, AtTheLock, Running
<1>13. ASSUME NEW p \in Proc, CloseMarker(p) PROVE GuardOwned'
  BY <1>13 DEF CloseMarker, files, Goto, End, DropHandle, NoFault, Fault, IInv, TypeOK, GuardOwned, AtTheLock, Running
<1>14. ASSUME NEW p \in Proc, Enter(p) PROVE GuardOwned'
  BY <1>14 DEF Enter, files, Goto, IInv, TypeOK, GuardOwned, AtTheLock, Running
<1>15. ASSUME NEW p \in Proc, Start(p) PROVE GuardOwned'
  BY <1>15 DEF Start, files, Goto, Present, IInv, TypeOK, GuardOwned, AtTheLock, Running
<1>16. ASSUME NEW p \in Proc, Terminate(p) PROVE GuardOwned'
  BY <1>16 DEF Terminate, files, Goto, DropHandle, IInv, TypeOK, GuardOwned, AtTheLock, Running
<1>17. ASSUME NEW p \in Proc, LastHandleClosed(p) PROVE GuardOwned'
  BY <1>17 DEF LastHandleClosed, files, Goto, IInv, TypeOK, GuardOwned, AtTheLock, Running
<1>18. ASSUME NEW p \in Proc, Exhaust(p) PROVE GuardOwned'
  BY <1>18 DEF Exhaust, files, Goto, IInv, TypeOK, GuardOwned, AtTheLock, Running
<1>19. CASE UNCHANGED vars
  BY <1>19 DEF vars, files, IInv, TypeOK, GuardOwned, AtTheLock, Running
<1>20. QED
  BY <1>1, <1>2, <1>3, <1>4, <1>5, <1>6, <1>7, <1>8, <1>9, <1>10, <1>11, <1>12, <1>13, <1>14, <1>15, <1>16, <1>17, <1>18, <1>19 DEF Next, Step, Environment, Over

(***************************************************************************)
(* Of the mutex and of the marker there is never more than one holder, for *)
(* any number of processes that race to reclaim markers, die at any step   *)
(* and fail at any call, whoever may and whoever may not have the mutex.   *)
(***************************************************************************)
THEOREM OneHolderAlways == Spec => []OneHolder
<1>1. Init => GuardOwned
  BY DEF Init, GuardOwned
<1>2. IInv /\ GuardOwned /\ [Next]_vars => GuardOwned'
  BY GuardOwnedStep
<1>3. IInv /\ GuardOwned => OneHolder
  BY DEF IInv, OwnsTheName, GuardOwned, OneHolder
<1>4. QED
  BY Inductive, <1>1, <1>2, <1>3, PTL DEF Spec

(* A process is answered when it leaves the lock, and does not come back. *)
LEMMA UnansweredStep ==
  ASSUME IInv, Unanswered, [Next]_vars
  PROVE  Unanswered'
<1>1. ASSUME NEW p \in Proc, AcquireGuard(p) PROVE Unanswered'
  BY <1>1 DEF AcquireGuard, files, Goto, MutexFree, Busy, End, DropHandle, NoFault, Fault, IInv, TypeOK, Unanswered
<1>2. ASSUME NEW p \in Proc, GuardUnavailable(p) PROVE Unanswered'
  BY <1>2 DEF GuardUnavailable, files, Goto, NoFault, Fault, IInv, TypeOK, Unanswered
<1>3. ASSUME NEW p \in Proc, VerifyParent(p) PROVE Unanswered'
  BY <1>3 DEF VerifyParent, files, Goto, Busy, End, DropHandle, NoFault, Fault, IInv, TypeOK, Unanswered
<1>4. ASSUME NEW p \in Proc, CreateMarker(p) PROVE Unanswered'
  BY <1>4 DEF CreateMarker, files, Goto, Busy, End, DropHandle, NoFault, Fault, IInv, TypeOK, Unanswered
<1>5. ASSUME NEW p \in Proc, WriteMarker(p) PROVE Unanswered'
  BY <1>5 DEF WriteMarker, files, Goto, End, DropHandle, NoFault, Fault, IInv, TypeOK, Unanswered
<1>6. ASSUME NEW p \in Proc, OpenMarker(p) PROVE Unanswered'
  BY <1>6 DEF OpenMarker, files, Goto, Busy, End, DropHandle, NoFault, Fault, IInv, TypeOK, Unanswered
<1>7. ASSUME NEW p \in Proc, JudgeMarker(p) PROVE Unanswered'
  BY <1>7 DEF JudgeMarker, files, Goto, Busy, End, DropHandle, NoFault, Fault, IInv, TypeOK, Unanswered
<1>8. ASSUME NEW p \in Proc, Reopen(p) PROVE Unanswered'
  BY <1>8 DEF Reopen, files, Goto, Busy, End, DropHandle, NoFault, Fault, IInv, TypeOK, Unanswered
<1>9. ASSUME NEW p \in Proc, Dispose(p) PROVE Unanswered'
  BY <1>9 DEF Dispose, files, Goto, Busy, End, DropHandle, DeleteByHandle, NoFault, Fault, IInv, TypeOK, Unanswered
<1>10. ASSUME NEW p \in Proc, CloseReclaimed(p) PROVE Unanswered'
  BY <1>10 DEF CloseReclaimed, files, Goto, DropHandle, NoFault, Fault, IInv, TypeOK, Unanswered
<1>11. ASSUME NEW p \in Proc, ReleaseGuard(p) PROVE Unanswered'
  BY <1>11 DEF ReleaseGuard, files, Goto, End, DropHandle, NoFault, Fault, IInv, TypeOK, Unanswered
<1>12. ASSUME NEW p \in Proc, DeleteMarker(p) PROVE Unanswered'
  BY <1>12 DEF DeleteMarker, files, Goto, DeleteByHandle, NoFault, Fault, IInv, TypeOK, Unanswered
<1>13. ASSUME NEW p \in Proc, CloseMarker(p) PROVE Unanswered'
  BY <1>13 DEF CloseMarker, files, Goto, End, DropHandle, NoFault, Fault, IInv, TypeOK, Unanswered
<1>14. ASSUME NEW p \in Proc, Enter(p) PROVE Unanswered'
  BY <1>14 DEF Enter, files, Goto, IInv, TypeOK, Unanswered
<1>15. ASSUME NEW p \in Proc, Start(p) PROVE Unanswered'
  BY <1>15 DEF Start, files, Goto, Running, Present, IInv, TypeOK, Unanswered
<1>16. ASSUME NEW p \in Proc, Terminate(p) PROVE Unanswered'
  BY <1>16 DEF Terminate, files, Goto, Running, DropHandle, IInv, TypeOK, Unanswered
<1>17. ASSUME NEW p \in Proc, LastHandleClosed(p) PROVE Unanswered'
  BY <1>17 DEF LastHandleClosed, files, Goto, IInv, TypeOK, Unanswered
<1>18. ASSUME NEW p \in Proc, Exhaust(p) PROVE Unanswered'
  BY <1>18 DEF Exhaust, files, Goto, IInv, TypeOK, Unanswered
<1>19. CASE UNCHANGED vars
  BY <1>19 DEF vars, files, IInv, TypeOK, Unanswered
<1>20. QED
  BY <1>1, <1>2, <1>3, <1>4, <1>5, <1>6, <1>7, <1>8, <1>9, <1>10, <1>11, <1>12, <1>13, <1>14, <1>15, <1>16, <1>17, <1>18, <1>19 DEF Next, Step, Environment, Over


(* RefusedForAReason, for one process and one step. *)
Refusal(p) ==
  pc[p] # "idle" /\ outcome'[p] = "busy" /\ ~late[p] /\ faults' = 0 =>
    \/ \E q \in Proc \ {p} : pc[q] # "idle"
    \/ pc[p] \in {"open", "reopen"} /\ name \in deleting \cup {NoProc}
    \/ pc[p] = "reopen" /\ name # handle[p]
    \/ LET f == handle[p]
       IN  f # NoProc /\ (Present(f) \/ f \notin written \/ pidOf[f] = pidOf[p])

(* A step that refuses a process without a failure has its reason. *)
LEMMA RefusalStep ==
  ASSUME IInv, Unanswered, [Next]_vars, NEW x \in Proc
  PROVE  Refusal(x)
<1>1. ASSUME NEW p \in Proc, AcquireGuard(p) PROVE Refusal(x)
  BY <1>1 DEF AcquireGuard, files, Goto, MutexFree, Busy, End, DropHandle, NoFault, Fault, IInv, TypeOK, Unanswered, Refusal
<1>2. ASSUME NEW p \in Proc, GuardUnavailable(p) PROVE Refusal(x)
  BY <1>2 DEF GuardUnavailable, files, Goto, NoFault, Fault, IInv, TypeOK, Unanswered, Refusal
<1>3. ASSUME NEW p \in Proc, VerifyParent(p) PROVE Refusal(x)
  BY <1>3 DEF VerifyParent, files, Goto, Busy, End, DropHandle, NoFault, Fault, IInv, TypeOK, Unanswered, Refusal
<1>4. ASSUME NEW p \in Proc, CreateMarker(p) PROVE Refusal(x)
  BY <1>4 DEF CreateMarker, files, Goto, Busy, End, DropHandle, NoFault, Fault, IInv, TypeOK, Unanswered, Refusal
<1>5. ASSUME NEW p \in Proc, WriteMarker(p) PROVE Refusal(x)
  BY <1>5 DEF WriteMarker, files, Goto, End, DropHandle, NoFault, Fault, IInv, TypeOK, Unanswered, Refusal
<1>6. ASSUME NEW p \in Proc, OpenMarker(p) PROVE Refusal(x)
  BY <1>6 DEF OpenMarker, files, Goto, Busy, End, DropHandle, NoFault, Fault, IInv, TypeOK, Unanswered, Refusal
<1>7. ASSUME NEW p \in Proc, JudgeMarker(p) PROVE Refusal(x)
  BY <1>7 DEF JudgeMarker, JudgedGone, Reclaimable, Present, files, Goto, Busy, End, DropHandle, NoFault, Fault, IInv, TypeOK, Unanswered, Refusal
<1>8. ASSUME NEW p \in Proc, Reopen(p) PROVE Refusal(x)
  BY <1>8 DEF Reopen, files, Goto, Busy, End, DropHandle, NoFault, Fault, IInv, TypeOK, Unanswered, Refusal
<1>9. ASSUME NEW p \in Proc, Dispose(p) PROVE Refusal(x)
  BY <1>9 DEF Dispose, files, Goto, Busy, End, DropHandle, DeleteByHandle, NoFault, Fault, IInv, TypeOK, Unanswered, Refusal
<1>10. ASSUME NEW p \in Proc, CloseReclaimed(p) PROVE Refusal(x)
  BY <1>10 DEF CloseReclaimed, files, Goto, DropHandle, NoFault, Fault, IInv, TypeOK, Unanswered, Refusal
<1>11. ASSUME NEW p \in Proc, ReleaseGuard(p) PROVE Refusal(x)
  BY <1>11 DEF ReleaseGuard, files, Goto, End, DropHandle, NoFault, Fault, IInv, TypeOK, Unanswered, Refusal
<1>12. ASSUME NEW p \in Proc, DeleteMarker(p) PROVE Refusal(x)
  BY <1>12 DEF DeleteMarker, files, Goto, DeleteByHandle, NoFault, Fault, IInv, TypeOK, Unanswered, Refusal
<1>13. ASSUME NEW p \in Proc, CloseMarker(p) PROVE Refusal(x)
  BY <1>13 DEF CloseMarker, files, Goto, End, DropHandle, NoFault, Fault, IInv, TypeOK, Unanswered, Refusal
<1>14. ASSUME NEW p \in Proc, Enter(p) PROVE Refusal(x)
  BY <1>14 DEF Enter, files, Goto, IInv, TypeOK, Unanswered, Refusal
<1>15. ASSUME NEW p \in Proc, Start(p) PROVE Refusal(x)
  BY <1>15 DEF Start, files, Goto, Running, Present, IInv, TypeOK, Unanswered, Refusal
<1>16. ASSUME NEW p \in Proc, Terminate(p) PROVE Refusal(x)
  BY <1>16 DEF Terminate, files, Goto, Running, DropHandle, IInv, TypeOK, Unanswered, Refusal
<1>17. ASSUME NEW p \in Proc, LastHandleClosed(p) PROVE Refusal(x)
  BY <1>17 DEF LastHandleClosed, files, Goto, IInv, TypeOK, Unanswered, Refusal
<1>18. ASSUME NEW p \in Proc, Exhaust(p) PROVE Refusal(x)
  BY <1>18 DEF Exhaust, files, Goto, IInv, TypeOK, Unanswered, Refusal
<1>19. CASE UNCHANGED vars
  BY <1>19 DEF vars, files, IInv, TypeOK, Unanswered, Refusal
<1>20. QED
  BY <1>1, <1>2, <1>3, <1>4, <1>5, <1>6, <1>7, <1>8, <1>9, <1>10, <1>11, <1>12, <1>13, <1>14, <1>15, <1>16, <1>17, <1>18, <1>19 DEF Next, Step, Environment, Over

(* Without failures a process is refused only while another one is at the lock,
   or because the marker went away, or because its owner still exists, did not
   complete it, or had the same pid. *)
THEOREM RefusalsHaveReasons == Spec => RefusedForAReason
<1>1. Init => Unanswered
  BY DEF Init, Unanswered
<1>2. IInv /\ Unanswered /\ [Next]_vars => Unanswered'
  BY UnansweredStep
<1>3. IInv /\ Unanswered /\ [Next]_vars => \A p \in Proc : Refusal(p)
  BY RefusalStep
<1>4. Spec => []IInv
  BY Inductive
<1>5. QED
  BY <1>1, <1>2, <1>3, <1>4, PTL DEF Spec, RefusedForAReason, Refusal

=============================================================================
