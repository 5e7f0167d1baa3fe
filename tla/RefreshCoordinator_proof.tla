---------------------- MODULE RefreshCoordinator_proof ----------------------
EXTENDS RefreshCoordinator, TLAPS

(***************************************************************************)
(* The building blocks of the actions keep the types.                      *)
(***************************************************************************)
LEMMA LabelFacts ==
  /\ \A l \in CriticalLabels : l \in Labels
  /\ \A l \in {"idle", "reclose", "lookup", "loop", "inspect", "final_lookup", "produce", "finish"} :
       l \in Labels /\ l \notin CriticalLabels
  /\ \A l \in {"load", "read", "judge", "claim", "rel_hit", "rel_wait", "rel_claim", "rel_fail",
              "rel_error", "recover_read", "recover_retire", "recover_ok", "recover_bad",
              "finish_read", "publish", "retire", "finish_rel"} : l \in CriticalLabels
BY DEF Labels, FreeLabels, CriticalLabels

LEMMA OutcomeFacts ==
  \A v \in {"none", "cached", "deadline", "internal_error", "guard_wait_timeout",
            "guard_acquisition_failed", "document", "published", "raised"} : v \in Outcomes
BY DEF Outcomes

LEMMA GotoType ==
  ASSUME TypeOK, NEW p \in Proc, NEW label \in Labels, Goto(p, label)
  PROVE  pc' \in [Proc -> Labels]
BY DEF TypeOK, Goto

LEMMA ResultType ==
  ASSUME TypeOK, NEW p \in Proc, NEW value \in Outcomes, Result(p, value)
  PROVE  outcome' \in [Proc -> Outcomes]
BY DEF TypeOK, Result

LEMMA MarkerFacts ==
  /\ NoMarker \in Markers
  /\ \A g \in Nat : Inactive(g) \in Markers
BY DEF Markers, NoMarker, Inactive

LEMMA ReturnType ==
  ASSUME TypeOK, NEW p \in Proc, NEW value \in Outcomes, Return(p, value)
  PROVE  /\ pc' \in [Proc -> Labels]
         /\ outcome' \in [Proc -> Outcomes]
         /\ view' \in [Proc -> Markers]
         /\ claim' \in [Proc -> Nat]
         /\ attempts' \in [Proc -> Nat]
         /\ late' \in [Proc -> BOOLEAN]
         /\ doc' \in [Proc -> {"publishable", "refused", "none"}]
BY GotoType, ResultType, LabelFacts, MarkerFacts DEF Return, EndLocals, TypeOK

(* A call that returns leaves the others where they are.                    *)
LEMMA ReturnLocal ==
  ASSUME TypeOK, NEW p \in Proc, NEW value, Return(p, value)
  PROVE  /\ pc'[p] = "idle"
         /\ \A q \in Proc \ {p} : pc'[q] = pc[q] /\ view'[q] = view[q] /\ claim'[q] = claim[q]
BY DEF TypeOK, Return, Goto, EndLocals

(* What a step that gives back the lease of a finished claim leaves alone.  *)
LEMMA FinishReleaseLocal ==
  ASSUME TypeOK, NEW p \in Proc, FinishRelease(p)
  PROVE  /\ pc'[p] = "idle"
         /\ \A q \in Proc \ {p} : pc'[q] = pc[q] /\ view'[q] = view[q] /\ claim'[q] = claim[q]
         /\ marker' = marker /\ life' = life /\ erases' = erases /\ UNCHANGED <<strays, ghost>>
<1>1. PICK value : Return(p, value)
  BY DEF FinishRelease
<1>2. marker' = marker /\ life' = life /\ erases' = erases /\ UNCHANGED <<strays, ghost>>
  BY DEF FinishRelease, files, counts
<1>. QED BY <1>1, <1>2, ReturnLocal

(* What closing a lease left by an earlier call leaves alone.               *)
LEMMA RecloseLocal ==
  ASSUME TypeOK, NEW p \in Proc, Reclose(p)
  PROVE  /\ pc'[p] \in {"idle", "lookup"}
         /\ \A q \in Proc \ {p} : pc'[q] = pc[q] /\ claim'[q] = claim[q]
         /\ marker' = marker /\ life' = life /\ erases' = erases /\ UNCHANGED <<strays, ghost>>
<1>1. marker' = marker /\ life' = life /\ erases' = erases /\ UNCHANGED <<strays, ghost>>
  BY DEF Reclose, files, counts
<1>2. CASE Goto(p, "lookup") /\ UNCHANGED locals
  BY <1>1, <1>2 DEF Goto, TypeOK, locals
<1>3. CASE Return(p, "internal_error")
  BY <1>1, <1>3, ReturnLocal
<1>. QED BY <1>2, <1>3 DEF Reclose

LEMMA FailureCodeType == \A p \in Proc : FailureCode(p) \in Outcomes
BY OutcomeFacts DEF FailureCode

LEMMA FaultType ==
  ASSUME TypeOK, NEW p \in Proc,
         \/ NoFault \/ Fault \/ AccessOk(p) \/ AccessFails(p) \/ Hit(p) \/ Miss(p)
  PROVE  faults' \in Nat
BY DEF TypeOK, NoFault, Fault, AccessOk, AccessFails, AccessRefused, Hit, Miss

LEMMA EndStraysType ==
  ASSUME TypeOK, NEW p \in Proc, EndStrays(p)
  PROVE  strayMarker' \in [Proc -> Markers] /\ strayCache' \in [Proc -> BOOLEAN]
BY MarkerFacts DEF TypeOK, EndStrays

LEMMA StrayType ==
  ASSUME TypeOK, NEW p \in Proc,
         \/ EndStrays(p) \/ AccessOk(p) \/ AccessRefused(p) \/ AccessFails(p) \/ Hit(p) \/ Miss(p)
  PROVE  strayMarker' \in [Proc -> Markers] /\ strayCache' \in [Proc -> BOOLEAN]
<1>1. CASE EndStrays(p)
  BY <1>1, EndStraysType
<1>2. CASE UNCHANGED strays
  BY <1>2 DEF strays, TypeOK
<1>. QED BY <1>1, <1>2 DEF AccessOk, AccessRefused, AccessFails, Hit, Miss

(* Of the history, retiring a marker changes one thing only.               *)
LEMMA LoosenType ==
  ASSUME TypeOK, Loosen
  PROVE  /\ epoch' \in Nat /\ claimAt' \in [Proc -> Nat] /\ firm' \in BOOLEAN
         /\ astray' \in SUBSET {"claim", "return", "result"}
<1>1. epoch' = epoch /\ claimAt' = claimAt /\ astray' = astray
  BY DEF Loosen
<1>2. firm' \in BOOLEAN
  BY DEF Loosen
<1>. QED BY <1>1, <1>2 DEF TypeOK

LEMMA GhostType ==
  ASSUME TypeOK, UNCHANGED ghost
  PROVE  /\ epoch' \in Nat /\ claimAt' \in [Proc -> Nat] /\ firm' \in BOOLEAN
         /\ astray' \in SUBSET {"claim", "return", "result"}
<1>1. epoch' = epoch /\ claimAt' = claimAt /\ astray' = astray /\ firm' = firm
  BY DEF ghost
<1>. QED BY <1>1 DEF TypeOK

LEMMA LeaseType ==
  ASSUME TypeOK, NEW p \in Proc, CloseLease(p) \/ KeepLease(p)
  PROVE  /\ mutex' \in Proc \cup {NoProc}
         /\ pendingLease' \in [Proc -> BOOLEAN]
         /\ faults' \in Nat
<1>1. Disown(p) \in Proc \cup {NoProc} /\ mutex \in Proc \cup {NoProc}
  BY DEF Disown, TypeOK
<1>2. CASE CloseLease(p)
  BY <1>1, <1>2 DEF CloseLease, TypeOK, NoFault
<1>3. CASE KeepLease(p)
  BY <1>1, <1>3 DEF KeepLease, TypeOK, Fault
<1>. QED BY <1>2, <1>3

LEMMA AcquireType ==
  ASSUME TypeOK, NEW p \in Proc, Acquire(p) \/ GuardTimesOut \/ GuardFails
  PROVE  mutex' \in Proc \cup {NoProc} /\ faults' \in Nat
BY DEF TypeOK, Acquire, GuardTimesOut, GuardFails, NoFault, Fault

LEMMA WriteType ==
  ASSUME TypeOK, NEW p \in Proc, NEW m \in Markers, WriteDone(p, m) \/ WriteFails(p, m)
  PROVE  /\ marker' \in Markers /\ faults' \in Nat
         /\ strayMarker' \in [Proc -> Markers] /\ strayCache' \in [Proc -> BOOLEAN]
<1>1. marker' \in Markers /\ faults' \in Nat
  BY DEF TypeOK, WriteDone, WriteFails, AccessOk, AccessRefused, NoFault, Fault
<1>2. CASE AccessOk(p) \/ AccessRefused(p)
  BY <1>1, <1>2, StrayType
<1>3. CASE /\ strayMarker' = [strayMarker EXCEPT ![p] = m]
           /\ strayCache' = [strayCache EXCEPT ![p] = FALSE]
  BY <1>1, <1>3 DEF TypeOK
<1>. QED BY <1>2, <1>3 DEF WriteDone, WriteFails

(***************************************************************************)
(* Type correctness.                                                       *)
(***************************************************************************)
LEMMA TypeStep == TypeOK /\ [Next]_vars => TypeOK'
<1> SUFFICES ASSUME TypeOK, [Next]_vars PROVE TypeOK'
  OBVIOUS
<1> USE ConstantsAssumption, LabelFacts, OutcomeFacts, MarkerFacts,
        GotoType, ResultType, ReturnType, FailureCodeType, FaultType, StrayType, LoosenType, LeaseType, AcquireType, WriteType
<1> USE DEF TypeOK, locals, counts, ghost, files, pending, strays
<1>1. ASSUME NEW p \in Proc, Reclose(p) PROVE TypeOK'
  BY <1>1 DEF Reclose
<1>2. ASSUME NEW p \in Proc, Lookup(p) PROVE TypeOK'
  BY <1>2 DEF Lookup
<1>3. ASSUME NEW p \in Proc, Loop(p) PROVE TypeOK'
  BY <1>3 DEF Loop
<1>4. ASSUME NEW p \in Proc, InspectPendingLease(p) PROVE TypeOK'
  BY <1>4 DEF InspectPendingLease
<1>5. ASSUME NEW p \in Proc, RecoverAcquire(p) PROVE TypeOK'
  BY <1>5 DEF RecoverAcquire
<1>6. ASSUME NEW p \in Proc, RecoverRead(p) PROVE TypeOK'
  BY <1>6 DEF RecoverRead
<1>7. ASSUME NEW p \in Proc, RecoverRetire(p) PROVE TypeOK'
  BY <1>7 DEF RecoverRetire
<1>8. ASSUME NEW p \in Proc, RecoverRelease(p) PROVE TypeOK'
  BY <1>8 DEF RecoverRelease
<1>9. ASSUME NEW p \in Proc, InspectAcquire(p) PROVE TypeOK'
  BY <1>9 DEF InspectAcquire
<1>10. ASSUME NEW p \in Proc, FinalLookup(p) PROVE TypeOK'
  BY <1>10 DEF FinalLookup
<1>11. ASSUME NEW p \in Proc, InspectLoad(p) PROVE TypeOK'
  BY <1>11 DEF InspectLoad
<1>12. ASSUME NEW p \in Proc, InspectMarker(p) PROVE TypeOK'
  BY <1>12 DEF InspectMarker
<1>13. ASSUME NEW p \in Proc, JudgeOwner(p) PROVE TypeOK'
  BY <1>13 DEF JudgeOwner
<1>14. ASSUME NEW p \in Proc, Claim(p) PROVE TypeOK'
  <2>1. NewClaim(p) \in Markers /\ view[p].gen + 1 \in Nat
    <3>1. view[p] \in Markers
      OBVIOUS
    <3>. QED BY ONLY <3>1, p \in Proc DEF NewClaim, Markers
  <2>2. /\ marker' \in Markers /\ faults' \in Nat
        /\ strayMarker' \in [Proc -> Markers] /\ strayCache' \in [Proc -> BOOLEAN]
    BY <1>14, <2>1 DEF Claim
  <2>3. epoch' \in Nat /\ claimAt' \in [Proc -> Nat] /\ firm' \in BOOLEAN
        /\ astray' \in SUBSET {"claim", "return", "result"}
    <3>1. CASE CountClaim(p)
      <4>1. epoch' \in Nat /\ claimAt' \in [Proc -> Nat] /\ astray' = astray
        BY <3>1 DEF CountClaim
      <4>2. firm' \in BOOLEAN
        BY <3>1 DEF CountClaim
      <4>. QED BY <4>1, <4>2
    <3>2. CASE UNCHANGED ghost
      BY <3>2, GhostType
    <3>. QED BY <1>14, <3>1, <3>2 DEF Claim
  <2>4. pc' \in [Proc -> Labels] /\ claim' \in [Proc -> Nat] /\ outcome' \in [Proc -> Outcomes]
    BY <1>14, <2>1 DEF Claim
  <2>. QED BY <1>14, <2>2, <2>3, <2>4 DEF Claim
<1>15. ASSUME NEW p \in Proc, ReleaseInspection(p) PROVE TypeOK'
  <2>1. CloseLease(p) /\ UNCHANGED <<strays, life, files, pendingClaim, counts, ghost>>
    BY <1>15 DEF ReleaseInspection
  <2>2. CASE \E value \in Outcomes : Return(p, value)
    BY <2>1, <2>2
  <2>3. CASE /\ Goto(p, "loop")
             /\ attempts' = [attempts EXCEPT ![p] = Waited(p)]
             /\ view' = [view EXCEPT ![p] = NoMarker]
             /\ UNCHANGED <<outcome, claim, late, doc>>
    BY <2>1, <2>3 DEF Waited
  <2>4. CASE Goto(p, "produce") /\ UNCHANGED <<outcome, locals>>
    BY <2>1, <2>4
  <2>. QED BY <1>15, <2>2, <2>3, <2>4 DEF ReleaseInspection
<1>16. ASSUME NEW p \in Proc, ReleaseInspectionFails(p) PROVE TypeOK'
  BY <1>16 DEF ReleaseInspectionFails
<1>17. ASSUME NEW p \in Proc, Produce(p) PROVE TypeOK'
  BY <1>17 DEF Produce
<1>18. ASSUME NEW p \in Proc, ProducerRaises(p) PROVE TypeOK'
  BY <1>18 DEF ProducerRaises
<1>19. ASSUME NEW p \in Proc, FinishAcquire(p) PROVE TypeOK'
  <2>1. mutex' \in Proc \cup {NoProc} /\ faults' \in Nat /\ pendingClaim' \in [Proc -> Nat]
    BY <1>19 DEF FinishAcquire
  <2>2. CASE Goto(p, "finish_read") /\ UNCHANGED <<outcome, locals>>
    BY <1>19, <2>1, <2>2 DEF FinishAcquire
  <2>3. CASE Return(p, outcome[p])
    BY <1>19, <2>1, <2>3 DEF FinishAcquire
  <2>. QED BY <1>19, <2>2, <2>3 DEF FinishAcquire
<1>20. ASSUME NEW p \in Proc, FinishRead(p) PROVE TypeOK'
  BY <1>20 DEF FinishRead
<1>21. ASSUME NEW p \in Proc, FinishPublish(p) PROVE TypeOK'
  <2>1. Fresh(p) \in [at : Nat, fresh : BOOLEAN]
    BY DEF Fresh
  <2>2. cache' \in [at : Nat, fresh : BOOLEAN] /\ faults' \in Nat
    BY <1>21, <2>1 DEF FinishPublish, AccessOk, AccessRefused, NoFault, Fault
  <2>4. strayMarker' \in [Proc -> Markers] /\ strayCache' \in [Proc -> BOOLEAN]
    <3>1. CASE AccessOk(p) \/ AccessRefused(p) \/ UNCHANGED strays
      BY <3>1, StrayType
    <3>2. CASE /\ strayMarker' = [strayMarker EXCEPT ![p] = NoMarker]
               /\ strayCache' = [strayCache EXCEPT ![p] = TRUE]
      BY <3>2
    <3>. QED BY <1>21, <3>1, <3>2 DEF FinishPublish
  <2>3. pc' \in [Proc -> Labels] /\ outcome' \in [Proc -> Outcomes]
    BY <1>21 DEF FinishPublish
  <2>. QED BY <1>21, <2>2, <2>3, <2>4 DEF FinishPublish
<1>22. ASSUME NEW p \in Proc, FinishRetire(p) PROVE TypeOK'
  <2>1. Inactive(claim[p]) \in Markers /\ Unpublished(p) \in Outcomes
    BY DEF Unpublished
  <2>2. /\ marker' \in Markers /\ faults' \in Nat
        /\ strayMarker' \in [Proc -> Markers] /\ strayCache' \in [Proc -> BOOLEAN]
    BY <1>22, <2>1 DEF FinishRetire
  <2>3. pendingClaim' \in [Proc -> Nat] /\ outcome' \in [Proc -> Outcomes] /\ pc' \in [Proc -> Labels]
    BY <1>22, <2>1 DEF FinishRetire
  <2>4. /\ epoch' \in Nat /\ claimAt' \in [Proc -> Nat] /\ firm' \in BOOLEAN
        /\ astray' \in SUBSET {"claim", "return", "result"}
    BY <1>22, GhostType, LoosenType DEF FinishRetire
  <2>. QED BY <1>22, <2>2, <2>3, <2>4 DEF FinishRetire
<1>23. ASSUME NEW p \in Proc, FinishRelease(p) PROVE TypeOK'
  BY <1>23 DEF FinishRelease, Unpublished
<1>24. ASSUME NEW p \in Proc, Start(p) PROVE TypeOK'
  BY <1>24 DEF Start
<1>25. ASSUME NEW p \in Proc, Call(p) PROVE TypeOK'
  BY <1>25 DEF Call
<1>26. ASSUME NEW p \in Proc, Terminate(p) PROVE TypeOK'
  BY <1>26 DEF Terminate
<1>27. ASSUME NEW p \in Proc, LastHandleClosed(p) PROVE TypeOK'
  BY <1>27 DEF LastHandleClosed
<1>28. ASSUME NEW p \in Proc, Exhaust(p) PROVE TypeOK'
  BY <1>28 DEF Exhaust
<1>29. CASE Expire
  BY <1>29 DEF Expire, vars
<1>30. CASE Erase
  BY <1>30 DEF Erase, vars
<1>31. CASE Over
  BY <1>31 DEF Over, vars
<1>33. ASSUME NEW p \in Proc, Land(p) PROVE TypeOK'
  <2>1. Fresh(p) \in [at : Nat, fresh : BOOLEAN] /\ Write(p) \in {"claim", "return", "result"}
    BY DEF Fresh, Write
  <2>2. astray' \in SUBSET {"claim", "return", "result"}
    BY <1>33, <2>1 DEF Land
  <2>3. cache' \in [at : Nat, fresh : BOOLEAN] /\ marker' \in Markers
    BY <1>33, <2>1 DEF Land
  <2>4. firm' \in BOOLEAN
    <3>1. CASE firm' = FALSE
      BY <3>1
    <3>2. CASE firm' = firm
      BY <3>2
    <3>. QED BY <1>33, <3>1, <3>2 DEF Land
  <2>. QED BY <1>33, <2>2, <2>3, <2>4 DEF Land
<1>32. CASE UNCHANGED vars
  BY <1>32 DEF vars
<1>. QED
  BY <1>1, <1>2, <1>3, <1>4, <1>5, <1>6, <1>7, <1>8, <1>9, <1>10, <1>11, <1>12, <1>13, <1>14, <1>15, <1>16, <1>17, <1>18, <1>19, <1>20, <1>21, <1>22, <1>23, <1>24, <1>25, <1>26, <1>27, <1>28, <1>29, <1>30, <1>31, <1>32, <1>33 DEF Next, Step, Environment

(***************************************************************************)
(* Every part of the invariant is kept by every action.                    *)
(***************************************************************************)
LEMMA CallRunsStep ==
  ASSUME TypeOK, IInv, [Next]_vars
  PROVE  CallRuns'
<1> USE ConstantsAssumption DEF TypeOK, Markers, CallRuns,
  Goto, Result, Return, EndLocals, CloseLease, KeepLease, Disown, Acquire, GuardTimesOut, GuardFails, Running, Present, MutexFree, locals, pending, counts, ghost, files
<1>0. CallRuns
  BY DEF IInv
<1>1. ASSUME NEW p \in Proc, Reclose(p) PROVE CallRuns'
  BY <1>0, <1>1 DEF Reclose
<1>2. ASSUME NEW p \in Proc, Lookup(p) PROVE CallRuns'
  BY <1>0, <1>2 DEF Lookup
<1>3. ASSUME NEW p \in Proc, Loop(p) PROVE CallRuns'
  BY <1>0, <1>3 DEF Loop
<1>4. ASSUME NEW p \in Proc, InspectPendingLease(p) PROVE CallRuns'
  BY <1>0, <1>4 DEF InspectPendingLease
<1>5. ASSUME NEW p \in Proc, RecoverAcquire(p) PROVE CallRuns'
  BY <1>0, <1>5 DEF RecoverAcquire
<1>6. ASSUME NEW p \in Proc, RecoverRead(p) PROVE CallRuns'
  BY <1>0, <1>6 DEF RecoverRead, SameClaim
<1>7. ASSUME NEW p \in Proc, RecoverRetire(p) PROVE CallRuns'
  BY <1>0, <1>7 DEF RecoverRetire, WriteDone, WriteFails, Inactive, Loosen
<1>8. ASSUME NEW p \in Proc, RecoverRelease(p) PROVE CallRuns'
  BY <1>0, <1>8 DEF RecoverRelease
<1>9. ASSUME NEW p \in Proc, InspectAcquire(p) PROVE CallRuns'
  BY <1>0, <1>9 DEF InspectAcquire
<1>10. ASSUME NEW p \in Proc, FinalLookup(p) PROVE CallRuns'
  BY <1>0, <1>10 DEF FinalLookup
<1>11. ASSUME NEW p \in Proc, InspectLoad(p) PROVE CallRuns'
  BY <1>0, <1>11 DEF InspectLoad
<1>12. ASSUME NEW p \in Proc, InspectMarker(p) PROVE CallRuns'
  BY <1>0, <1>12 DEF InspectMarker
<1>13. ASSUME NEW p \in Proc, JudgeOwner(p) PROVE CallRuns'
  BY <1>0, <1>13 DEF JudgeOwner, OwnerState
<1>14. ASSUME NEW p \in Proc, Claim(p) PROVE CallRuns'
  BY <1>0, <1>14 DEF Claim, WriteDone, WriteFails, NewClaim, CountClaim, SameClaim, Inactive
<1>15. ASSUME NEW p \in Proc, ReleaseInspection(p) PROVE CallRuns'
  BY <1>0, <1>15 DEF ReleaseInspection
<1>16. ASSUME NEW p \in Proc, ReleaseInspectionFails(p) PROVE CallRuns'
  BY <1>0, <1>16 DEF ReleaseInspectionFails
<1>17. ASSUME NEW p \in Proc, Produce(p) PROVE CallRuns'
  BY <1>0, <1>17 DEF Produce
<1>18. ASSUME NEW p \in Proc, ProducerRaises(p) PROVE CallRuns'
  BY <1>0, <1>18 DEF ProducerRaises
<1>19. ASSUME NEW p \in Proc, FinishAcquire(p) PROVE CallRuns'
  BY <1>0, <1>19 DEF FinishAcquire
<1>20. ASSUME NEW p \in Proc, FinishRead(p) PROVE CallRuns'
  BY <1>0, <1>20 DEF FinishRead, SameClaim
<1>21. ASSUME NEW p \in Proc, FinishPublish(p) PROVE CallRuns'
  BY <1>0, <1>21 DEF FinishPublish
<1>22. ASSUME NEW p \in Proc, FinishRetire(p) PROVE CallRuns'
  BY <1>0, <1>22 DEF FinishRetire, WriteDone, WriteFails, Inactive, Loosen
<1>23. ASSUME NEW p \in Proc, FinishRelease(p) PROVE CallRuns'
  BY <1>0, <1>23 DEF FinishRelease
<1>24. ASSUME NEW p \in Proc, Start(p) PROVE CallRuns'
  BY <1>0, <1>24 DEF Start
<1>25. ASSUME NEW p \in Proc, Call(p) PROVE CallRuns'
  BY <1>0, <1>25 DEF Call
<1>26. ASSUME NEW p \in Proc, Terminate(p) PROVE CallRuns'
  BY <1>0, <1>26 DEF Terminate
<1>27. ASSUME NEW p \in Proc, LastHandleClosed(p) PROVE CallRuns'
  BY <1>0, <1>27 DEF LastHandleClosed
<1>28. ASSUME NEW p \in Proc, Exhaust(p) PROVE CallRuns'
  BY <1>0, <1>28 DEF Exhaust
<1>33. ASSUME NEW p \in Proc, Land(p) PROVE CallRuns'
  BY <1>0, <1>33 DEF Land
<1>29. CASE Expire
  BY <1>0, <1>29 DEF Expire, vars, NoMarker
<1>30. CASE Erase
  BY <1>0, <1>30 DEF Erase, vars, Loosen, NoMarker
<1>31. CASE Over
  BY <1>0, <1>31 DEF Over, vars, NoMarker
<1>32. CASE UNCHANGED vars
  BY <1>0, <1>32 DEF vars
<1>. QED
  BY <1>1, <1>2, <1>3, <1>4, <1>5, <1>6, <1>7, <1>8, <1>9, <1>10, <1>11, <1>12, <1>13, <1>14, <1>15, <1>16, <1>17, <1>18, <1>19, <1>20, <1>21, <1>22, <1>23, <1>24, <1>25, <1>26, <1>27, <1>28, <1>29, <1>30, <1>31, <1>32, <1>33 DEF Next, Step, Environment

LEMMA LeaseHeldStep ==
  ASSUME TypeOK, IInv, [Next]_vars
  PROVE  LeaseHeld'
<1> USE ConstantsAssumption DEF TypeOK, Markers, CallRuns, LeaseHeld, CriticalLabels,
  Goto, Result, Return, EndLocals, CloseLease, KeepLease, Disown, Acquire, GuardTimesOut, GuardFails, Running, Present, MutexFree, locals, pending, counts, ghost, files
<1>0. CallRuns /\ LeaseHeld
  BY DEF IInv
<1>1. ASSUME NEW p \in Proc, Reclose(p) PROVE LeaseHeld'
  BY <1>0, <1>1 DEF Reclose
<1>2. ASSUME NEW p \in Proc, Lookup(p) PROVE LeaseHeld'
  BY <1>0, <1>2 DEF Lookup
<1>3. ASSUME NEW p \in Proc, Loop(p) PROVE LeaseHeld'
  BY <1>0, <1>3 DEF Loop
<1>4. ASSUME NEW p \in Proc, InspectPendingLease(p) PROVE LeaseHeld'
  BY <1>0, <1>4 DEF InspectPendingLease
<1>5. ASSUME NEW p \in Proc, RecoverAcquire(p) PROVE LeaseHeld'
  BY <1>0, <1>5 DEF RecoverAcquire
<1>6. ASSUME NEW p \in Proc, RecoverRead(p) PROVE LeaseHeld'
  BY <1>0, <1>6 DEF RecoverRead, SameClaim
<1>7. ASSUME NEW p \in Proc, RecoverRetire(p) PROVE LeaseHeld'
  BY <1>0, <1>7 DEF RecoverRetire, WriteDone, WriteFails, Inactive, Loosen
<1>8. ASSUME NEW p \in Proc, RecoverRelease(p) PROVE LeaseHeld'
  BY <1>0, <1>8 DEF RecoverRelease
<1>9. ASSUME NEW p \in Proc, InspectAcquire(p) PROVE LeaseHeld'
  BY <1>0, <1>9 DEF InspectAcquire
<1>10. ASSUME NEW p \in Proc, FinalLookup(p) PROVE LeaseHeld'
  BY <1>0, <1>10 DEF FinalLookup
<1>11. ASSUME NEW p \in Proc, InspectLoad(p) PROVE LeaseHeld'
  BY <1>0, <1>11 DEF InspectLoad
<1>12. ASSUME NEW p \in Proc, InspectMarker(p) PROVE LeaseHeld'
  BY <1>0, <1>12 DEF InspectMarker
<1>13. ASSUME NEW p \in Proc, JudgeOwner(p) PROVE LeaseHeld'
  BY <1>0, <1>13 DEF JudgeOwner, OwnerState
<1>14. ASSUME NEW p \in Proc, Claim(p) PROVE LeaseHeld'
  BY <1>0, <1>14 DEF Claim, WriteDone, WriteFails, NewClaim, CountClaim, SameClaim, Inactive
<1>15. ASSUME NEW p \in Proc, ReleaseInspection(p) PROVE LeaseHeld'
  BY <1>0, <1>15 DEF ReleaseInspection
<1>16. ASSUME NEW p \in Proc, ReleaseInspectionFails(p) PROVE LeaseHeld'
  BY <1>0, <1>16 DEF ReleaseInspectionFails
<1>17. ASSUME NEW p \in Proc, Produce(p) PROVE LeaseHeld'
  BY <1>0, <1>17 DEF Produce
<1>18. ASSUME NEW p \in Proc, ProducerRaises(p) PROVE LeaseHeld'
  BY <1>0, <1>18 DEF ProducerRaises
<1>19. ASSUME NEW p \in Proc, FinishAcquire(p) PROVE LeaseHeld'
  BY <1>0, <1>19 DEF FinishAcquire
<1>20. ASSUME NEW p \in Proc, FinishRead(p) PROVE LeaseHeld'
  BY <1>0, <1>20 DEF FinishRead, SameClaim
<1>21. ASSUME NEW p \in Proc, FinishPublish(p) PROVE LeaseHeld'
  BY <1>0, <1>21 DEF FinishPublish
<1>22. ASSUME NEW p \in Proc, FinishRetire(p) PROVE LeaseHeld'
  BY <1>0, <1>22 DEF FinishRetire, WriteDone, WriteFails, Inactive, Loosen
<1>23. ASSUME NEW p \in Proc, FinishRelease(p) PROVE LeaseHeld'
  BY <1>0, <1>23 DEF FinishRelease
<1>24. ASSUME NEW p \in Proc, Start(p) PROVE LeaseHeld'
  BY <1>0, <1>24 DEF Start
<1>25. ASSUME NEW p \in Proc, Call(p) PROVE LeaseHeld'
  BY <1>0, <1>25 DEF Call
<1>26. ASSUME NEW p \in Proc, Terminate(p) PROVE LeaseHeld'
  BY <1>0, <1>26 DEF Terminate
<1>27. ASSUME NEW p \in Proc, LastHandleClosed(p) PROVE LeaseHeld'
  BY <1>0, <1>27 DEF LastHandleClosed
<1>28. ASSUME NEW p \in Proc, Exhaust(p) PROVE LeaseHeld'
  BY <1>0, <1>28 DEF Exhaust
<1>33. ASSUME NEW p \in Proc, Land(p) PROVE LeaseHeld'
  BY <1>0, <1>33 DEF Land
<1>29. CASE Expire
  BY <1>0, <1>29 DEF Expire, vars, NoMarker
<1>30. CASE Erase
  BY <1>0, <1>30 DEF Erase, vars, Loosen, NoMarker
<1>31. CASE Over
  BY <1>0, <1>31 DEF Over, vars, NoMarker
<1>32. CASE UNCHANGED vars
  BY <1>0, <1>32 DEF vars
<1>. QED
  BY <1>1, <1>2, <1>3, <1>4, <1>5, <1>6, <1>7, <1>8, <1>9, <1>10, <1>11, <1>12, <1>13, <1>14, <1>15, <1>16, <1>17, <1>18, <1>19, <1>20, <1>21, <1>22, <1>23, <1>24, <1>25, <1>26, <1>27, <1>28, <1>29, <1>30, <1>31, <1>32, <1>33 DEF Next, Step, Environment

LEMMA OwnerHasLivedStep ==
  ASSUME TypeOK, IInv, [Next]_vars
  PROVE  OwnerHasLived'
<1> USE ConstantsAssumption DEF TypeOK, Markers, CallRuns, MarkerKnown, OwnerHasLived, NoMarker,
  Goto, Result, Return, EndLocals, CloseLease, KeepLease, Disown, Acquire, GuardTimesOut, GuardFails, Running, Present, MutexFree, locals, pending, counts, ghost, files
<1>0. CallRuns /\ MarkerKnown /\ OwnerHasLived /\ StraysKnown
  BY DEF IInv
<1>1. ASSUME NEW p \in Proc, Reclose(p) PROVE OwnerHasLived'
  BY <1>0, <1>1 DEF Reclose
<1>2. ASSUME NEW p \in Proc, Lookup(p) PROVE OwnerHasLived'
  BY <1>0, <1>2 DEF Lookup
<1>3. ASSUME NEW p \in Proc, Loop(p) PROVE OwnerHasLived'
  BY <1>0, <1>3 DEF Loop
<1>4. ASSUME NEW p \in Proc, InspectPendingLease(p) PROVE OwnerHasLived'
  BY <1>0, <1>4 DEF InspectPendingLease
<1>5. ASSUME NEW p \in Proc, RecoverAcquire(p) PROVE OwnerHasLived'
  BY <1>0, <1>5 DEF RecoverAcquire
<1>6. ASSUME NEW p \in Proc, RecoverRead(p) PROVE OwnerHasLived'
  BY <1>0, <1>6 DEF RecoverRead, SameClaim
<1>7. ASSUME NEW p \in Proc, RecoverRetire(p) PROVE OwnerHasLived'
  BY <1>0, <1>7 DEF RecoverRetire, WriteDone, WriteFails, Inactive, Loosen
<1>8. ASSUME NEW p \in Proc, RecoverRelease(p) PROVE OwnerHasLived'
  BY <1>0, <1>8 DEF RecoverRelease
<1>9. ASSUME NEW p \in Proc, InspectAcquire(p) PROVE OwnerHasLived'
  BY <1>0, <1>9 DEF InspectAcquire
<1>10. ASSUME NEW p \in Proc, FinalLookup(p) PROVE OwnerHasLived'
  BY <1>0, <1>10 DEF FinalLookup
<1>11. ASSUME NEW p \in Proc, InspectLoad(p) PROVE OwnerHasLived'
  BY <1>0, <1>11 DEF InspectLoad
<1>12. ASSUME NEW p \in Proc, InspectMarker(p) PROVE OwnerHasLived'
  BY <1>0, <1>12 DEF InspectMarker
<1>13. ASSUME NEW p \in Proc, JudgeOwner(p) PROVE OwnerHasLived'
  BY <1>0, <1>13 DEF JudgeOwner, OwnerState
<1>14. ASSUME NEW p \in Proc, Claim(p) PROVE OwnerHasLived'
  BY <1>0, <1>14 DEF Claim, WriteDone, WriteFails, NewClaim, CountClaim, SameClaim, Inactive
<1>15. ASSUME NEW p \in Proc, ReleaseInspection(p) PROVE OwnerHasLived'
  BY <1>0, <1>15 DEF ReleaseInspection
<1>16. ASSUME NEW p \in Proc, ReleaseInspectionFails(p) PROVE OwnerHasLived'
  BY <1>0, <1>16 DEF ReleaseInspectionFails
<1>17. ASSUME NEW p \in Proc, Produce(p) PROVE OwnerHasLived'
  BY <1>0, <1>17 DEF Produce
<1>18. ASSUME NEW p \in Proc, ProducerRaises(p) PROVE OwnerHasLived'
  BY <1>0, <1>18 DEF ProducerRaises
<1>19. ASSUME NEW p \in Proc, FinishAcquire(p) PROVE OwnerHasLived'
  BY <1>0, <1>19 DEF FinishAcquire
<1>20. ASSUME NEW p \in Proc, FinishRead(p) PROVE OwnerHasLived'
  BY <1>0, <1>20 DEF FinishRead, SameClaim
<1>21. ASSUME NEW p \in Proc, FinishPublish(p) PROVE OwnerHasLived'
  BY <1>0, <1>21 DEF FinishPublish
<1>22. ASSUME NEW p \in Proc, FinishRetire(p) PROVE OwnerHasLived'
  BY <1>0, <1>22 DEF FinishRetire, WriteDone, WriteFails, Inactive, Loosen
<1>23. ASSUME NEW p \in Proc, FinishRelease(p) PROVE OwnerHasLived'
  BY <1>0, <1>23 DEF FinishRelease
<1>24. ASSUME NEW p \in Proc, Start(p) PROVE OwnerHasLived'
  BY <1>0, <1>24 DEF Start
<1>25. ASSUME NEW p \in Proc, Call(p) PROVE OwnerHasLived'
  BY <1>0, <1>25 DEF Call
<1>26. ASSUME NEW p \in Proc, Terminate(p) PROVE OwnerHasLived'
  BY <1>0, <1>26 DEF Terminate
<1>27. ASSUME NEW p \in Proc, LastHandleClosed(p) PROVE OwnerHasLived'
  BY <1>0, <1>27 DEF LastHandleClosed
<1>28. ASSUME NEW p \in Proc, Exhaust(p) PROVE OwnerHasLived'
  BY <1>0, <1>28 DEF Exhaust
<1>33. ASSUME NEW p \in Proc, Land(p) PROVE OwnerHasLived'
  BY <1>0, <1>33 DEF Land, StraysKnown, Loose
<1>29. CASE Expire
  BY <1>0, <1>29 DEF Expire, vars, NoMarker
<1>30. CASE Erase
  BY <1>0, <1>30 DEF Erase, vars, Loosen, NoMarker
<1>31. CASE Over
  BY <1>0, <1>31 DEF Over, vars, NoMarker
<1>32. CASE UNCHANGED vars
  BY <1>0, <1>32 DEF vars
<1>. QED
  BY <1>1, <1>2, <1>3, <1>4, <1>5, <1>6, <1>7, <1>8, <1>9, <1>10, <1>11, <1>12, <1>13, <1>14, <1>15, <1>16, <1>17, <1>18, <1>19, <1>20, <1>21, <1>22, <1>23, <1>24, <1>25, <1>26, <1>27, <1>28, <1>29, <1>30, <1>31, <1>32, <1>33 DEF Next, Step, Environment

LEMMA MarkerKnownStep ==
  ASSUME TypeOK, IInv, [Next]_vars
  PROVE  MarkerKnown'
<1> USE ConstantsAssumption DEF TypeOK, Markers, CallRuns, LeaseHeld, OwnerHasLived, MarkerKnown, NoMarker, CriticalLabels,
  Goto, Result, Return, EndLocals, CloseLease, KeepLease, Disown, Acquire, GuardTimesOut, GuardFails, Running, Present, MutexFree, locals, pending, counts, ghost, files
<1>0. CallRuns /\ LeaseHeld /\ OwnerHasLived /\ MarkerKnown /\ StraysKnown
  BY DEF IInv
<1>1. ASSUME NEW p \in Proc, Reclose(p) PROVE MarkerKnown'
  BY <1>0, <1>1 DEF Reclose
<1>2. ASSUME NEW p \in Proc, Lookup(p) PROVE MarkerKnown'
  BY <1>0, <1>2 DEF Lookup
<1>3. ASSUME NEW p \in Proc, Loop(p) PROVE MarkerKnown'
  BY <1>0, <1>3 DEF Loop
<1>4. ASSUME NEW p \in Proc, InspectPendingLease(p) PROVE MarkerKnown'
  BY <1>0, <1>4 DEF InspectPendingLease
<1>5. ASSUME NEW p \in Proc, RecoverAcquire(p) PROVE MarkerKnown'
  BY <1>0, <1>5 DEF RecoverAcquire
<1>6. ASSUME NEW p \in Proc, RecoverRead(p) PROVE MarkerKnown'
  BY <1>0, <1>6 DEF RecoverRead, SameClaim
<1>7. ASSUME NEW p \in Proc, RecoverRetire(p) PROVE MarkerKnown'
  BY <1>0, <1>7 DEF RecoverRetire, WriteDone, WriteFails, Inactive, Loosen
<1>8. ASSUME NEW p \in Proc, RecoverRelease(p) PROVE MarkerKnown'
  BY <1>0, <1>8 DEF RecoverRelease
<1>9. ASSUME NEW p \in Proc, InspectAcquire(p) PROVE MarkerKnown'
  BY <1>0, <1>9 DEF InspectAcquire
<1>10. ASSUME NEW p \in Proc, FinalLookup(p) PROVE MarkerKnown'
  BY <1>0, <1>10 DEF FinalLookup
<1>11. ASSUME NEW p \in Proc, InspectLoad(p) PROVE MarkerKnown'
  BY <1>0, <1>11 DEF InspectLoad
<1>12. ASSUME NEW p \in Proc, InspectMarker(p) PROVE MarkerKnown'
  BY <1>0, <1>12 DEF InspectMarker
<1>13. ASSUME NEW p \in Proc, JudgeOwner(p) PROVE MarkerKnown'
  BY <1>0, <1>13 DEF JudgeOwner, OwnerState
<1>14. ASSUME NEW p \in Proc, Claim(p) PROVE MarkerKnown'
  BY <1>0, <1>14 DEF Claim, WriteDone, WriteFails, NewClaim, CountClaim, SameClaim, Inactive
<1>15. ASSUME NEW p \in Proc, ReleaseInspection(p) PROVE MarkerKnown'
  BY <1>0, <1>15 DEF ReleaseInspection
<1>16. ASSUME NEW p \in Proc, ReleaseInspectionFails(p) PROVE MarkerKnown'
  BY <1>0, <1>16 DEF ReleaseInspectionFails
<1>17. ASSUME NEW p \in Proc, Produce(p) PROVE MarkerKnown'
  BY <1>0, <1>17 DEF Produce
<1>18. ASSUME NEW p \in Proc, ProducerRaises(p) PROVE MarkerKnown'
  BY <1>0, <1>18 DEF ProducerRaises
<1>19. ASSUME NEW p \in Proc, FinishAcquire(p) PROVE MarkerKnown'
  BY <1>0, <1>19 DEF FinishAcquire
<1>20. ASSUME NEW p \in Proc, FinishRead(p) PROVE MarkerKnown'
  BY <1>0, <1>20 DEF FinishRead, SameClaim
<1>21. ASSUME NEW p \in Proc, FinishPublish(p) PROVE MarkerKnown'
  BY <1>0, <1>21 DEF FinishPublish
<1>22. ASSUME NEW p \in Proc, FinishRetire(p) PROVE MarkerKnown'
  BY <1>0, <1>22 DEF FinishRetire, WriteDone, WriteFails, Inactive, Loosen
<1>23. ASSUME NEW p \in Proc, FinishRelease(p) PROVE MarkerKnown'
  BY ONLY <1>0, <1>23, TypeOK, FinishReleaseLocal DEF MarkerKnown, Present, ghost
<1>24. ASSUME NEW p \in Proc, Start(p) PROVE MarkerKnown'
  BY <1>0, <1>24 DEF Start
<1>25. ASSUME NEW p \in Proc, Call(p) PROVE MarkerKnown'
  BY <1>0, <1>25 DEF Call
<1>26. ASSUME NEW p \in Proc, Terminate(p) PROVE MarkerKnown'
  BY <1>0, <1>26 DEF Terminate
<1>27. ASSUME NEW p \in Proc, LastHandleClosed(p) PROVE MarkerKnown'
  BY <1>0, <1>27 DEF LastHandleClosed
<1>28. ASSUME NEW p \in Proc, Exhaust(p) PROVE MarkerKnown'
  BY <1>0, <1>28 DEF Exhaust
<1>33. ASSUME NEW p \in Proc, Land(p) PROVE MarkerKnown'
  <2>1. UNCHANGED <<life, pc, view>> /\ Loose(p) /\ astray \subseteq astray'
    BY <1>33 DEF Land
  <2>2. CASE strayCache[p]
    BY <1>0, <1>33, <2>1, <2>2 DEF Land
  <2>3. CASE ~strayCache[p]
    <3>1. marker' = strayMarker[p] /\ firm' = FALSE /\ marker'.owner \in {p, NoProc}
      BY <1>0, <1>33, <2>1, <2>3 DEF Land, StraysKnown, Loose
    <3>2. ~InTime(p) => IF marker'.owner = NoProc THEN "return" \in astray' ELSE "claim" \in astray'
      BY <1>33, <2>3, <3>1 DEF Land, Write
    <3>3. \A q \in Proc : pc[q] \in {"judge", "claim"} => ~InTime(p)
      BY <1>0 DEF InTime
    <3>. QED BY <1>0, <2>1, <3>1, <3>2, <3>3
  <2>. QED BY <2>2, <2>3
<1>29. CASE Expire
  BY <1>0, <1>29 DEF Expire, vars, NoMarker
<1>30. CASE Erase
  BY <1>0, <1>30 DEF Erase, vars, Loosen, NoMarker
<1>31. CASE Over
  BY <1>0, <1>31 DEF Over, vars, NoMarker
<1>32. CASE UNCHANGED vars
  BY <1>0, <1>32 DEF vars
<1>. QED
  BY <1>1, <1>2, <1>3, <1>4, <1>5, <1>6, <1>7, <1>8, <1>9, <1>10, <1>11, <1>12, <1>13, <1>14, <1>15, <1>16, <1>17, <1>18, <1>19, <1>20, <1>21, <1>22, <1>23, <1>24, <1>25, <1>26, <1>27, <1>28, <1>29, <1>30, <1>31, <1>32, <1>33 DEF Next, Step, Environment

LEMMA NewestClaimStep ==
  ASSUME TypeOK, IInv, [Next]_vars
  PROVE  NewestClaim'
<1> USE ConstantsAssumption DEF TypeOK, Markers, LeaseHeld, MarkerKnown, NewestClaim, NoMarker, ClaimLabels, SameClaim,
  Goto, Result, Return, EndLocals, CloseLease, KeepLease, Disown, Acquire, GuardTimesOut, GuardFails, Running, Present, MutexFree, locals, pending, counts, ghost, files
<1>0. LeaseHeld /\ MarkerKnown /\ NewestClaim /\ StraysKnown
  BY DEF IInv
<1>1. ASSUME NEW p \in Proc, Reclose(p) PROVE NewestClaim'
  BY ONLY <1>0, <1>1, TypeOK, RecloseLocal DEF NewestClaim, ClaimLabels, SameClaim, ghost
<1>2. ASSUME NEW p \in Proc, Lookup(p) PROVE NewestClaim'
  BY <1>0, <1>2 DEF Lookup
<1>3. ASSUME NEW p \in Proc, Loop(p) PROVE NewestClaim'
  BY <1>0, <1>3 DEF Loop
<1>4. ASSUME NEW p \in Proc, InspectPendingLease(p) PROVE NewestClaim'
  BY <1>0, <1>4 DEF InspectPendingLease
<1>5. ASSUME NEW p \in Proc, RecoverAcquire(p) PROVE NewestClaim'
  BY <1>0, <1>5 DEF RecoverAcquire
<1>6. ASSUME NEW p \in Proc, RecoverRead(p) PROVE NewestClaim'
  BY <1>0, <1>6 DEF RecoverRead, SameClaim
<1>7. ASSUME NEW p \in Proc, RecoverRetire(p) PROVE NewestClaim'
  BY <1>0, <1>7 DEF RecoverRetire, WriteDone, WriteFails, Inactive, Loosen
<1>8. ASSUME NEW p \in Proc, RecoverRelease(p) PROVE NewestClaim'
  BY <1>0, <1>8 DEF RecoverRelease
<1>9. ASSUME NEW p \in Proc, InspectAcquire(p) PROVE NewestClaim'
  BY <1>0, <1>9 DEF InspectAcquire
<1>10. ASSUME NEW p \in Proc, FinalLookup(p) PROVE NewestClaim'
  BY <1>0, <1>10 DEF FinalLookup
<1>11. ASSUME NEW p \in Proc, InspectLoad(p) PROVE NewestClaim'
  BY <1>0, <1>11 DEF InspectLoad
<1>12. ASSUME NEW p \in Proc, InspectMarker(p) PROVE NewestClaim'
  BY <1>0, <1>12 DEF InspectMarker
<1>13. ASSUME NEW p \in Proc, JudgeOwner(p) PROVE NewestClaim'
  BY <1>0, <1>13 DEF JudgeOwner, OwnerState
<1>14. ASSUME NEW p \in Proc, Claim(p) PROVE NewestClaim'
  <2>1. \A q \in Proc : pc[q] \in CriticalLabels => q = p
    BY <1>0, <1>14 DEF Claim, CriticalLabels
  <2>2. \A q \in Proc : pc'[q] # "publish"
    BY <2>1, <1>14 DEF Claim, CriticalLabels
  <2>3. CASE WriteFails(p, NewClaim(p)) /\ Goto(p, "rel_fail") /\ UNCHANGED <<claim, ghost>>
    BY <1>0, <2>2, <2>3 DEF WriteFails
  <2>4. CASE WriteDone(p, NewClaim(p)) /\ CountClaim(p)
    <3>1. marker' = NewClaim(p)
      BY <2>4 DEF WriteDone
    <3>2. epoch' = epoch + 1 /\ claimAt' = [claimAt EXCEPT ![p] = epoch + 1]
      BY <2>4 DEF CountClaim
    <3>. QED BY <3>1, <3>2, <2>2 DEF NewClaim
  <2>. QED BY <1>14, <2>3, <2>4 DEF Claim
<1>15. ASSUME NEW p \in Proc, ReleaseInspection(p) PROVE NewestClaim'
  BY <1>0, <1>15 DEF ReleaseInspection
<1>16. ASSUME NEW p \in Proc, ReleaseInspectionFails(p) PROVE NewestClaim'
  BY <1>0, <1>16 DEF ReleaseInspectionFails
<1>17. ASSUME NEW p \in Proc, Produce(p) PROVE NewestClaim'
  BY <1>0, <1>17 DEF Produce
<1>18. ASSUME NEW p \in Proc, ProducerRaises(p) PROVE NewestClaim'
  BY <1>0, <1>18 DEF ProducerRaises
<1>19. ASSUME NEW p \in Proc, FinishAcquire(p) PROVE NewestClaim'
  BY <1>0, <1>19 DEF FinishAcquire
<1>20. ASSUME NEW p \in Proc, FinishRead(p) PROVE NewestClaim'
  BY <1>0, <1>20 DEF FinishRead, SameClaim
<1>21. ASSUME NEW p \in Proc, FinishPublish(p) PROVE NewestClaim'
  BY <1>0, <1>21 DEF FinishPublish
<1>22. ASSUME NEW p \in Proc, FinishRetire(p) PROVE NewestClaim'
  BY <1>0, <1>22 DEF FinishRetire, WriteDone, WriteFails, Inactive, Loosen
<1>23. ASSUME NEW p \in Proc, FinishRelease(p) PROVE NewestClaim'
  BY ONLY <1>0, <1>23, TypeOK, FinishReleaseLocal DEF NewestClaim, ClaimLabels, SameClaim, ghost
<1>24. ASSUME NEW p \in Proc, Start(p) PROVE NewestClaim'
  BY <1>0, <1>24 DEF Start
<1>25. ASSUME NEW p \in Proc, Call(p) PROVE NewestClaim'
  BY <1>0, <1>25 DEF Call
<1>26. ASSUME NEW p \in Proc, Terminate(p) PROVE NewestClaim'
  BY <1>0, <1>26 DEF Terminate
<1>27. ASSUME NEW p \in Proc, LastHandleClosed(p) PROVE NewestClaim'
  BY <1>0, <1>27 DEF LastHandleClosed
<1>28. ASSUME NEW p \in Proc, Exhaust(p) PROVE NewestClaim'
  BY <1>0, <1>28 DEF Exhaust
<1>33. ASSUME NEW p \in Proc, Land(p) PROVE NewestClaim'
  BY <1>0, <1>33 DEF Land, StraysKnown, Loose
<1>29. CASE Expire
  BY <1>0, <1>29 DEF Expire, vars, NoMarker
<1>30. CASE Erase
  BY <1>0, <1>30 DEF Erase, vars, Loosen, NoMarker
<1>31. CASE Over
  BY <1>0, <1>31 DEF Over, vars, NoMarker
<1>32. CASE UNCHANGED vars
  BY <1>0, <1>32 DEF vars
<1>. QED
  BY <1>1, <1>2, <1>3, <1>4, <1>5, <1>6, <1>7, <1>8, <1>9, <1>10, <1>11, <1>12, <1>13, <1>14, <1>15, <1>16, <1>17, <1>18, <1>19, <1>20, <1>21, <1>22, <1>23, <1>24, <1>25, <1>26, <1>27, <1>28, <1>29, <1>30, <1>31, <1>32, <1>33 DEF Next, Step, Environment

LEMMA StraysKnownStep ==
  ASSUME TypeOK, IInv, [Next]_vars
  PROVE  StraysKnown'
<1> USE ConstantsAssumption DEF TypeOK, Markers, CallRuns, StraysKnown, NoMarker, Inactive, NewClaim,
  Goto, Return, Running, pending, AccessOk, AccessRefused, AccessFails, EndStrays, Hit, Miss, strays, Loose
<1>0. CallRuns /\ StraysKnown
  BY DEF IInv
<1>1. ASSUME NEW p \in Proc, Reclose(p) PROVE StraysKnown'
  BY <1>0, <1>1 DEF Reclose
<1>2. ASSUME NEW p \in Proc, Lookup(p) PROVE StraysKnown'
  BY <1>0, <1>2 DEF Lookup
<1>3. ASSUME NEW p \in Proc, Loop(p) PROVE StraysKnown'
  BY <1>0, <1>3 DEF Loop
<1>4. ASSUME NEW p \in Proc, InspectPendingLease(p) PROVE StraysKnown'
  BY <1>0, <1>4 DEF InspectPendingLease
<1>5. ASSUME NEW p \in Proc, RecoverAcquire(p) PROVE StraysKnown'
  BY <1>0, <1>5 DEF RecoverAcquire
<1>6. ASSUME NEW p \in Proc, RecoverRead(p) PROVE StraysKnown'
  BY <1>0, <1>6 DEF RecoverRead, SameClaim
<1>7. ASSUME NEW p \in Proc, RecoverRetire(p) PROVE StraysKnown'
  BY <1>0, <1>7 DEF RecoverRetire, WriteDone, WriteFails, Inactive, Loosen
<1>8. ASSUME NEW p \in Proc, RecoverRelease(p) PROVE StraysKnown'
  BY <1>0, <1>8 DEF RecoverRelease
<1>9. ASSUME NEW p \in Proc, InspectAcquire(p) PROVE StraysKnown'
  BY <1>0, <1>9 DEF InspectAcquire
<1>10. ASSUME NEW p \in Proc, FinalLookup(p) PROVE StraysKnown'
  BY <1>0, <1>10 DEF FinalLookup
<1>11. ASSUME NEW p \in Proc, InspectLoad(p) PROVE StraysKnown'
  BY <1>0, <1>11 DEF InspectLoad
<1>12. ASSUME NEW p \in Proc, InspectMarker(p) PROVE StraysKnown'
  BY <1>0, <1>12 DEF InspectMarker
<1>13. ASSUME NEW p \in Proc, JudgeOwner(p) PROVE StraysKnown'
  BY <1>0, <1>13 DEF JudgeOwner, OwnerState
<1>14. ASSUME NEW p \in Proc, Claim(p) PROVE StraysKnown'
  BY <1>0, <1>14 DEF Claim, WriteDone, WriteFails, NewClaim, CountClaim, SameClaim, Inactive
<1>15. ASSUME NEW p \in Proc, ReleaseInspection(p) PROVE StraysKnown'
  BY <1>0, <1>15 DEF ReleaseInspection
<1>16. ASSUME NEW p \in Proc, ReleaseInspectionFails(p) PROVE StraysKnown'
  BY <1>0, <1>16 DEF ReleaseInspectionFails
<1>17. ASSUME NEW p \in Proc, Produce(p) PROVE StraysKnown'
  BY <1>0, <1>17 DEF Produce
<1>18. ASSUME NEW p \in Proc, ProducerRaises(p) PROVE StraysKnown'
  BY <1>0, <1>18 DEF ProducerRaises
<1>19. ASSUME NEW p \in Proc, FinishAcquire(p) PROVE StraysKnown'
  BY <1>0, <1>19 DEF FinishAcquire
<1>20. ASSUME NEW p \in Proc, FinishRead(p) PROVE StraysKnown'
  BY <1>0, <1>20 DEF FinishRead, SameClaim
<1>21. ASSUME NEW p \in Proc, FinishPublish(p) PROVE StraysKnown'
  BY <1>0, <1>21 DEF FinishPublish
<1>22. ASSUME NEW p \in Proc, FinishRetire(p) PROVE StraysKnown'
  BY <1>0, <1>22 DEF FinishRetire, WriteDone, WriteFails, Inactive, Loosen
<1>23. ASSUME NEW p \in Proc, FinishRelease(p) PROVE StraysKnown'
  BY <1>0, <1>23 DEF FinishRelease
<1>24. ASSUME NEW p \in Proc, Start(p) PROVE StraysKnown'
  BY <1>0, <1>24 DEF Start
<1>25. ASSUME NEW p \in Proc, Call(p) PROVE StraysKnown'
  BY <1>0, <1>25 DEF Call
<1>26. ASSUME NEW p \in Proc, Terminate(p) PROVE StraysKnown'
  BY <1>0, <1>26 DEF Terminate
<1>27. ASSUME NEW p \in Proc, LastHandleClosed(p) PROVE StraysKnown'
  BY <1>0, <1>27 DEF LastHandleClosed
<1>28. ASSUME NEW p \in Proc, Exhaust(p) PROVE StraysKnown'
  BY <1>0, <1>28 DEF Exhaust
<1>33. ASSUME NEW p \in Proc, Land(p) PROVE StraysKnown'
  BY <1>0, <1>33 DEF Land
<1>29. CASE Expire
  BY <1>0, <1>29 DEF Expire, vars, NoMarker
<1>30. CASE Erase
  BY <1>0, <1>30 DEF Erase, vars, Loosen, NoMarker
<1>31. CASE Over
  BY <1>0, <1>31 DEF Over, vars, NoMarker
<1>32. CASE UNCHANGED vars
  BY <1>0, <1>32 DEF vars
<1>. QED
  BY <1>1, <1>2, <1>3, <1>4, <1>5, <1>6, <1>7, <1>8, <1>9, <1>10, <1>11, <1>12, <1>13, <1>14, <1>15, <1>16, <1>17, <1>18, <1>19, <1>20, <1>21, <1>22, <1>23, <1>24, <1>25, <1>26, <1>27, <1>28, <1>29, <1>30, <1>31, <1>32, <1>33 DEF Next, Step, Environment

(***************************************************************************)
(* The inductive invariant and what follows from it.                       *)
(***************************************************************************)
LEMMA StraysHarmlessStep ==
  ASSUME TypeOK, IInv, [Next]_vars
  PROVE  StraysHarmless'
<1> USE ConstantsAssumption DEF TypeOK, Markers, CallRuns, LeaseHeld, StraysKnown, StraysHarmless, Undisturbed, OwnerHasLived,
  ProducerKeepsMarker, ClaimLabels, CriticalLabels, SameClaim, NoMarker, InTime,
  Goto, Return, Running, pending, Present, counts, ghost, files, AccessOk, AccessRefused, AccessFails, EndStrays, Hit, Miss, strays, Loose
<1>0. CallRuns /\ LeaseHeld /\ OwnerHasLived /\ StraysKnown /\ StraysHarmless /\ ProducerKeepsMarker /\ MarkerKnown
  BY DEF IInv
<1>1. ASSUME NEW p \in Proc, Reclose(p) PROVE StraysHarmless'
  BY <1>0, <1>1 DEF Reclose
<1>2. ASSUME NEW p \in Proc, Lookup(p) PROVE StraysHarmless'
  BY <1>0, <1>2 DEF Lookup
<1>3. ASSUME NEW p \in Proc, Loop(p) PROVE StraysHarmless'
  BY <1>0, <1>3 DEF Loop
<1>4. ASSUME NEW p \in Proc, InspectPendingLease(p) PROVE StraysHarmless'
  BY <1>0, <1>4 DEF InspectPendingLease
<1>5. ASSUME NEW p \in Proc, RecoverAcquire(p) PROVE StraysHarmless'
  BY <1>0, <1>5 DEF RecoverAcquire
<1>6. ASSUME NEW p \in Proc, RecoverRead(p) PROVE StraysHarmless'
  <2>1. UNCHANGED <<marker, life, erases, astray, pendingClaim>> /\ pc[p] = "recover_read"
    BY <1>6 DEF RecoverRead
  <2>2. /\ \A q \in Proc \ {p} : pc'[q] = pc[q] /\ strayMarker'[q] = strayMarker[q]
        /\ pc'[p] = "recover_retire" => SameClaim(marker, pendingClaim[p], p)
        /\ strayMarker'[p] \in {strayMarker[p], NoMarker}
    BY <1>6 DEF RecoverRead
  <2>. QED BY <1>0, <2>1, <2>2
<1>7. ASSUME NEW p \in Proc, RecoverRetire(p) PROVE StraysHarmless'
  <2>1. CASE /\ marker' = Inactive(pendingClaim[p]) /\ EndStrays(p) /\ Goto(p, "recover_ok")
             /\ astray' = astray /\ UNCHANGED <<life, pendingClaim, erases>>
    BY <1>0, <1>7, <2>1 DEF RecoverRetire, Inactive
  <2>2. CASE /\ WriteFails(p, Inactive(pendingClaim[p])) /\ Goto(p, "recover_bad")
             /\ astray' = astray /\ UNCHANGED <<life, pendingClaim, erases>>
    BY <1>0, <1>7, <2>2 DEF RecoverRetire, WriteFails, Inactive
  <2>. QED BY <1>7, <2>1, <2>2 DEF RecoverRetire, WriteDone, Loosen
<1>8. ASSUME NEW p \in Proc, RecoverRelease(p) PROVE StraysHarmless'
  BY <1>0, <1>8 DEF RecoverRelease
<1>9. ASSUME NEW p \in Proc, InspectAcquire(p) PROVE StraysHarmless'
  BY <1>0, <1>9 DEF InspectAcquire
<1>10. ASSUME NEW p \in Proc, FinalLookup(p) PROVE StraysHarmless'
  BY <1>0, <1>10 DEF FinalLookup
<1>11. ASSUME NEW p \in Proc, InspectLoad(p) PROVE StraysHarmless'
  BY <1>0, <1>11 DEF InspectLoad
<1>12. ASSUME NEW p \in Proc, InspectMarker(p) PROVE StraysHarmless'
  BY <1>0, <1>12 DEF InspectMarker
<1>13. ASSUME NEW p \in Proc, JudgeOwner(p) PROVE StraysHarmless'
  BY <1>0, <1>13 DEF JudgeOwner, OwnerState
<1>14. ASSUME NEW p \in Proc, Claim(p) PROVE StraysHarmless'
  <2>1. /\ pc[p] = "claim" /\ UNCHANGED <<life, erases, astray, pendingClaim>>
        /\ \A q \in Proc : pc[q] \in CriticalLabels => q = p
    BY <1>0, <1>14 DEF Claim, CountClaim
  <2>2. Undisturbed => marker.owner = NoProc \/ ~Present(marker.owner)
    BY ONLY <1>0, <2>1, p \in Proc DEF MarkerKnown, Undisturbed, NoMarker
  <2>3. CASE WriteDone(p, NewClaim(p)) /\ Goto(p, "rel_claim")
    BY <1>0, <2>1, <2>2, <2>3 DEF WriteDone, NewClaim
  <2>4. CASE WriteFails(p, NewClaim(p)) /\ Goto(p, "rel_fail")
    BY <1>0, <2>1, <2>2, <2>4 DEF WriteFails, NewClaim
  <2>. QED BY <1>14, <2>3, <2>4 DEF Claim
<1>15. ASSUME NEW p \in Proc, ReleaseInspection(p) PROVE StraysHarmless'
  BY <1>0, <1>15 DEF ReleaseInspection
<1>16. ASSUME NEW p \in Proc, ReleaseInspectionFails(p) PROVE StraysHarmless'
  BY <1>0, <1>16 DEF ReleaseInspectionFails
<1>17. ASSUME NEW p \in Proc, Produce(p) PROVE StraysHarmless'
  BY <1>0, <1>17 DEF Produce
<1>18. ASSUME NEW p \in Proc, ProducerRaises(p) PROVE StraysHarmless'
  BY <1>0, <1>18 DEF ProducerRaises
<1>19. ASSUME NEW p \in Proc, FinishAcquire(p) PROVE StraysHarmless'
  BY <1>0, <1>19 DEF FinishAcquire
<1>20. ASSUME NEW p \in Proc, FinishRead(p) PROVE StraysHarmless'
  <2>1. UNCHANGED <<marker, life, erases, astray, pendingClaim>> /\ pc[p] = "finish_read"
    BY <1>20 DEF FinishRead
  <2>2. /\ \A q \in Proc \ {p} : pc'[q] = pc[q] /\ strayMarker'[q] = strayMarker[q]
        /\ pc'[p] # "recover_retire"
        /\ strayMarker'[p] \in {strayMarker[p], NoMarker}
    BY <1>20 DEF FinishRead
  <2>. QED BY <1>0, <2>1, <2>2
<1>21. ASSUME NEW p \in Proc, FinishPublish(p) PROVE StraysHarmless'
  BY <1>0, <1>21 DEF FinishPublish
<1>22. ASSUME NEW p \in Proc, FinishRetire(p) PROVE StraysHarmless'
  BY <1>0, <1>22 DEF FinishRetire, WriteDone, WriteFails, Inactive, Loosen
<1>23. ASSUME NEW p \in Proc, FinishRelease(p) PROVE StraysHarmless'
  BY <1>0, <1>23 DEF FinishRelease
<1>24. ASSUME NEW p \in Proc, Start(p) PROVE StraysHarmless'
  <2>1. UNCHANGED <<marker, erases, astray, pendingClaim, pc, strayMarker>>
    BY <1>24 DEF Start
  <2>2. \A q \in Proc : life[q] # "unborn" => life'[q] = life[q]
    BY <1>24 DEF Start
  <2>. QED BY <1>0, <2>1, <2>2
<1>25. ASSUME NEW p \in Proc, Call(p) PROVE StraysHarmless'
  BY <1>0, <1>25 DEF Call
<1>26. ASSUME NEW p \in Proc, Terminate(p) PROVE StraysHarmless'
  BY <1>0, <1>26 DEF Terminate
<1>27. ASSUME NEW p \in Proc, LastHandleClosed(p) PROVE StraysHarmless'
  BY <1>0, <1>27 DEF LastHandleClosed
<1>28. ASSUME NEW p \in Proc, Exhaust(p) PROVE StraysHarmless'
  BY <1>0, <1>28 DEF Exhaust
<1>33. ASSUME NEW p \in Proc, Land(p) PROVE StraysHarmless'
  <2>1. UNCHANGED <<life, pc, erases, pendingClaim>> /\ Loose(p) /\ EndStrays(p)
    BY <1>33 DEF Land
  <2>2. CASE strayCache[p]
    BY <1>0, <1>33, <2>1, <2>2 DEF Land
  <2>3. CASE ~strayCache[p] /\ strayMarker[p].owner = p
    <3>1. marker' = strayMarker[p] /\ (~InTime(p) => "claim" \in astray')
      BY <1>33, <2>3 DEF Land, Write
    <3>2. astray \subseteq astray'
      BY <1>33 DEF Land
    <3>3. CASE InTime(p)
      BY <1>0, <2>1, <2>3, <3>1, <3>2, <3>3
    <3>. QED BY <3>1, <3>3
  <2>4. CASE ~strayCache[p] /\ strayMarker[p].owner = NoProc
    <3>1. marker' = strayMarker[p] /\ astray \subseteq astray' /\ strayMarker[p] # NoMarker
      BY <1>33, <2>1, <2>4 DEF Land
    <3>2. Undisturbed => SameClaim(marker, strayMarker[p].gen, p)
      BY <1>0, <2>4, <3>1
    <3>3. \A q \in Proc : strayMarker'[q] # NoMarker => q # p /\ strayMarker'[q] = strayMarker[q]
      BY <2>1
    <3>4. pc[p] # "recover_retire"
      BY <1>0, <2>1
    <3>. QED BY <1>0, <2>1, <2>4, <3>1, <3>2, <3>3, <3>4
  <2>. QED BY <1>0, <2>1, <2>2, <2>3, <2>4
<1>29. CASE Expire
  BY <1>0, <1>29 DEF Expire, vars, NoMarker
<1>30. CASE Erase
  BY <1>0, <1>30 DEF Erase, vars, Loosen, NoMarker
<1>31. CASE Over
  BY <1>0, <1>31 DEF Over, vars, NoMarker
<1>32. CASE UNCHANGED vars
  BY <1>0, <1>32 DEF vars
<1>. QED
  BY <1>1, <1>2, <1>3, <1>4, <1>5, <1>6, <1>7, <1>8, <1>9, <1>10, <1>11, <1>12, <1>13, <1>14, <1>15, <1>16, <1>17, <1>18, <1>19, <1>20, <1>21, <1>22, <1>23, <1>24, <1>25, <1>26, <1>27, <1>28, <1>29, <1>30, <1>31, <1>32, <1>33 DEF Next, Step, Environment

(***************************************************************************)
(* The inductive invariant and what follows from it.                       *)
(***************************************************************************)
LEMMA ProducerKeepsMarkerStep ==
  ASSUME TypeOK, IInv, [Next]_vars
  PROVE  ProducerKeepsMarker'
<1> USE ConstantsAssumption DEF TypeOK, Markers, CallRuns, LeaseHeld, MarkerKnown, ProducerKeepsMarker, Undisturbed, ClaimLabels, SameClaim, NoMarker, CriticalLabels,
  Goto, Result, Return, EndLocals, CloseLease, KeepLease, Disown, Acquire, GuardTimesOut, GuardFails, Running, Present, MutexFree, locals, pending, counts, ghost, files
<1>0. CallRuns /\ LeaseHeld /\ MarkerKnown /\ ProducerKeepsMarker /\ StraysKnown /\ StraysHarmless
  BY DEF IInv
<1>1. ASSUME NEW p \in Proc, Reclose(p) PROVE ProducerKeepsMarker'
  BY ONLY <1>0, <1>1, TypeOK, RecloseLocal DEF ProducerKeepsMarker, Undisturbed, ClaimLabels, SameClaim, ghost
<1>2. ASSUME NEW p \in Proc, Lookup(p) PROVE ProducerKeepsMarker'
  BY <1>0, <1>2 DEF Lookup
<1>3. ASSUME NEW p \in Proc, Loop(p) PROVE ProducerKeepsMarker'
  BY <1>0, <1>3 DEF Loop
<1>4. ASSUME NEW p \in Proc, InspectPendingLease(p) PROVE ProducerKeepsMarker'
  BY <1>0, <1>4 DEF InspectPendingLease
<1>5. ASSUME NEW p \in Proc, RecoverAcquire(p) PROVE ProducerKeepsMarker'
  BY <1>0, <1>5 DEF RecoverAcquire
<1>6. ASSUME NEW p \in Proc, RecoverRead(p) PROVE ProducerKeepsMarker'
  BY <1>0, <1>6 DEF RecoverRead, SameClaim
<1>7. ASSUME NEW p \in Proc, RecoverRetire(p) PROVE ProducerKeepsMarker'
  <2>1. /\ pc[p] = "recover_retire" /\ pc'[p] \in {"recover_ok", "recover_bad"}
        /\ \A q \in Proc \ {p} : pc'[q] = pc[q]
        /\ UNCHANGED <<claim, erases, astray>>
    BY <1>7 DEF RecoverRetire, Loosen
  <2>. QED BY <1>0, <2>1, <1>7 DEF StraysHarmless
<1>8. ASSUME NEW p \in Proc, RecoverRelease(p) PROVE ProducerKeepsMarker'
  BY <1>0, <1>8 DEF RecoverRelease
<1>9. ASSUME NEW p \in Proc, InspectAcquire(p) PROVE ProducerKeepsMarker'
  BY <1>0, <1>9 DEF InspectAcquire
<1>10. ASSUME NEW p \in Proc, FinalLookup(p) PROVE ProducerKeepsMarker'
  <2>1. PICK value : Return(p, value)
    BY <1>10 DEF FinalLookup
  <2>2. UNCHANGED <<marker, erases, astray>>
    BY <1>10 DEF FinalLookup
  <2>. QED BY ONLY <1>0, <2>1, <2>2, TypeOK, ReturnLocal DEF ProducerKeepsMarker, Undisturbed, ClaimLabels, SameClaim
<1>11. ASSUME NEW p \in Proc, InspectLoad(p) PROVE ProducerKeepsMarker'
  BY <1>0, <1>11 DEF InspectLoad
<1>12. ASSUME NEW p \in Proc, InspectMarker(p) PROVE ProducerKeepsMarker'
  BY <1>0, <1>12 DEF InspectMarker
<1>13. ASSUME NEW p \in Proc, JudgeOwner(p) PROVE ProducerKeepsMarker'
  BY <1>0, <1>13 DEF JudgeOwner, OwnerState
<1>14. ASSUME NEW p \in Proc, Claim(p) PROVE ProducerKeepsMarker'
  <2>1. /\ pc[p] = "claim" /\ UNCHANGED <<life, erases, astray>>
        /\ \A q \in Proc \ {p} : pc'[q] = pc[q] /\ claim'[q] = claim[q]
    BY <1>14 DEF Claim, CountClaim
  <2>2. Undisturbed => marker.owner = NoProc \/ ~Present(marker.owner)
    BY <1>0, <2>1
  <2>3. Undisturbed => \A q \in Proc : pc[q] \notin ClaimLabels \ {"finish_rel"}
    BY <1>0, <2>2
  <2>4. \/ pc'[p] = "rel_fail"
        \/ pc'[p] = "rel_claim" /\ SameClaim(marker', claim'[p], p)
    BY ONLY <1>14, TypeOK, p \in Proc DEF TypeOK, Claim, WriteDone, NewClaim, SameClaim, Goto
  <2>. QED BY <2>1, <2>3, <2>4
<1>15. ASSUME NEW p \in Proc, ReleaseInspection(p) PROVE ProducerKeepsMarker'
  BY <1>0, <1>15 DEF ReleaseInspection
<1>16. ASSUME NEW p \in Proc, ReleaseInspectionFails(p) PROVE ProducerKeepsMarker'
  BY <1>0, <1>16 DEF ReleaseInspectionFails
<1>17. ASSUME NEW p \in Proc, Produce(p) PROVE ProducerKeepsMarker'
  BY <1>0, <1>17 DEF Produce
<1>18. ASSUME NEW p \in Proc, ProducerRaises(p) PROVE ProducerKeepsMarker'
  BY <1>0, <1>18 DEF ProducerRaises
<1>19. ASSUME NEW p \in Proc, FinishAcquire(p) PROVE ProducerKeepsMarker'
  BY <1>0, <1>19 DEF FinishAcquire
<1>20. ASSUME NEW p \in Proc, FinishRead(p) PROVE ProducerKeepsMarker'
  BY <1>0, <1>20 DEF FinishRead, SameClaim
<1>21. ASSUME NEW p \in Proc, FinishPublish(p) PROVE ProducerKeepsMarker'
  BY <1>0, <1>21 DEF FinishPublish
<1>22. ASSUME NEW p \in Proc, FinishRetire(p) PROVE ProducerKeepsMarker'
  BY <1>0, <1>22 DEF FinishRetire, WriteDone, WriteFails, Inactive, Loosen
<1>23. ASSUME NEW p \in Proc, FinishRelease(p) PROVE ProducerKeepsMarker'
  BY ONLY <1>0, <1>23, TypeOK, FinishReleaseLocal DEF ProducerKeepsMarker, Undisturbed, ClaimLabels, SameClaim, ghost
<1>24. ASSUME NEW p \in Proc, Start(p) PROVE ProducerKeepsMarker'
  BY <1>0, <1>24 DEF Start
<1>25. ASSUME NEW p \in Proc, Call(p) PROVE ProducerKeepsMarker'
  BY <1>0, <1>25 DEF Call
<1>26. ASSUME NEW p \in Proc, Terminate(p) PROVE ProducerKeepsMarker'
  BY <1>0, <1>26 DEF Terminate
<1>27. ASSUME NEW p \in Proc, LastHandleClosed(p) PROVE ProducerKeepsMarker'
  BY <1>0, <1>27 DEF LastHandleClosed
<1>28. ASSUME NEW p \in Proc, Exhaust(p) PROVE ProducerKeepsMarker'
  BY <1>0, <1>28 DEF Exhaust
<1>33. ASSUME NEW p \in Proc, Land(p) PROVE ProducerKeepsMarker'
  <2>1. UNCHANGED <<life, pc, erases, claim>> /\ Loose(p) /\ astray \subseteq astray'
    BY <1>33 DEF Land
  <2>2. CASE strayCache[p]
    BY <1>0, <1>33, <2>1, <2>2 DEF Land
  <2>3. CASE ~strayCache[p] /\ strayMarker[p].owner = p
    <3>1. ~InTime(p) => "claim" \in astray'
      BY <1>33, <2>3 DEF Land, Write
    <3>2. InTime(p) /\ Undisturbed => marker.owner = NoProc \/ ~Present(marker.owner)
      BY <1>0, <2>3 DEF StraysHarmless
    <3>. QED BY <1>0, <2>1, <3>1, <3>2
  <2>4. CASE ~strayCache[p] /\ strayMarker[p].owner = NoProc
    <3>1. strayMarker[p] # NoMarker /\ pc[p] \notin ClaimLabels \ {"finish_rel"}
      BY <1>0, <2>1, <2>4 DEF StraysKnown, Loose
    <3>2. Undisturbed => SameClaim(marker, strayMarker[p].gen, p)
      BY <1>0, <2>4, <3>1 DEF StraysHarmless
    <3>. QED BY <1>0, <2>1, <3>1, <3>2
  <2>. QED BY <1>0, <2>1, <2>2, <2>3, <2>4 DEF StraysKnown, Loose
<1>29. CASE Expire
  BY <1>0, <1>29 DEF Expire, vars, NoMarker
<1>30. CASE Erase
  BY <1>0, <1>30 DEF Erase, vars, Loosen, NoMarker
<1>31. CASE Over
  BY <1>0, <1>31 DEF Over, vars, NoMarker
<1>32. CASE UNCHANGED vars
  BY <1>0, <1>32 DEF vars
<1>. QED
  BY <1>1, <1>2, <1>3, <1>4, <1>5, <1>6, <1>7, <1>8, <1>9, <1>10, <1>11, <1>12, <1>13, <1>14, <1>15, <1>16, <1>17, <1>18, <1>19, <1>20, <1>21, <1>22, <1>23, <1>24, <1>25, <1>26, <1>27, <1>28, <1>29, <1>30, <1>31, <1>32, <1>33 DEF Next, Step, Environment

(***************************************************************************)
(* The inductive invariant and what follows from it.                       *)
(***************************************************************************)
LEMMA InductiveInvariant == Spec => [](TypeOK /\ IInv)
<1>1. Init => TypeOK /\ IInv
  <2>1. Init => TypeOK
    <3> SUFFICES ASSUME Init PROVE TypeOK
      OBVIOUS
    <3>1. strayMarker \in [Proc -> Markers] /\ strayCache \in [Proc -> BOOLEAN] /\ firm \in BOOLEAN
      BY MarkerFacts DEF Init
    <3>. QED BY <3>1, ConstantsAssumption, LabelFacts, OutcomeFacts, MarkerFacts DEF Init, TypeOK
  <2>2. Init => IInv
    BY ConstantsAssumption
    DEF Init, IInv, CallRuns, LeaseHeld, OwnerHasLived, MarkerKnown, NewestClaim, StraysKnown, Loose,
        StraysHarmless, ProducerKeepsMarker, CriticalLabels, ClaimLabels, NoMarker, SameClaim
  <2>. QED BY <2>1, <2>2
<1>2. TypeOK /\ IInv /\ [Next]_vars => TypeOK' /\ IInv'
  BY TypeStep, CallRunsStep, LeaseHeldStep, OwnerHasLivedStep, MarkerKnownStep,
     NewestClaimStep, StraysKnownStep, StraysHarmlessStep, ProducerKeepsMarkerStep DEF IInv
<1>. QED BY <1>1, <1>2, PTL DEF Spec

(* The variables keep their types. *)
THEOREM TypeCorrect == Spec => []TypeOK
BY InductiveInvariant, PTL

(* Whoever is between taking and closing a coordination lease owns the     *)
(* mutex; nobody owns it while its producer runs or before it takes it.    *)
THEOREM Exclusion == Spec => []LeaseDiscipline
<1>1. TypeOK /\ IInv => LeaseDiscipline
  BY DEF IInv, CallRuns, LeaseHeld, LeaseDiscipline, CriticalLabels
<1>. QED BY <1>1, InductiveInvariant, PTL

(* What inspect_state read of the marker is still true when the claim is   *)
(* written, deletions and late writes apart, and an owner once found dead  *)
(* is not there again.                                                     *)
THEOREM DecisionsAreCurrent == Spec => []ViewIsCurrent
<1>1. IInv => ViewIsCurrent
  BY DEF IInv, MarkerKnown, ViewIsCurrent
<1>. QED BY <1>1, InductiveInvariant, PTL

(* A process that works under its claim stays the owner named by the       *)
(* marker, unless somebody deletes the file or a claim that was reported   *)
(* as failed is made when its process has given the mutex up; retirements  *)
(* and results that are written late take the marker from nobody.          *)
THEOREM AuthorityKept == Spec => []ProducerKeepsMarker
<1>1. IInv => ProducerKeepsMarker
  BY DEF IInv
<1>. QED BY <1>1, InductiveInvariant, PTL

(* At most one producer runs for the key at any time, under the same       *)
(* conditions.                                                             *)
THEOREM SingleProducerHolds == Spec => []SingleProducer
<1>1. IInv => SingleProducer
  BY DEF IInv, ProducerKeepsMarker, SingleProducer, SameClaim, ClaimLabels
<1>. QED BY <1>1, InductiveInvariant, PTL

(* A call gets its document from the producer, and ends with it.           *)
LEMMA DocumentStep ==
  ASSUME TypeOK, NoDocumentYet, [Next]_vars
  PROVE  /\ NoDocumentYet'
         /\ \A p \in Proc : outcome[p] \in Documents /\ Running(p)' =>
              outcome'[p] \in Documents \/ calls'[p] # calls[p]
<1> USE ConstantsAssumption DEF TypeOK, NoDocumentYet, Documents, FailureCode,
  Goto, Result, Return, EndLocals, CloseLease, KeepLease, Running, locals, pending, counts, ghost, files
<1> DEFINE Fine ==
             /\ NoDocumentYet'
             /\ \A p \in Proc : outcome[p] \in Documents /\ Running(p)' =>
                  outcome'[p] \in Documents \/ calls'[p] # calls[p]
<1>0. NoDocumentYet
  OBVIOUS
<1>1. ASSUME NEW p \in Proc, Reclose(p) PROVE Fine
  BY <1>0, <1>1 DEF Reclose
<1>2. ASSUME NEW p \in Proc, Lookup(p) PROVE Fine
  BY <1>0, <1>2 DEF Lookup
<1>3. ASSUME NEW p \in Proc, Loop(p) PROVE Fine
  BY <1>0, <1>3 DEF Loop
<1>4. ASSUME NEW p \in Proc, InspectPendingLease(p) PROVE Fine
  BY <1>0, <1>4 DEF InspectPendingLease
<1>5. ASSUME NEW p \in Proc, RecoverAcquire(p) PROVE Fine
  BY <1>0, <1>5 DEF RecoverAcquire
<1>6. ASSUME NEW p \in Proc, RecoverRead(p) PROVE Fine
  BY <1>0, <1>6 DEF RecoverRead, SameClaim
<1>7. ASSUME NEW p \in Proc, RecoverRetire(p) PROVE Fine
  BY <1>0, <1>7 DEF RecoverRetire, WriteDone, WriteFails, Inactive, Loosen
<1>8. ASSUME NEW p \in Proc, RecoverRelease(p) PROVE Fine
  BY <1>0, <1>8 DEF RecoverRelease
<1>9. ASSUME NEW p \in Proc, InspectAcquire(p) PROVE Fine
  BY <1>0, <1>9 DEF InspectAcquire
<1>10. ASSUME NEW p \in Proc, FinalLookup(p) PROVE Fine
  BY <1>0, <1>10 DEF FinalLookup
<1>11. ASSUME NEW p \in Proc, InspectLoad(p) PROVE Fine
  BY <1>0, <1>11 DEF InspectLoad
<1>12. ASSUME NEW p \in Proc, InspectMarker(p) PROVE Fine
  BY <1>0, <1>12 DEF InspectMarker
<1>13. ASSUME NEW p \in Proc, JudgeOwner(p) PROVE Fine
  BY <1>0, <1>13 DEF JudgeOwner, OwnerState
<1>14. ASSUME NEW p \in Proc, Claim(p) PROVE Fine
  BY <1>0, <1>14 DEF Claim, WriteDone, WriteFails, NewClaim, CountClaim, SameClaim, Inactive
<1>15. ASSUME NEW p \in Proc, ReleaseInspection(p) PROVE Fine
  BY <1>0, <1>15 DEF ReleaseInspection
<1>16. ASSUME NEW p \in Proc, ReleaseInspectionFails(p) PROVE Fine
  BY <1>0, <1>16 DEF ReleaseInspectionFails
<1>17. ASSUME NEW p \in Proc, Produce(p) PROVE Fine
  BY <1>0, <1>17 DEF Produce
<1>18. ASSUME NEW p \in Proc, ProducerRaises(p) PROVE Fine
  BY <1>0, <1>18 DEF ProducerRaises
<1>19. ASSUME NEW p \in Proc, FinishAcquire(p) PROVE Fine
  BY <1>0, <1>19 DEF FinishAcquire
<1>20. ASSUME NEW p \in Proc, FinishRead(p) PROVE Fine
  BY <1>0, <1>20 DEF FinishRead, SameClaim
<1>21. ASSUME NEW p \in Proc, FinishPublish(p) PROVE Fine
  BY <1>0, <1>21 DEF FinishPublish
<1>22. ASSUME NEW p \in Proc, FinishRetire(p) PROVE Fine
  BY <1>0, <1>22 DEF FinishRetire, Unpublished, WriteDone, WriteFails, Inactive, Loosen
<1>23. ASSUME NEW p \in Proc, FinishRelease(p) PROVE Fine
  BY <1>0, <1>23 DEF FinishRelease, Unpublished
<1>24. ASSUME NEW p \in Proc, Start(p) PROVE Fine
  BY <1>0, <1>24 DEF Start
<1>25. ASSUME NEW p \in Proc, Call(p) PROVE Fine
  BY <1>0, <1>25 DEF Call
<1>26. ASSUME NEW p \in Proc, Terminate(p) PROVE Fine
  BY <1>0, <1>26 DEF Terminate
<1>27. ASSUME NEW p \in Proc, LastHandleClosed(p) PROVE Fine
  BY <1>0, <1>27 DEF LastHandleClosed
<1>28. ASSUME NEW p \in Proc, Exhaust(p) PROVE Fine
  BY <1>0, <1>28 DEF Exhaust
<1>33. ASSUME NEW p \in Proc, Land(p) PROVE Fine
  BY <1>0, <1>33 DEF Land
<1>29. ASSUME Expire PROVE Fine
  BY <1>0, <1>29 DEF Expire, vars, NoMarker
<1>30. ASSUME Erase PROVE Fine
  BY <1>0, <1>30 DEF Erase, vars, Loosen, NoMarker
<1>31. ASSUME Over PROVE Fine
  BY <1>0, <1>31 DEF Over, vars, NoMarker
<1>32. ASSUME UNCHANGED vars PROVE Fine
  BY <1>0, <1>32 DEF vars
<1>. QED
  BY <1>1, <1>2, <1>3, <1>4, <1>5, <1>6, <1>7, <1>8, <1>9, <1>10, <1>11, <1>12, <1>13, <1>14, <1>15, <1>16, <1>17, <1>18, <1>19, <1>20, <1>21, <1>22, <1>23, <1>24, <1>25, <1>26, <1>27, <1>28, <1>29, <1>30, <1>31, <1>32, <1>33 DEF Next, Step, Environment

(* A call whose producer has returned a document ends by returning it:     *)
(* what fails afterwards in the cache, the mutex or the marker does not    *)
(* change its result.                                                      *)
THEOREM DocumentsSurvive == Spec => DocumentSurvives
<1>1. Init => NoDocumentYet
  BY DEF Init, NoDocumentYet, Documents
<1>2. TypeOK /\ NoDocumentYet /\ [Next]_vars => NoDocumentYet'
  BY DocumentStep
<1>3. TypeOK /\ NoDocumentYet /\ [Next]_vars =>
        \A p \in Proc : outcome[p] \in {"document", "published"} /\ Running(p)' =>
          \/ outcome'[p] \in {"document", "published"}
          \/ calls'[p] # calls[p]
  BY DocumentStep DEF Documents
<1>. QED BY <1>1, <1>2, <1>3, TypeCorrect, PTL DEF Spec, DocumentSurvives

(***************************************************************************)
(* The coordinator implements the abstract single flight.                  *)
(***************************************************************************)
LEMMA UnchangedSF ==
  ASSUME UNCHANGED <<life, marker, cache, strayMarker, strayCache, epoch, claimAt, firm>>
  PROVE  UNCHANGED SF!sfVars
BY DEF SF!sfVars, Present, Holder, LooseWrites

LEMMA SettledSF ==
  ASSUME TypeOK, NEW p \in Proc, EndStrays(p)
  PROVE  LooseWrites' = [LooseWrites EXCEPT ![p] = "none"]
BY DEF TypeOK, EndStrays, LooseWrites

(* A step that only uses the file system settles what was left loose.      *)
LEMMA AccessSF ==
  ASSUME TypeOK, NEW p \in Proc, EndStrays(p),
         {q \in Proc : Present(q)}' = {q \in Proc : Present(q)},
         Holder' = Holder, UNCHANGED <<cache, epoch, claimAt>>
  PROVE  SF!SFNext
<1>1. SF!Access(p)
  BY SettledSF DEF SF!Access, SF!Settle, LooseWrites, Holder
<1>. QED BY <1>1 DEF SF!SFNext

(* A failed write of a marker leaves one loose, if it writes any.          *)
LEMMA FumbleSF ==
  ASSUME TypeOK, NEW p \in Proc, NEW m, Present(p), SF!Free \/ Holder = p,
         strayMarker' = [strayMarker EXCEPT ![p] = m],
         strayCache' = [strayCache EXCEPT ![p] = FALSE],
         UNCHANGED <<life, marker, firm, cache, epoch, claimAt>>
  PROVE  SF!SFNext
<1>1. {q \in Proc : Present(q)}' = {q \in Proc : Present(q)} /\ Holder' = Holder
  BY DEF Present, Holder
<1>2. CASE m = NoMarker
  BY <1>1, <1>2, AccessSF DEF EndStrays
<1>3. CASE m # NoMarker
  <2>1. LooseWrites' = [LooseWrites EXCEPT ![p] = "right"]
    BY <1>3 DEF TypeOK, LooseWrites
  <2>2. SF!Fumble(p)
    BY <1>1, <2>1 DEF SF!Fumble, LooseWrites, Holder
  <2>. QED BY <2>2 DEF SF!SFNext
<1>. QED BY <1>2, <1>3

LEMMA SFStep ==
  ASSUME TypeOK, IInv, [Next]_vars
  PROVE  [SF!SFNext]_SF!sfVars
<1> USE ConstantsAssumption
<1> DEFINE Done == SF!SFNext \/ UNCHANGED SF!sfVars
<1>0. CallRuns /\ MarkerKnown /\ NewestClaim /\ StraysKnown
  BY DEF IInv
<1>1. ASSUME NEW p \in Proc, Start(p) PROVE Done
  <2>1. p \notin {q \in Proc : Present(q)}
    BY <1>1 DEF Start, Present
  <2>2. {q \in Proc : Present(q)}' = {q \in Proc : Present(q)} \cup {p}
    BY <1>1 DEF Start, Present, TypeOK
  <2>. QED BY <1>1, <2>1, <2>2 DEF Start, files, strays, ghost, SF!SFNext, SF!Appear, Holder, LooseWrites
<1>2. ASSUME NEW p \in Proc, LastHandleClosed(p) PROVE Done
  <2>1. p \in {q \in Proc : Present(q)}
    BY <1>2 DEF LastHandleClosed, Present
  <2>2. {q \in Proc : Present(q)}' = {q \in Proc : Present(q)} \ {p}
    BY <1>2 DEF LastHandleClosed, Present, TypeOK
  <2>. QED BY <1>2, <2>1, <2>2 DEF LastHandleClosed, files, strays, ghost, SF!SFNext, SF!Vanish, Holder, LooseWrites
<1>3. ASSUME NEW p \in Proc, Terminate(p) PROVE Done
  <2>1. {q \in Proc : Present(q)}' = {q \in Proc : Present(q)}
    BY <1>3 DEF Terminate, Running, Present, TypeOK
  <2>2. EndStrays(p) /\ Holder' = Holder /\ UNCHANGED <<cache, epoch, claimAt>>
    BY <1>3 DEF Terminate, files, ghost, Holder
  <2>. QED BY <2>1, <2>2, AccessSF
<1>4. ASSUME NEW p \in Proc, Claim(p) PROVE Done
  <2>1. UNCHANGED <<life, cache>> /\ Present(p)
    BY <1>0, <1>4 DEF Claim, CallRuns, Running, Present
  <2>2. {q \in Proc : Present(q)}' = {q \in Proc : Present(q)}
    BY <2>1 DEF Present
  <2>3. Holder = NoProc \/ Holder \notin {q \in Proc : Present(q)}
    BY <1>0, <1>4 DEF MarkerKnown, Claim, Holder
  <2>4. CASE WriteDone(p, NewClaim(p)) /\ CountClaim(p)
    <3>1. Holder' = p /\ EndStrays(p)
      BY <2>4 DEF WriteDone, NewClaim, CountClaim, Holder, AccessOk
    <3>2. epoch' = epoch + 1 /\ claimAt' = [claimAt EXCEPT ![p] = epoch + 1]
      BY <2>4 DEF CountClaim
    <3>3. SF!Grant(p)
      BY <2>1, <2>2, <2>3, <3>1, <3>2, SettledSF DEF SF!Grant, SF!Free, SF!Settle, Holder, LooseWrites
    <3>. QED BY <3>3 DEF SF!SFNext
  <2>5. CASE WriteFails(p, NewClaim(p)) /\ UNCHANGED ghost
    <3>1. CASE AccessRefused(p)
      BY <2>1, <2>5, <3>1, UnchangedSF DEF AccessRefused, WriteFails, strays, ghost
    <3>2. CASE /\ strayMarker' = [strayMarker EXCEPT ![p] = NewClaim(p)]
               /\ strayCache' = [strayCache EXCEPT ![p] = FALSE]
      <4>1. SF!Free
        BY <2>3 DEF SF!Free, Holder
      <4>. QED BY <2>1, <2>5, <3>2, <4>1, FumbleSF DEF WriteFails, ghost
    <3>. QED BY <2>5, <3>1, <3>2 DEF WriteFails
  <2>. QED BY <1>4, <2>4, <2>5 DEF Claim
<1>5. ASSUME NEW p \in Proc, FinishPublish(p) PROVE Done
  <2>1. UNCHANGED <<life, marker, epoch, claimAt, firm>>
    BY <1>5 DEF FinishPublish, ghost
  <2>2. Present(p) /\ claimAt[p] = epoch
    BY <1>0, <1>5 DEF CallRuns, NewestClaim, FinishPublish, Running, Present
  <2>3. {q \in Proc : Present(q)}' = {q \in Proc : Present(q)} /\ Holder' = Holder
    BY <2>1 DEF Present, Holder
  <2>4. CASE AccessOk(p) /\ cache' = Fresh(p)
    <3>1. EndStrays(p) /\ (cache.at)' = epoch
      BY <2>2, <2>4 DEF AccessOk, Fresh
    <3>2. SF!Publish(p)
      BY <2>1, <2>2, <2>3, <3>1, SettledSF DEF SF!Publish, SF!Settle, Holder, LooseWrites
    <3>. QED BY <3>2 DEF SF!SFNext
  <2>5. CASE UNCHANGED <<cache, strayMarker, strayCache>>
    BY <2>1, <2>5, UnchangedSF
  <2>6. CASE /\ UNCHANGED cache
             /\ strayMarker' = [strayMarker EXCEPT ![p] = NoMarker]
             /\ strayCache' = [strayCache EXCEPT ![p] = TRUE]
    <3>1. LooseWrites' = [LooseWrites EXCEPT ![p] = "result"]
      BY <2>6 DEF TypeOK, LooseWrites
    <3>2. SF!Fumble(p)
      BY <2>1, <2>2, <2>3, <2>6, <3>1 DEF SF!Fumble, Holder, LooseWrites
    <3>. QED BY <3>2 DEF SF!SFNext
  <2>. QED BY <1>5, <2>4, <2>5, <2>6 DEF FinishPublish, AccessRefused, strays
<1>6. ASSUME NEW p \in Proc, RecoverRetire(p) \/ FinishRetire(p) PROVE Done
  <2>1. UNCHANGED <<life, cache, epoch, claimAt>>
    BY <1>6 DEF RecoverRetire, FinishRetire, Loosen, ghost
  <2>2. {q \in Proc : Present(q)}' = {q \in Proc : Present(q)}
    BY <2>1 DEF Present
  <2>3. Present(p) /\ Holder \in {p, NoProc}
    BY <1>0, <1>6 DEF CallRuns, MarkerKnown, RecoverRetire, FinishRetire, Running, Present, Holder
  <2>4. CASE EndStrays(p) /\ Loosen
    <3>1. Holder' = NoProc
      BY <2>4 DEF Loosen, Holder
    <3>2. CASE Holder = p
      <4>1. SF!GiveBack(p)
        BY <2>1, <2>2, <2>3, <2>4, <3>1, <3>2, SettledSF DEF SF!GiveBack, SF!Settle, Holder, LooseWrites
      <4>. QED BY <4>1 DEF SF!SFNext
    <3>3. CASE Holder = NoProc
      BY <2>1, <2>2, <2>4, <3>1, <3>3, AccessSF
    <3>. QED BY <2>3, <3>2, <3>3
  <2>5. ASSUME NEW m, WriteFails(p, m), UNCHANGED ghost PROVE Done
    <3>1. CASE AccessRefused(p)
      BY <2>1, <2>5, <3>1, UnchangedSF DEF AccessRefused, WriteFails, strays, ghost
    <3>2. CASE /\ strayMarker' = [strayMarker EXCEPT ![p] = m]
               /\ strayCache' = [strayCache EXCEPT ![p] = FALSE]
      <4>1. SF!Free \/ Holder = p
        BY <2>3 DEF SF!Free, Holder
      <4>. QED BY <2>1, <2>3, <2>5, <3>2, <4>1, FumbleSF DEF WriteFails, ghost
    <3>. QED BY <2>5, <3>1, <3>2 DEF WriteFails
  <2>. QED BY <1>6, <2>4, <2>5 DEF RecoverRetire, FinishRetire, WriteDone, AccessOk
<1>7. CASE Erase
  <2>1. {q \in Proc : Present(q)}' = {q \in Proc : Present(q)}
    BY <1>7 DEF Erase, Present
  <2>2. SF!Forget
    BY <1>7, <2>1 DEF Erase, Loosen, strays, SF!Forget, Holder, LooseWrites
  <2>. QED BY <2>2 DEF SF!SFNext
<1>8. CASE Expire
  <2>1. {q \in Proc : Present(q)}' = {q \in Proc : Present(q)}
    BY <1>8 DEF Expire, Present
  <2>. QED BY <1>8, <2>1 DEF Expire, TypeOK, ghost, strays, SF!sfVars, Holder, LooseWrites
<1>13. ASSUME NEW p \in Proc, Land(p) PROVE Done
  <2>1. Present(p) /\ EndStrays(p) /\ UNCHANGED <<life, epoch, claimAt>>
    BY <1>0, <1>13 DEF StraysKnown, Land, Running, Present
  <2>2. {q \in Proc : Present(q)}' = {q \in Proc : Present(q)}
    BY <2>1 DEF Present
  <2>3. CASE strayCache[p]
    <3>1. LooseWrites[p] = "result" /\ (cache.at)' = claimAt[p] /\ Holder' = Holder
      BY <1>13, <2>3 DEF Land, LooseWrites, Fresh, Holder
    <3>2. SF!Land(p)
      BY <2>1, <2>2, <3>1, SettledSF DEF SF!Land, SF!Settle, Holder, LooseWrites
    <3>. QED BY <3>2 DEF SF!SFNext
  <2>4. CASE ~strayCache[p]
    <3>1. LooseWrites[p] = "right" /\ cache' = cache /\ Holder' = NoProc
      BY <1>13, <2>4 DEF Land, Loose, LooseWrites, Holder
    <3>2. SF!Land(p)
      BY <2>1, <2>2, <3>1, SettledSF DEF SF!Land, SF!Settle, Holder, LooseWrites
    <3>. QED BY <3>2 DEF SF!SFNext
  <2>. QED BY <2>3, <2>4
<1>14. ASSUME NEW p \in Proc, \/ Lookup(p) \/ FinalLookup(p) \/ RecoverRead(p)
                            \/ InspectLoad(p) \/ InspectMarker(p) \/ FinishRead(p)
       PROVE Done
  <2>1. UNCHANGED <<life, marker, cache, epoch, claimAt, firm>>
    BY <1>14 DEF Lookup, FinalLookup, RecoverRead, InspectLoad, InspectMarker, FinishRead, files, ghost
  <2>2. EndStrays(p) \/ UNCHANGED strays
    BY <1>14
    DEF Lookup, FinalLookup, RecoverRead, InspectLoad, InspectMarker, FinishRead,
        Hit, Miss, AccessOk, AccessFails, AccessRefused
  <2>3. {q \in Proc : Present(q)}' = {q \in Proc : Present(q)} /\ Holder' = Holder
    BY <2>1 DEF Present, Holder
  <2>. QED BY <2>1, <2>2, <2>3, AccessSF, UnchangedSF DEF strays
<1>9. ASSUME NEW p \in Proc, \/ Reclose(p) \/ Loop(p) \/ InspectPendingLease(p) \/ RecoverAcquire(p)
                            \/ RecoverRelease(p) \/ InspectAcquire(p)
      PROVE Done
  BY <1>9, UnchangedSF
  DEF Reclose, Loop, InspectPendingLease, RecoverAcquire, RecoverRelease, InspectAcquire,
      files, strays, ghost
<1>10. ASSUME NEW p \in Proc, JudgeOwner(p) \/ ReleaseInspection(p)
                            \/ ReleaseInspectionFails(p) \/ Produce(p) \/ ProducerRaises(p)
      PROVE Done
  BY <1>10, UnchangedSF
  DEF JudgeOwner, ReleaseInspection, ReleaseInspectionFails, Produce, ProducerRaises,
      files, strays, ghost
<1>11. ASSUME NEW p \in Proc, FinishAcquire(p) \/ FinishRelease(p) \/ Call(p) \/ Exhaust(p)
      PROVE Done
  BY <1>11, UnchangedSF
  DEF FinishAcquire, FinishRelease, Call, Exhaust, files, strays, ghost
<1>12. CASE Over \/ UNCHANGED vars
  BY <1>12, UnchangedSF DEF Over, vars
<1>. QED
  BY <1>1, <1>2, <1>3, <1>4, <1>5, <1>6, <1>7, <1>8, <1>9, <1>10, <1>11, <1>12, <1>13, <1>14
  DEF Next, Step, Environment

(* Every behaviour of the coordinator is one of the abstract single        *)
(* flight: the right to refresh is granted again only when it was given    *)
(* back, lost or its owner is gone, and only the newest claim replaces the *)
(* cached result; what else changes either of them is a deletion, or a     *)
(* write that was allowed when it was begun, was reported as failed, and   *)
(* is made before its process begins another one.                          *)
THEOREM Implementation == Spec => ImplementsSingleFlight
<1>1. Init => SF!SFInit
  BY DEF Init, SF!SFInit, Present, NoMarker, Holder, LooseWrites
<1>2. TypeOK /\ IInv /\ [Next]_vars => [SF!SFNext]_SF!sfVars
  BY SFStep
<1>. QED BY <1>1, <1>2, InductiveInvariant, PTL DEF Spec, ImplementsSingleFlight, SF!SFSpec

(***************************************************************************)
(* What follows from that: results do not go back.                         *)
(***************************************************************************)
SFTypeOK ==
  /\ epoch \in Nat /\ cache.at \in Nat
  /\ claimAt \in [Proc -> Nat]
  /\ cache.at <= epoch
  /\ \A p \in Proc : claimAt[p] <= epoch

(* In the abstract single flight, the cached result is no newer than the   *)
(* newest grant, and is replaced by that of the newest grant, unless a     *)
(* publication that was reported as failed is made.                        *)
LEMMA SFResultMonotone == SF!SFSpec => SF!ResultNeverGoesBack
<1> DEFINE Made == \E p \in Proc : LooseWrites[p] = "result" /\ LooseWrites'[p] = "none"
           Fine == SFTypeOK' /\ ((cache.at)' >= cache.at \/ Made)
<1>1. SF!SFInit => SFTypeOK
  BY DEF SF!SFInit, SFTypeOK
<1>2. ASSUME SFTypeOK, [SF!SFNext]_SF!sfVars
      PROVE  Fine
  <2> USE <1>2 DEF SFTypeOK
  <2>1. ASSUME NEW p \in Proc, SF!Appear(p) \/ SF!Vanish(p) \/ SF!Access(p) PROVE Fine
    BY <2>1 DEF SF!Appear, SF!Vanish, SF!Access
  <2>2. ASSUME NEW p \in Proc, SF!Grant(p) PROVE Fine
    BY <2>2 DEF SF!Grant
  <2>3. ASSUME NEW p \in Proc, SF!Publish(p) PROVE Fine
    BY <2>3 DEF SF!Publish
  <2>4. ASSUME NEW p \in Proc, SF!GiveBack(p) \/ SF!Fumble(p) PROVE Fine
    BY <2>4 DEF SF!GiveBack, SF!Fumble
  <2>5. ASSUME NEW p \in Proc, SF!Land(p) PROVE Fine
    <3>1. epoch' = epoch /\ claimAt' = claimAt
      BY <2>5 DEF SF!Land
    <3>2. CASE (cache.at)' = cache.at
      BY <3>1, <3>2
    <3>3. CASE LooseWrites[p] = "result" /\ (cache.at)' = claimAt[p]
      <4>1. LooseWrites' = [LooseWrites EXCEPT ![p] = "none"]
        BY <2>5 DEF SF!Land, SF!Settle, LooseWrites
      <4>2. LooseWrites'[p] = "none"
        BY <4>1 DEF LooseWrites
      <4>. QED BY <3>1, <3>3, <4>2
    <3>. QED BY <2>5, <3>2, <3>3 DEF SF!Land, LooseWrites
  <2>6. CASE SF!Forget
    BY <2>6 DEF SF!Forget
  <2>7. CASE UNCHANGED SF!sfVars
    BY <2>7 DEF SF!sfVars
  <2>. QED BY <2>1, <2>2, <2>3, <2>4, <2>5, <2>6, <2>7 DEF SF!SFNext
<1>3. SFTypeOK /\ [SF!SFNext]_SF!sfVars => SFTypeOK'
  BY <1>2
<1>4. SFTypeOK /\ [SF!SFNext]_SF!sfVars =>
        [\/ (cache.at)' >= cache.at
         \/ \E p \in Proc : LooseWrites[p] = "result" /\ LooseWrites'[p] = "none"]_SF!sfVars
  BY <1>2
<1>. QED BY <1>1, <1>3, <1>4, PTL DEF SF!SFSpec, SF!ResultNeverGoesBack

(* The cached result is only ever replaced by one produced under a later   *)
(* claim (or the same one): a producer that was displaced and comes back   *)
(* cannot overwrite a newer result.  The one exception is the publication  *)
(* that was reported as failed and is made by the child it was left to.    *)
THEOREM ResultsNeverGoBack == Spec => SF!ResultNeverGoesBack
BY Implementation, SFResultMonotone, PTL DEF ImplementsSingleFlight

=============================================================================
