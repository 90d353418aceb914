------------------------ MODULE LifecycleSafetyProofs -----------------------
(* Proofs about Lifecycle that rest on its type correctness: one leader per startOp *)
(* and real outcomes of the coalesced boots; a lease counter and a semaphore that   *)
(* stay balanced, by which Lifecycle implements the abstract leases of Lease.       *)
EXTENDS LifecycleProofs

(* Actions of goroutines that lead no boot leave the leaders and their ops alone. *)
LeaderFrame ==
    /\ UNCHANGED <<nboots, opErr, committed>>
    /\ \A p \in Callers : (pc'[p] \in StartPCs) <=> (pc[p] \in StartPCs)
    /\ \A p \in Callers : pc[p] \in StartPCs =>
         pc'[p] = pc[p] /\ op'[p] = op[p] /\ ret'[p] = ret[p]

(* A step of a leader, or a step that frames them. *)
LeaderStep(p) ==
    \/ StartDependencies(p)
    \/ ComposeUp(p)
    \/ CheckHealth(p)
    \/ FailBoot(p)
    \/ CommitBoot(p)
    \/ PublishIdleCtrl(p)
    \/ ArmIdleCtrl(p)
    \/ CloseOp(p)
    \/ StartLead(p)

(* Of all actions only those of LeaderStep change who leads, op, opErr or nboots.     *)
LEMMA LeaderCases ==
    ASSUME TypeInv, [Next]_vars
    PROVE  LeaderFrame \/ \E p \in Callers : LeaderStep(p)
<1> USE DEF TypeInv, TypeOK, Leading, StartPCs, Procs, At, Goto, entryVars, leaseVars, composeVars,
        bootVars, lazyVars, localVars
<1>1. ASSUME NEW p \in Callers, FollowerWakes(p) PROVE LeaderFrame
  BY <1>1 DEF LeaderFrame, FollowerWakes, ReturnStart
<1>2. ASSUME NEW p \in Callers, StartRunning(p) PROVE LeaderFrame
  BY <1>2 DEF LeaderFrame, StartRunning, ReturnStart, InStart
<1>3. ASSUME NEW p \in Callers, StartFollow(p) PROVE LeaderFrame
  BY <1>3 DEF LeaderFrame, StartFollow, InStart
<1>4. ASSUME NEW p \in Callers, AcquireEager(p) PROVE LeaderFrame
  BY <1>4 DEF LeaderFrame, AcquireEager
<1>5. ASSUME NEW p \in Callers, AcquireLazy(p) PROVE LeaderFrame
  BY <1>5 DEF LeaderFrame, AcquireLazy
<1>6. ASSUME NEW p \in Callers, EnsureFirst(p) PROVE LeaderFrame
  BY <1>6 DEF LeaderFrame, EnsureFirst
<1>7. ASSUME NEW p \in Callers, EnsureStores(p) PROVE LeaderFrame
  BY <1>7 DEF LeaderFrame, EnsureStores
<1>8. ASSUME NEW p \in Callers, EnsureReturns(p) PROVE LeaderFrame
  BY <1>8 DEF LeaderFrame, EnsureReturns
<1>9. ASSUME NEW p \in Callers, ClearFailedBooter(p) PROVE LeaderFrame
  BY <1>9 DEF LeaderFrame, ClearFailedBooter
<1>10. ASSUME NEW p \in Callers, CountLease(p) PROVE LeaderFrame
  BY <1>10 DEF LeaderFrame, CountLease
<1>11. ASSUME NEW p \in Callers, TakeSlot(p) PROVE LeaderFrame
  BY <1>11 DEF LeaderFrame, TakeSlot
<1>12. ASSUME NEW p \in Callers, CancelSlot(p) PROVE LeaderFrame
  BY <1>12 DEF LeaderFrame, CancelSlot
<1>13. ASSUME NEW p \in Callers, Recheck(p) PROVE LeaderFrame
  BY <1>13 DEF LeaderFrame, Recheck
<1>14. ASSUME NEW p \in Callers, UndoSlot(p) PROVE LeaderFrame
  BY <1>14 DEF LeaderFrame, UndoSlot, ReleaseSlot
<1>15. ASSUME NEW p \in Callers, UndoLease(p) PROVE LeaderFrame
  BY <1>15 DEF LeaderFrame, UndoLease
<1>16. ASSUME NEW p \in Callers, CopyIdleCtrl(p) PROVE LeaderFrame
  BY <1>16 DEF LeaderFrame, CopyIdleCtrl
<1>17. ASSUME NEW p \in Callers, TouchIdleCtrl(p) PROVE LeaderFrame
  BY <1>17 DEF LeaderFrame, TouchIdleCtrl
<1>18. ASSUME NEW p \in Callers, Release(p) PROVE LeaderFrame
  BY <1>18 DEF LeaderFrame, Release, ReleaseSlot
<1>19. ASSUME NEW p \in Callers, ReleaseLease(p) PROVE LeaderFrame
  BY <1>19 DEF LeaderFrame, ReleaseLease
<1>20. ASSUME NEW p \in Procs, StopStopped(p) PROVE LeaderFrame
  BY <1>20 DEF LeaderFrame, StopStopped, InStop
<1>21. ASSUME NEW p \in Procs, StopBegin(p) PROVE LeaderFrame
  BY <1>21 DEF LeaderFrame, StopBegin, InStop
<1>22. ASSUME NEW p \in Procs, StopIdleCtrl(p) PROVE LeaderFrame
  BY <1>22 DEF LeaderFrame, StopIdleCtrl
<1>23. ASSUME NEW p \in Procs, ComposeDown(p) PROVE LeaderFrame
  BY <1>23 DEF LeaderFrame, ComposeDown
<1>24. ASSUME NEW p \in Procs, StopFails(p) PROVE LeaderFrame
  BY <1>24 DEF LeaderFrame, StopFails
<1>25. ASSUME NEW p \in Procs, StopCommit(p) PROVE LeaderFrame
  BY <1>25 DEF LeaderFrame, StopCommit
<1>26. ASSUME NEW k \in Boots, IdlePeriodElapses(k) PROVE LeaderFrame
  BY <1>26 DEF LeaderFrame, IdlePeriodElapses
<1>27. ASSUME NEW k \in Boots, Fire(k) PROVE LeaderFrame
  BY <1>27 DEF LeaderFrame, Fire
<1>28. CASE UNCHANGED vars
  BY <1>28 DEF vars, LeaderFrame
<1>29. QED
  BY ONLY NextCases, [Next]_vars, <1>1, <1>2, <1>3, <1>4, <1>5, <1>6, <1>7, <1>8,
     <1>9, <1>10, <1>11, <1>12, <1>13, <1>14, <1>15, <1>16, <1>17, <1>18, <1>19, <1>20,
     <1>21, <1>22, <1>23, <1>24, <1>25, <1>26, <1>27, <1>28 DEF LeaderStep

(* The coalescing handle: one leader per open startOp. *)
NewOpsOpen == \A b \in Boots : b > nboots => opErr[b] = "pending"
LedOpsOpen == \A p \in Callers : Leading(p) => opErr[op[p]] = "pending"
LeadersDiffer == \A p, q \in Callers : Leading(p) /\ Leading(q) /\ op[p] = op[q] => p = q
OpenOpsLed == \A b \in 1..nboots :
                opErr[b] = "pending" => \E p \in Callers : Leading(p) /\ op[p] = b

OpInv ==
    /\ NewOpsOpen
    /\ LedOpsOpen
    /\ LeadersDiffer
    /\ OpenOpsLed

(* The steps of Start keep one leader for every open startOp.                         *)
LEMMA OpStep ==
    ASSUME TypeInv, OpInv, [Next]_vars
    PROVE  OpInv'
<1> USE LifecycleAssumption DEF TypeInv, TypeOK, NonNil, Leading, StartPCs, Procs,
        Boots, At, Goto, entryVars, leaseVars, composeVars, bootVars, lazyVars, localVars
<1> DEFINE Keeps(p) ==
             /\ UNCHANGED <<nboots, opErr, op>>
             /\ Leading(p) /\ Leading(p)'
             /\ \A q \in Callers \ {p} : pc'[q] = pc[q]
<1>1. CASE LeaderFrame
  <2>1. /\ UNCHANGED <<nboots, opErr>>
        /\ \A q \in Callers : Leading(q)' <=> Leading(q)
        /\ \A q \in Callers : Leading(q) => op'[q] = op[q]
    BY <1>1 DEF LeaderFrame
  <2>2. NewOpsOpen' /\ LedOpsOpen'
    BY ONLY OpInv, <2>1 DEF OpInv, NewOpsOpen, LedOpsOpen, LeadersDiffer
  <2>3. LeadersDiffer'
    BY ONLY OpInv, <2>1 DEF OpInv, LeadersDiffer
  <2>4. OpenOpsLed'
    BY ONLY OpInv, <2>1 DEF OpInv, OpenOpsLed
  <2>5. QED  BY <2>2, <2>3, <2>4 DEF OpInv
<1>2. ASSUME NEW p \in Callers, StartDependencies(p) PROVE Keeps(p)
  BY <1>2 DEF StartDependencies
<1>3. ASSUME NEW p \in Callers, ComposeUp(p) PROVE Keeps(p)
  BY <1>3 DEF ComposeUp
<1>4. ASSUME NEW p \in Callers, CheckHealth(p) PROVE Keeps(p)
  BY <1>4 DEF CheckHealth
<1>5. ASSUME NEW p \in Callers, FailBoot(p) PROVE Keeps(p)
  BY <1>5 DEF FailBoot
<1>6. ASSUME NEW p \in Callers, CommitBoot(p) PROVE Keeps(p)
  BY <1>6 DEF CommitBoot
<1>7. ASSUME NEW p \in Callers, PublishIdleCtrl(p) PROVE Keeps(p)
  BY <1>7 DEF PublishIdleCtrl
<1>8. ASSUME NEW p \in Callers, ArmIdleCtrl(p) PROVE Keeps(p)
  BY <1>8 DEF ArmIdleCtrl
<1>9. ASSUME NEW p \in Callers, Keeps(p) PROVE OpInv'
  <2>1. /\ UNCHANGED <<nboots, opErr>>
        /\ \A q \in Callers : Leading(q)' <=> Leading(q)
        /\ \A q \in Callers : Leading(q) => op'[q] = op[q]
    BY <1>9
  <2>2. NewOpsOpen' /\ LedOpsOpen'
    BY ONLY OpInv, <2>1 DEF OpInv, NewOpsOpen, LedOpsOpen, LeadersDiffer
  <2>3. LeadersDiffer'
    BY ONLY OpInv, <2>1 DEF OpInv, LeadersDiffer
  <2>4. OpenOpsLed'
    BY ONLY OpInv, <2>1 DEF OpInv, OpenOpsLed
  <2>5. QED  BY <2>2, <2>3, <2>4 DEF OpInv
<1>10. ASSUME NEW p \in Callers, CloseOp(p) PROVE OpInv'
  <2>1. Leading(p) /\ ~Leading(p)' /\ op[p] \in 1..nboots /\ nboots' = nboots
    BY <1>10 DEF CloseOp, ReturnStart
  <2>2. \A q \in Callers \ {p} : pc'[q] = pc[q] /\ op'[q] = op[q]
    BY <1>10 DEF CloseOp, ReturnStart
  <2>0. op[p] \in Boots /\ 1..nboots \subseteq Boots /\ Boots \subseteq Nat /\ nboots \in Nat
    BY <2>1 DEF MaxBoots
  <2>3. opErr'[op[p]] # "pending" /\ \A b \in Boots : b # op[p] => opErr'[b] = opErr[b]
    <3>1. opErr' = [opErr EXCEPT ![op[p]] = ret[p]] /\ ret[p] \in {"ok", "err"}
      BY <1>10 DEF CloseOp
    <3>2. opErr \in [Boots -> {"pending", "ok", "err"}]
      BY DEF TypeOK
    <3>3. QED  BY ONLY <2>0, <3>1, <3>2
  <2>4. \A q \in Callers \ {p} : Leading(q)' <=> Leading(q)
    BY <2>2
  <2>5. \A q \in Callers : Leading(q) => op[q] \in Boots
    BY DEF MaxBoots
  <2>6. NewOpsOpen' /\ LedOpsOpen'
    <3>1. NewOpsOpen'
      BY ONLY OpInv, <2>1, <2>3, <2>0 DEF OpInv, NewOpsOpen
    <3>2. LedOpsOpen'
      BY ONLY OpInv, <2>1, <2>2, <2>3, <2>4, <2>5, <2>0 DEF OpInv, LedOpsOpen, LeadersDiffer
    <3>3. QED  BY <3>1, <3>2
  <2>7. LeadersDiffer'
    BY ONLY OpInv, <2>1, <2>2, <2>3, <2>4, <2>5, <2>0 DEF OpInv, LeadersDiffer
  <2>8. OpenOpsLed'
    BY ONLY OpInv, <2>1, <2>2, <2>3, <2>4, <2>5, <2>0 DEF OpInv, OpenOpsLed
  <2>9. QED  BY <2>6, <2>7, <2>8 DEF OpInv
<1>11. ASSUME NEW p \in Callers, StartLead(p) PROVE OpInv'
  <2>1. ~Leading(p) /\ Leading(p)' /\ op'[p] = nboots + 1 /\ nboots' = nboots + 1
    BY <1>11 DEF StartLead, InStart
  <2>2. \A q \in Callers \ {p} : pc'[q] = pc[q] /\ op'[q] = op[q]
    BY <1>11 DEF StartLead
  <2>3. opErr' = opErr
    BY <1>11 DEF StartLead
  <2>4. nboots + 1 \in Boots
    BY <1>11 DEF StartLead, MaxBoots
  <2>5. \A q \in Callers \ {p} : Leading(q)' <=> Leading(q)
    BY <2>2
  <2>6. \A q \in Callers : Leading(q) => op[q] \in Boots /\ op[q] \in 1..nboots
    BY DEF MaxBoots
  <2>7. NewOpsOpen' /\ LedOpsOpen'
    BY ONLY OpInv, <2>1, <2>2, <2>3, <2>4, <2>5, <2>6, nboots \in Nat, Boots \subseteq Nat DEF OpInv, NewOpsOpen, LedOpsOpen, LeadersDiffer
  <2>8. LeadersDiffer'
    BY ONLY OpInv, <2>1, <2>2, <2>3, <2>4, <2>5, <2>6, nboots \in Nat, Boots \subseteq Nat DEF OpInv, LeadersDiffer
  <2>9. OpenOpsLed'
    BY ONLY OpInv, <2>1, <2>2, <2>3, <2>4, <2>5, <2>6, nboots \in Nat, Boots \subseteq Nat DEF OpInv, OpenOpsLed
  <2>10. QED  BY <2>7, <2>8, <2>9 DEF OpInv
<1>12. QED
  BY ONLY LeaderCases, TypeInv, [Next]_vars, <1>1, <1>2, <1>3, <1>4, <1>5, <1>6, <1>7, <1>8,
     <1>9, <1>10, <1>11 DEF LeaderStep

(* What a leader will publish: nil exactly when it committed. *)
OutcomeInv ==
    /\ \A b \in Boots : opErr[b] # "pending" => (opErr[b] = "ok" <=> b \in committed)
    /\ \A p \in Callers :
         /\ pc[p] \in {"deps", "up", "health", "fail", "commit"} => op[p] \notin committed
         /\ pc[p] \in {"publish", "arm"} => op[p] \in committed /\ ret[p] = "ok"
         /\ pc[p] = "close" => (ret[p] = "ok" <=> op[p] \in committed)

(* The steps of Start keep the result of a leader in line with what it committed.     *)
LEMMA OutcomeStep ==
    ASSUME TypeInv, OpInv, OutcomeInv, [Next]_vars
    PROVE  OutcomeInv'
<1> USE LifecycleAssumption DEF TypeInv, TypeOK, NonNil, Leading, StartPCs, Procs, Boots, At,
        Goto, entryVars, leaseVars, composeVars, bootVars, lazyVars, localVars, OutcomeInv
<1>1. CASE LeaderFrame
  BY <1>1 DEF LeaderFrame
<1>2. ASSUME NEW p \in Callers, StartDependencies(p) PROVE OutcomeInv'
  BY <1>2 DEF StartDependencies
<1>3. ASSUME NEW p \in Callers, ComposeUp(p) PROVE OutcomeInv'
  BY <1>3 DEF ComposeUp
<1>4. ASSUME NEW p \in Callers, CheckHealth(p) PROVE OutcomeInv'
  BY <1>4 DEF CheckHealth
<1>5. ASSUME NEW p \in Callers, FailBoot(p) PROVE OutcomeInv'
  BY <1>5 DEF FailBoot
<1>6. ASSUME NEW p \in Callers, CommitBoot(p) PROVE OutcomeInv'
  <2>1. op[p] \in Boots /\ opErr[op[p]] = "pending"
    BY <1>6 DEF CommitBoot, OpInv, LedOpsOpen, MaxBoots
  <2>2. \A q \in Callers \ {p} : pc[q] \in StartPCs => op[q] # op[p]
    BY <1>6 DEF CommitBoot, OpInv, LeadersDiffer
  <2>3. \A q \in Callers \ {p} : pc'[q] = pc[q] /\ op'[q] = op[q] /\ ret'[q] = ret[q]
    <3>1. op' = op /\ (\E l \in PCs : pc' = [pc EXCEPT ![p] = l])
          /\ (\E r \in {"ok", "err"} : ret' = [ret EXCEPT ![p] = r])
      <4>1. CASE OwnsBoot(p)  BY <1>6, <4>1 DEF CommitBoot, PCs
      <4>2. CASE ~OwnsBoot(p)  BY <1>6, <4>2 DEF CommitBoot, PCs
      <4>3. QED  BY <4>1, <4>2
    <3>2. QED  BY <3>1
  <2>4. opErr' = opErr
    BY <1>6 DEF CommitBoot
  <2>5. CASE OwnsBoot(p)
    <3>1. committed' = committed \cup {op[p]} /\ ret'[p] = "ok" /\ op'[p] = op[p]
          /\ pc'[p] \in {"publish", "close"}
      BY <1>6, <2>5 DEF CommitBoot
    <3>2. \A b \in Boots : opErr[b] # "pending" => b # op[p]
      BY ONLY <2>1
    <3>3. \A b \in Boots : opErr'[b] # "pending" => (opErr'[b] = "ok" <=> b \in committed')
      BY ONLY <3>1, <3>2, <2>4, OutcomeInv DEF OutcomeInv
    <3>4. ASSUME NEW q \in Callers \ {p}, pc[q] \in StartPCs
          PROVE op'[q] \in committed' <=> op[q] \in committed
      BY ONLY <2>2, <2>3, <3>1, <3>4
    <3>5. ASSUME NEW q \in Callers \ {p}
          PROVE /\ pc'[q] \in {"deps", "up", "health", "fail", "commit"} => op'[q] \notin committed'
                /\ pc'[q] \in {"publish", "arm"} => op'[q] \in committed' /\ ret'[q] = "ok"
                /\ pc'[q] = "close" => (ret'[q] = "ok" <=> op'[q] \in committed')
      BY ONLY <2>3, <3>4, OutcomeInv DEF OutcomeInv, StartPCs
    <3>6. /\ pc'[p] \in {"deps", "up", "health", "fail", "commit"} => op'[p] \notin committed'
          /\ pc'[p] \in {"publish", "arm"} => op'[p] \in committed' /\ ret'[p] = "ok"
          /\ pc'[p] = "close" => (ret'[p] = "ok" <=> op'[p] \in committed')
      BY ONLY <3>1
    <3>7. QED  BY ONLY <3>3, <3>5, <3>6 DEF OutcomeInv
  <2>6. CASE ~OwnsBoot(p)
    <3>1. committed' = committed /\ ret'[p] = "err" /\ op'[p] = op[p] /\ pc'[p] = "close"
          /\ op[p] \notin committed
      BY <1>6, <2>6 DEF CommitBoot
    <3>2. \A b \in Boots : opErr'[b] # "pending" => (opErr'[b] = "ok" <=> b \in committed')
      BY ONLY <3>1, <2>4, OutcomeInv DEF OutcomeInv
    <3>3. ASSUME NEW q \in Callers \ {p}
          PROVE /\ pc'[q] \in {"deps", "up", "health", "fail", "commit"} => op'[q] \notin committed'
                /\ pc'[q] \in {"publish", "arm"} => op'[q] \in committed' /\ ret'[q] = "ok"
                /\ pc'[q] = "close" => (ret'[q] = "ok" <=> op'[q] \in committed')
      BY ONLY <2>3, <3>1, OutcomeInv DEF OutcomeInv
    <3>4. QED  BY ONLY <3>1, <3>2, <3>3 DEF OutcomeInv
  <2>7. QED  BY <2>5, <2>6
<1>7. ASSUME NEW p \in Callers, PublishIdleCtrl(p) PROVE OutcomeInv'
  BY <1>7 DEF PublishIdleCtrl
<1>8. ASSUME NEW p \in Callers, ArmIdleCtrl(p) PROVE OutcomeInv'
  BY <1>8 DEF ArmIdleCtrl
<1>9. ASSUME NEW p \in Callers, CloseOp(p) PROVE OutcomeInv'
  BY <1>9 DEF CloseOp, ReturnStart, OpInv, LeadersDiffer, LedOpsOpen
<1>10. ASSUME NEW p \in Callers, StartLead(p) PROVE OutcomeInv'
  BY <1>10 DEF StartLead, InStart, OpInv, NewOpsOpen
<1>11. QED
  BY ONLY LeaderCases, TypeInv, [Next]_vars, <1>1, <1>2, <1>3, <1>4, <1>5, <1>6, <1>7, <1>8,
     <1>9, <1>10 DEF LeaderStep

(* Every open startOp has exactly one leader and every closed one none.         *)
THEOREM LeadersUnique == Spec => []OneLeaderPerOp
<1>1. Init => TypeInv /\ OpInv
  BY InitTypeInv DEF Init, OpInv, NewOpsOpen, LedOpsOpen, LeadersDiffer, OpenOpsLed, Leading,
     StartPCs, Procs
<1>2. TypeInv /\ OpInv /\ [Next]_vars => (TypeInv /\ OpInv)'
  BY TypeStep, OpStep
<1>3. TypeInv /\ OpInv => OneLeaderPerOp
  <2> SUFFICES ASSUME TypeInv, OpInv, NEW b \in Boots
               PROVE  LET leaders == {p \in Callers : Leading(p) /\ op[p] = b} IN
                        IF b <= nboots /\ opErr[b] = "pending"
                          THEN \E p \in Callers : leaders = {p} ELSE leaders = {}
    BY DEF OneLeaderPerOp
  <2>1. CASE b <= nboots /\ opErr[b] = "pending"
    <3>1. PICK p \in Callers : Leading(p) /\ op[p] = b
      BY <2>1 DEF OpInv, OpenOpsLed, Boots
    <3>2. \A q \in Callers : Leading(q) /\ op[q] = b => q = p
      BY <3>1 DEF OpInv, LeadersDiffer
    <3>3. {q \in Callers : Leading(q) /\ op[q] = b} = {p}
      BY <3>1, <3>2
    <3>4. QED  BY <2>1, <3>3
  <2>2. CASE ~(b <= nboots /\ opErr[b] = "pending")
    <3>1. \A q \in Callers : Leading(q) => op[q] <= nboots /\ opErr[op[q]] = "pending"
      BY DEF OpInv, LedOpsOpen, TypeInv, TypeOK, Procs
    <3>2. QED  BY <2>2, <3>1
  <2>3. QED  BY <2>1, <2>2
<1>4. QED  BY <1>1, <1>2, <1>3, PTL DEF Spec

(* A follower's nil is a boot that committed "running", a follower's error one    *)
(* that did not.                                                                  *)
THEOREM OutcomesReal == Spec => []OutcomeIsReal
<1>1. Init => TypeInv /\ OpInv /\ OutcomeInv
  BY InitTypeInv DEF Init, OpInv, NewOpsOpen, LedOpsOpen, LeadersDiffer, OpenOpsLed, Leading,
     StartPCs, Procs, OutcomeInv
<1>2. TypeInv /\ OpInv /\ OutcomeInv /\ [Next]_vars => (TypeInv /\ OpInv /\ OutcomeInv)'
  BY TypeStep, OpStep, OutcomeStep
<1>3. OutcomeInv => OutcomeIsReal
  BY DEF OutcomeInv, OutcomeIsReal
<1>4. QED  BY <1>1, <1>2, <1>3, PTL DEF Spec

-----------------------------------------------------------------------------
(* Actions that neither count a lease nor take a slot. *)
LeaseFrame ==
    /\ UNCHANGED <<leases, slots>>
    /\ \A p \in Callers : Counted(p)' <=> Counted(p)
    /\ \A p \in Callers : HasSlot(p)' <=> HasSlot(p)
    /\ \A p \in Callers : At(p, "sem")' <=> At(p, "sem")

LeaseStep(p) ==
    \/ CountLease(p)
    \/ TakeSlot(p)
    \/ CancelSlot(p)
    \/ UndoSlot(p)
    \/ UndoLease(p)
    \/ Release(p)
    \/ ReleaseLease(p)

(* Of all actions only those of LeaseStep change the counter, the slots or who counts. *)
LEMMA LeaseCases ==
    ASSUME TypeInv, [Next]_vars
    PROVE  LeaseFrame \/ \E p \in Callers : LeaseStep(p)
<1> USE DEF TypeInv, TypeOK, Counted, HasSlot, Procs, At, Goto, entryVars, leaseVars, composeVars,
        bootVars, lazyVars, localVars
<1>1. ASSUME NEW p \in Callers, FollowerWakes(p) PROVE LeaseFrame
  BY <1>1 DEF LeaseFrame, FollowerWakes, ReturnStart
<1>2. ASSUME NEW p \in Callers, StartDependencies(p) PROVE LeaseFrame
  BY <1>2 DEF LeaseFrame, StartDependencies
<1>3. ASSUME NEW p \in Callers, ComposeUp(p) PROVE LeaseFrame
  BY <1>3 DEF LeaseFrame, ComposeUp
<1>4. ASSUME NEW p \in Callers, CheckHealth(p) PROVE LeaseFrame
  BY <1>4 DEF LeaseFrame, CheckHealth
<1>5. ASSUME NEW p \in Callers, FailBoot(p) PROVE LeaseFrame
  BY <1>5 DEF LeaseFrame, FailBoot
<1>6. ASSUME NEW p \in Callers, CommitBoot(p) PROVE LeaseFrame
  BY <1>6 DEF LeaseFrame, CommitBoot, OwnsBoot
<1>7. ASSUME NEW p \in Callers, PublishIdleCtrl(p) PROVE LeaseFrame
  BY <1>7 DEF LeaseFrame, PublishIdleCtrl
<1>8. ASSUME NEW p \in Callers, ArmIdleCtrl(p) PROVE LeaseFrame
  BY <1>8 DEF LeaseFrame, ArmIdleCtrl
<1>9. ASSUME NEW p \in Callers, CloseOp(p) PROVE LeaseFrame
  BY <1>9 DEF LeaseFrame, CloseOp, ReturnStart
<1>10. ASSUME NEW p \in Callers, StartRunning(p) PROVE LeaseFrame
  BY <1>10 DEF LeaseFrame, StartRunning, ReturnStart, InStart
<1>11. ASSUME NEW p \in Callers, StartFollow(p) PROVE LeaseFrame
  BY <1>11 DEF LeaseFrame, StartFollow, InStart
<1>12. ASSUME NEW p \in Callers, StartLead(p) PROVE LeaseFrame
  BY <1>12 DEF LeaseFrame, StartLead, InStart
<1>13. ASSUME NEW p \in Callers, AcquireEager(p) PROVE LeaseFrame
  BY <1>13 DEF LeaseFrame, AcquireEager
<1>14. ASSUME NEW p \in Callers, AcquireLazy(p) PROVE LeaseFrame
  BY <1>14 DEF LeaseFrame, AcquireLazy
<1>15. ASSUME NEW p \in Callers, EnsureFirst(p) PROVE LeaseFrame
  BY <1>15 DEF LeaseFrame, EnsureFirst
<1>16. ASSUME NEW p \in Callers, EnsureStores(p) PROVE LeaseFrame
  BY <1>16 DEF LeaseFrame, EnsureStores
<1>17. ASSUME NEW p \in Callers, EnsureReturns(p) PROVE LeaseFrame
  BY <1>17 DEF LeaseFrame, EnsureReturns
<1>18. ASSUME NEW p \in Callers, ClearFailedBooter(p) PROVE LeaseFrame
  BY <1>18 DEF LeaseFrame, ClearFailedBooter
<1>19. ASSUME NEW p \in Callers, Recheck(p) PROVE LeaseFrame
  BY <1>19 DEF LeaseFrame, Recheck
<1>20. ASSUME NEW p \in Callers, CopyIdleCtrl(p) PROVE LeaseFrame
  BY <1>20 DEF LeaseFrame, CopyIdleCtrl
<1>21. ASSUME NEW p \in Callers, TouchIdleCtrl(p) PROVE LeaseFrame
  BY <1>21 DEF LeaseFrame, TouchIdleCtrl
<1>22. ASSUME NEW p \in Procs, StopStopped(p) PROVE LeaseFrame
  BY <1>22 DEF LeaseFrame, StopStopped, InStop
<1>23. ASSUME NEW p \in Procs, StopBegin(p) PROVE LeaseFrame
  BY <1>23 DEF LeaseFrame, StopBegin, InStop
<1>24. ASSUME NEW p \in Procs, StopIdleCtrl(p) PROVE LeaseFrame
  BY <1>24 DEF LeaseFrame, StopIdleCtrl
<1>25. ASSUME NEW p \in Procs, ComposeDown(p) PROVE LeaseFrame
  BY <1>25 DEF LeaseFrame, ComposeDown
<1>26. ASSUME NEW p \in Procs, StopFails(p) PROVE LeaseFrame
  BY <1>26 DEF LeaseFrame, StopFails
<1>27. ASSUME NEW p \in Procs, StopCommit(p) PROVE LeaseFrame
  BY <1>27 DEF LeaseFrame, StopCommit
<1>28. ASSUME NEW k \in Boots, IdlePeriodElapses(k) PROVE LeaseFrame
  BY <1>28 DEF LeaseFrame, IdlePeriodElapses
<1>29. ASSUME NEW k \in Boots, Fire(k) PROVE LeaseFrame
  BY <1>29 DEF LeaseFrame, Fire
<1>30. CASE UNCHANGED vars
  BY <1>30 DEF vars, LeaseFrame
<1>31. QED
  BY ONLY NextCases, [Next]_vars, <1>1, <1>2, <1>3, <1>4, <1>5, <1>6, <1>7, <1>8,
     <1>9, <1>10, <1>11, <1>12, <1>13, <1>14, <1>15, <1>16, <1>17, <1>18, <1>19, <1>20,
     <1>21, <1>22, <1>23, <1>24, <1>25, <1>26, <1>27, <1>28, <1>29, <1>30 DEF LeaseStep

CountedSet == {p \in Callers : Counted(p)}
SlotSet == {p \in Callers : HasSlot(p)}

(* Both sets are finite; a set that gains or loses one caller changes its size by one. *)
LEMMA SetsFinite ==
    /\ IsFiniteSet(CountedSet) /\ Cardinality(CountedSet) \in Nat
    /\ IsFiniteSet(SlotSet) /\ Cardinality(SlotSet) \in Nat
<1>1. CountedSet \subseteq Callers /\ SlotSet \subseteq Callers /\ IsFiniteSet(Callers)
  BY LifecycleAssumption DEF CountedSet, SlotSet
<1>2. QED  BY <1>1, FS_Subset, FS_CardinalityType

(* Each of these adds or removes one caller and one unit, or neither.                 *)
LEMMA LeaseStepBalance ==
    ASSUME TypeInv, LeasesBalance, NEW p \in Callers, LeaseStep(p)
    PROVE  LeasesBalance'
<1> USE DEF TypeInv, TypeOK, Procs, At, Goto, entryVars, leaseVars, composeVars, bootVars, lazyVars,
        localVars
<1> DEFINE Gains(S, T) == p \notin S /\ T = S \cup {p}
           Loses(S, T) == p \in S /\ T = S \ {p}
<1>a. ASSUME Gains(CountedSet, CountedSet')
      PROVE  Cardinality(CountedSet') = Cardinality(CountedSet) + 1
  BY <1>a, SetsFinite, FS_AddElement
<1>b. ASSUME Loses(CountedSet, CountedSet')
      PROVE  Cardinality(CountedSet') = Cardinality(CountedSet) - 1
  BY <1>b, SetsFinite, FS_RemoveElement
<1>c. ASSUME Gains(SlotSet, SlotSet')
      PROVE  Cardinality(SlotSet') = Cardinality(SlotSet) + 1
  BY <1>c, SetsFinite, FS_AddElement
<1>d. ASSUME Loses(SlotSet, SlotSet')
      PROVE  Cardinality(SlotSet') = Cardinality(SlotSet) - 1 /\ Cardinality(SlotSet) > 0
  <2>1. Cardinality(SlotSet') = Cardinality(SlotSet) - 1 /\ Cardinality(SlotSet') \in Nat
    BY <1>d, SetsFinite, FS_RemoveElement, FS_CardinalityType
  <2>2. QED  BY <2>1, SetsFinite
<1>1. CASE CountLease(p)
  <2>1. CASE state = "running"
    <3>1. Gains(CountedSet, CountedSet') /\ leases' = leases + 1 /\ slots' = slots
      BY <1>1, <2>1 DEF CountLease, CountedSet, Counted
    <3>2. MaxConcurrent > 0 => SlotSet' = SlotSet
      BY <1>1, <2>1 DEF CountLease, SlotSet, HasSlot
    <3>3. QED  BY <3>1, <3>2, <1>a DEF LeasesBalance, CountedSet, SlotSet
  <2>2. CASE state # "running"
    <3>1. CountedSet' = CountedSet /\ SlotSet' = SlotSet /\ leases' = leases /\ slots' = slots
      BY <1>1, <2>2 DEF CountLease, CountedSet, Counted, SlotSet, HasSlot
    <3>2. QED  BY <3>1 DEF LeasesBalance, CountedSet, SlotSet
  <2>3. QED  BY <2>1, <2>2
<1>2. CASE TakeSlot(p)
  <2>1. CountedSet' = CountedSet /\ Gains(SlotSet, SlotSet')
    BY <1>2 DEF TakeSlot, CountedSet, Counted, SlotSet, HasSlot
  <2>2. leases' = leases /\ slots' = slots + 1 /\ slots < MaxConcurrent
    BY <1>2 DEF TakeSlot
  <2>3. Cardinality(SlotSet') = Cardinality(SlotSet) + 1
    BY <2>1, <1>c
  <2>4. slots \in Nat /\ MaxConcurrent \in Nat
    BY LifecycleAssumption
  <2>5. QED
    BY ONLY <2>1, <2>2, <2>3, <2>4, LeasesBalance DEF LeasesBalance, CountedSet, SlotSet
<1>3. CASE CancelSlot(p) \/ UndoLease(p) \/ ReleaseLease(p)
  <2>1. Loses(CountedSet, CountedSet') /\ SlotSet' = SlotSet
    BY <1>3 DEF CancelSlot, UndoLease, ReleaseLease, CountedSet, Counted, SlotSet, HasSlot
  <2>2. leases' = leases - 1 /\ slots' = slots
    BY <1>3 DEF CancelSlot, UndoLease, ReleaseLease
  <2>3. QED  BY <2>1, <2>2, <1>b DEF LeasesBalance, CountedSet, SlotSet
<1>4. CASE UndoSlot(p) \/ Release(p)
  <2>1. CountedSet' = CountedSet /\ Loses(SlotSet, SlotSet')
    BY <1>4 DEF UndoSlot, Release, CountedSet, Counted, SlotSet, HasSlot
  <2>2. leases' = leases /\ (MaxConcurrent > 0 /\ slots > 0 => slots' = slots - 1)
    BY <1>4 DEF UndoSlot, Release, ReleaseSlot
  <2>3. Cardinality(SlotSet') = Cardinality(SlotSet) - 1 /\ Cardinality(SlotSet) > 0
    BY <2>1, <1>d
  <2>4. slots \in Nat /\ MaxConcurrent \in Nat
    BY LifecycleAssumption
  <2>5. QED
    BY ONLY <2>1, <2>2, <2>3, <2>4, LeasesBalance DEF LeasesBalance, CountedSet, SlotSet
<1>5. QED  BY <1>1, <1>2, <1>3, <1>4 DEF LeaseStep

(* No lease is counted and no slot taken when the service is registered. *)
LEMMA InitBalance == Init => LeasesBalance
<1> SUFFICES ASSUME Init PROVE LeasesBalance
  OBVIOUS
<1>1. CountedSet = {} /\ SlotSet = {}
  BY DEF Init, CountedSet, SlotSet, Counted, HasSlot, Procs
<1>2. leases = 0 /\ slots = 0
  BY DEF Init
<1>3. Cardinality(CountedSet) = 0 /\ Cardinality(SlotSet) = 0
  BY ONLY <1>1, FS_EmptySet
<1>4. MaxConcurrent \in Nat
  BY LifecycleAssumption
<1>5. QED  BY ONLY <1>2, <1>3, <1>4 DEF LeasesBalance, CountedSet, SlotSet

(* With the type invariant the balance is inductive. *)
LEMMA BalanceStep == TypeInv /\ LeasesBalance /\ [Next]_vars => TypeInv' /\ LeasesBalance'
<1> SUFFICES ASSUME TypeInv, LeasesBalance, [Next]_vars PROVE LeasesBalance'
  BY TypeStep
<1>1. CASE LeaseFrame
  <2>1. CountedSet' = CountedSet /\ SlotSet' = SlotSet /\ UNCHANGED <<leases, slots>>
    BY <1>1 DEF LeaseFrame, CountedSet, SlotSet
  <2>2. QED  BY <2>1 DEF LeasesBalance, CountedSet, SlotSet
<1>2. QED  BY <1>1, LeaseCases, LeaseStepBalance

(* The lease counter is the number of counted leases and the semaphore holds one  *)
(* token per slot taken, never more than MaxConcurrent, on every path.            *)
THEOREM LeasesStayBalanced == Spec => []LeasesBalance
BY InitTypeInv, InitBalance, BalanceStep, PTL DEF Spec

-----------------------------------------------------------------------------
(* A step outside LeaseStep is a stutter of the abstract leases. *)
LEMMA LeaseFrameStutters ==
    ASSUME LeaseFrame
    PROVE  LeasePhase' = LeasePhase
BY DEF LeaseFrame, LeasePhase

(* The slots taken are the leases the abstract specification has granted. *)
LEMMA GrantedAreSlots == Leases!In("granted") = SlotSet
BY DEF Leases!In, LeasePhase, SlotSet, HasSlot, At

(* Each step on the counter, the channel or a lease's place is one abstract step:     *)
(* a caller asks, is granted a slot that is free, gives up, gives back or leaves.     *)
LEMMA LeaseStepImplements ==
    ASSUME TypeInv, LeasesBalance, NEW p \in Callers, LeaseStep(p)
    PROVE  Leases!Next \/ LeasePhase' = LeasePhase
<1> USE DEF TypeInv, TypeOK, Procs, At, Goto, LeasePhase, HasSlot, Counted, Leases!Move
<1>1. CASE CountLease(p)
  <2>1. CASE state = "running"
    <3>1. Leases!Ask(p)
      BY <1>1, <2>1, LifecycleAssumption DEF CountLease, Leases!Ask
    <3>2. QED  BY ONLY <3>1, p \in Callers DEF Leases!Next
  <2>2. CASE state # "running"
    BY <1>1, <2>2 DEF CountLease
  <2>3. QED  BY <2>1, <2>2
<1>2. CASE TakeSlot(p)
  <2>1. Leases!Move(p, "waiting", "granted")
    BY <1>2 DEF TakeSlot
  <2>2. slots < MaxConcurrent /\ slots \in Nat /\ MaxConcurrent \in Nat
    BY <1>2, LifecycleAssumption DEF TakeSlot
  <2>3. slots = Cardinality(SlotSet)
    BY ONLY <2>2, LeasesBalance DEF LeasesBalance, SlotSet
  <2>4. Cardinality(Leases!In("granted")) < MaxConcurrent
    BY ONLY <2>2, <2>3, GrantedAreSlots
  <2>5. Leases!Grant(p)
    <3> HIDE DEF LeasePhase, HasSlot, Counted, At, Leases!Move
    <3>1. QED  BY ONLY <2>1, <2>4 DEF Leases!Grant, Cardinality, Leases!Cardinality
  <2>6. QED  BY ONLY <2>5, p \in Callers DEF Leases!Next
<1>3. CASE CancelSlot(p)
  <2>1. Leases!GiveUp(p)
    BY <1>3 DEF CancelSlot, Leases!GiveUp
  <2>2. QED  BY ONLY <2>1, p \in Callers DEF Leases!Next
<1>4. CASE UndoSlot(p) \/ Release(p)
  <2>1. Leases!GiveBack(p)
    BY <1>4 DEF UndoSlot, Release, Leases!GiveBack
  <2>2. QED  BY ONLY <2>1, p \in Callers DEF Leases!Next
<1>5. CASE UndoLease(p) \/ ReleaseLease(p)
  <2>1. Leases!Leave(p)
    BY <1>5 DEF UndoLease, ReleaseLease, Leases!Leave
  <2>2. QED  BY ONLY <2>1, p \in Callers DEF Leases!Next
<1>6. QED  BY <1>1, <1>2, <1>3, <1>4, <1>5 DEF LeaseStep

(* Acquire and the ReleaseFunc implement the abstract leases for any callers, limit,  *)
(* boots and faults: LeasesBalance is what makes the channel's length the number of   *)
(* leases granted, so that a token sent is a slot that was free.                      *)
THEOREM LeasesImplemented == Spec => ImplementsLease
<1>1. Init => Leases!Init
  BY DEF Init, Leases!Init, LeasePhase, HasSlot, Counted, At, Procs
<1>2. TypeInv /\ LeasesBalance /\ [Next]_vars => [Leases!Next]_LeasePhase
  BY LeaseCases, LeaseFrameStutters, LeaseStepImplements
<1>3. QED
  BY <1>1, <1>2, InitTypeInv, InitBalance, BalanceStep, PTL DEF Spec, ImplementsLease, Leases!Spec
=============================================================================
