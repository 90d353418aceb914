--------------------------- MODULE LifecycleProofs ---------------------------
(* Proofs about one service of the lifecycle manager, for any callers and bounds. *)
EXTENDS Lifecycle, FiniteSetTheorems, TLAPS

(* Pointers that are dereferenced are not nil. *)
NonNil ==
    /\ state = "starting" => startOp # 0
    /\ \A p \in Procs : pc[p] \in StartPCs \cup {"follow"} => op[p] # 0
    /\ \A p \in Procs : pc[p] \in {"ensure", "boot", "booted"} => lb[p] # 0

TypeInv == TypeOK /\ NonNil

(* Next, one disjunct per action. *)
LEMMA NextCases ==
    ASSUME Next
    PROVE  \/ \E p \in Callers :
              \/ FollowerWakes(p)
              \/ StartDependencies(p)
              \/ ComposeUp(p)
              \/ CheckHealth(p)
              \/ FailBoot(p)
              \/ CommitBoot(p)
              \/ PublishIdleCtrl(p)
              \/ ArmIdleCtrl(p)
              \/ CloseOp(p)
              \/ StartRunning(p)
              \/ StartFollow(p)
              \/ StartLead(p)
              \/ AcquireEager(p)
              \/ AcquireLazy(p)
              \/ EnsureFirst(p)
              \/ EnsureStores(p)
              \/ EnsureReturns(p)
              \/ ClearFailedBooter(p)
              \/ CountLease(p)
              \/ TakeSlot(p)
              \/ CancelSlot(p)
              \/ Recheck(p)
              \/ UndoSlot(p)
              \/ UndoLease(p)
              \/ CopyIdleCtrl(p)
              \/ TouchIdleCtrl(p)
              \/ Release(p)
              \/ ReleaseLease(p)
           \/ \E p \in Procs :
              \/ StopStopped(p)
              \/ StopBegin(p)
              \/ StopIdleCtrl(p)
              \/ ComposeDown(p)
              \/ StopFails(p)
              \/ StopCommit(p)
           \/ \E k \in Boots : IdlePeriodElapses(k) \/ Fire(k)
  BY DEF Next, StartStep, StopStep, AcquireStep, Call, Procs

(* What a returning Start leaves behind. *)
StartReturned(p) ==
    /\ pc' \in [Procs -> PCs]
    /\ op' \in [Procs -> 0..nboots]
    /\ ret' \in [Procs -> {"ok", "err"}]
    /\ UNCHANGED <<lb, ctl>>
    /\ pc'[p] \in {"idle", "booted"}
    /\ pc'[p] = "booted" => lb[p] # 0
    /\ \A q \in Procs \ {p} : pc'[q] = pc[q] /\ op'[q] = op[q]

(* ReturnStart keeps the types and touches only its goroutine. *)
LEMMA ReturnStartType ==
    ASSUME TypeInv, NEW p \in Callers, NEW r \in {"ok", "err"}, ReturnStart(p, r)
    PROVE  StartReturned(p)
<1> p \in Procs
  BY DEF Procs
<1>1. CASE lb[p] = 0
  BY <1>1 DEF StartReturned, ReturnStart, Goto, TypeInv, TypeOK, PCs
<1>2. CASE lb[p] # 0
  BY <1>2 DEF StartReturned, ReturnStart, Goto, TypeInv, TypeOK, PCs, AcquirePCs
<1>3. QED  BY <1>1, <1>2

(* Nor does anything else change type when a Start returns. *)
LEMMA StartReturnedType ==
    ASSUME TypeInv, NEW p \in Callers, StartReturned(p),
           UNCHANGED <<entryVars, leaseVars, composeVars, nboots, committed, lazyVars, timer>>,
           opErr' \in [Boots -> {"pending", "ok", "err"}]
    PROVE  TypeInv'
<1>1. /\ pc' \in [Procs -> PCs]
      /\ op' \in [Procs -> 0..nboots]
      /\ ret' \in [Procs -> {"ok", "err"}]
      /\ UNCHANGED <<lb, ctl>>
  BY DEF StartReturned
<1>2. /\ UNCHANGED <<state, healthy, startOp, idleCtrl, lazyBooter, leases, slots, stack, downErr>>
      /\ UNCHANGED <<nboots, committed, nbooters, booter, timer>>
  BY DEF entryVars, leaseVars, composeVars, lazyVars
<1>3. TypeOK'
  BY ONLY TypeInv, <1>1, <1>2, opErr' \in [Boots -> {"pending", "ok", "err"}]
     DEF TypeInv, TypeOK
<1>4. NonNil'
  <2>1. NonNil
    BY DEF TypeInv
  <2>2. /\ pc'[p] \in {"idle", "booted"} /\ (pc'[p] = "booted" => lb[p] # 0)
        /\ \A q \in Procs : q = p \/ (pc'[q] = pc[q] /\ op'[q] = op[q])
    BY DEF StartReturned
  <2>3. QED  BY ONLY <1>1, <1>2, <2>1, <2>2 DEF NonNil, StartPCs
<1>5. QED  BY ONLY <1>3, <1>4 DEF TypeInv

(* A goroutine that goes on outside Start and EnsureStarted needs no pointer. *)
LEMMA NonNilStep ==
    ASSUME TypeInv, NEW p \in Procs,
           NEW l \in PCs \ (StartPCs \cup {"follow", "ensure", "boot", "booted"}),
           Goto(p, l), UNCHANGED <<startOp, op>>, state' = "starting" => state = "starting",
           \A q \in Procs : q # p => lb'[q] = lb[q]
    PROVE  pc' \in [Procs -> PCs] /\ NonNil'
<1>1. pc \in [Procs -> PCs] /\ NonNil
  BY DEF TypeInv, TypeOK
<1>2. pc' \in [Procs -> PCs]
  BY ONLY <1>1, Goto(p, l), l \in PCs \ (StartPCs \cup {"follow", "ensure", "boot", "booted"})
     DEF Goto
<1>3. \A q \in Procs : pc'[q] = IF q = p THEN l ELSE pc[q]
  BY ONLY <1>1, Goto(p, l), p \in Procs DEF Goto
<1>4. NonNil'
  BY <1>1, <1>3 DEF NonNil
<1>5. QED  BY ONLY <1>2, <1>4

Outside == PCs \ (StartPCs \cup {"follow", "ensure", "boot", "booted"})

(* Such a step, if it touches only the lease counts, the timers and its own copies. *)
LEMMA QuietStep ==
    ASSUME TypeInv, NEW p \in Procs, NEW l \in Outside, Goto(p, l),
           UNCHANGED <<entryVars, composeVars, bootVars, lazyVars, op, ret>>,
           leases' \in Int, slots' \in Nat,
           timer' \in [Boots -> SUBSET {"armed", "stopped", "elapsed"}],
           lb' \in [Procs -> 0..nbooters], \A q \in Procs : q # p => lb'[q] = lb[q],
           ctl' \in [Procs -> 0..nboots]
    PROVE  TypeInv'
<1>1. /\ UNCHANGED <<state, healthy, startOp, idleCtrl, lazyBooter, stack, downErr, nboots>>
      /\ UNCHANGED <<opErr, committed, nbooters, booter, op, ret>>
  BY DEF entryVars, composeVars, bootVars, lazyVars
<1>2. pc' \in [Procs -> PCs] /\ NonNil'
  BY NonNilStep, <1>1 DEF Outside
<1>3. QED  BY <1>1, <1>2 DEF TypeInv, TypeOK

(* Every action of Start, Stop, Acquire, ReleaseFunc and the timers keeps the types. *)
LEMMA TypeStep ==
    ASSUME TypeInv, [Next]_vars
    PROVE  TypeInv'
<1> USE LifecycleAssumption DEF TypeInv, TypeOK, NonNil, States, PCs, StartPCs, StopPCs,
        AcquirePCs, ReleasePCs, Boots, Booters, Procs, MaxBoots, entryVars, leaseVars, composeVars,
        bootVars, lazyVars, localVars
<1>1. CASE UNCHANGED vars
  BY <1>1 DEF vars
<1>t. /\ leases \in Int /\ slots \in Nat /\ idleCtrl \in 0..nboots
      /\ timer \in [Boots -> SUBSET {"armed", "stopped", "elapsed"}]
      /\ lb \in [Procs -> 0..nbooters] /\ ctl \in [Procs -> 0..nboots]
      /\ nboots \in Nat /\ nbooters \in Nat
      /\ Callers \subseteq Procs /\ Boots \subseteq Procs
  BY DEF TypeInv, TypeOK, Procs
<1>l. {"idle", "held", "onIdle", "count", "unpoison", "sem", "recheck", "touchRead", "touch",
       "undoSlot", "undoLease", "relLease", "relRead", "relTouch", "down"} \subseteq Outside
  BY ONLY DEF Outside, PCs, StartPCs, StopPCs, AcquirePCs, ReleasePCs
<1>2. ASSUME NEW p \in Callers, FollowerWakes(p) PROVE TypeInv'
  <2>1. opErr[op[p]] \in {"ok", "err"}
    BY <1>2 DEF FollowerWakes, At
  <2>2. StartReturned(p)
    BY ONLY TypeInv, <2>1, <1>2, ReturnStartType DEF FollowerWakes
  <2>3. QED  BY ONLY TypeInv, p \in Callers, <1>2, <2>2, StartReturnedType
          DEF FollowerWakes, bootVars, TypeInv, TypeOK
<1>3. ASSUME NEW p \in Callers, StartDependencies(p) PROVE TypeInv'
  <2>1. PICK l \in {"up", "fail"} : Goto(p, l)
    BY <1>3 DEF StartDependencies
  <2>2. QED  BY <1>3, <2>1 DEF StartDependencies, At, Goto
<1>4. ASSUME NEW p \in Callers, ComposeUp(p) PROVE TypeInv'
  <2>1. PICK l \in {"health", "fail"} : Goto(p, l)
    BY <1>4 DEF ComposeUp
  <2>2. stack' \in {"up", "down"}
    BY <1>4 DEF ComposeUp
  <2>3. QED  BY <1>4, <2>1, <2>2 DEF ComposeUp, At, Goto
<1>5. ASSUME NEW p \in Callers, CheckHealth(p) PROVE TypeInv'
  <2>1. PICK l \in {"commit", "fail"} : Goto(p, l)
    BY <1>5 DEF CheckHealth
  <2>2. healthy' \in BOOLEAN
    BY <1>5 DEF CheckHealth
  <2>3. QED  BY <1>5, <2>1, <2>2 DEF CheckHealth, At, Goto
<1>6. ASSUME NEW p \in Callers, FailBoot(p) PROVE TypeInv'
  BY <1>6 DEF FailBoot, ReturnStart, InStart, InStop, OwnsBoot, ReleaseSlot, At, Goto
<1>7. ASSUME NEW p \in Callers, CommitBoot(p) PROVE TypeInv'
  <2>1. CASE OwnsBoot(p)
    <3>1. PICK l \in {"publish", "close"} : Goto(p, l)
      BY <1>7, <2>1 DEF CommitBoot
    <3>2. op[p] \in 1..nboots
      BY <1>7 DEF CommitBoot, At
    <3>3. committed' \subseteq 1..nboots
      <4>1. committed' = committed \cup {op[p]}
        BY ONLY <1>7, <2>1 DEF CommitBoot
      <4>2. committed \subseteq 1..nboots
        BY DEF TypeOK
      <4>3. QED  BY ONLY <3>2, <4>1, <4>2
    <3>4. QED  BY <1>7, <2>1, <3>1, <3>3 DEF CommitBoot, At, Goto
  <2>2. CASE ~OwnsBoot(p)
    <3>1. state' \in States /\ (state' = "starting" => state = "starting")
      BY <1>7, <2>2 DEF CommitBoot
    <3>2. healthy' \in BOOLEAN
      BY <1>7, <2>2 DEF CommitBoot
    <3>3. Goto(p, "close") /\ ret' = [ret EXCEPT ![p] = "err"]
      BY ONLY <1>7, <2>2 DEF CommitBoot
    <3>4. pc[p] = "commit" /\ UNCHANGED committed
      BY ONLY <1>7, <2>2 DEF CommitBoot, At
    <3>5. /\ UNCHANGED <<startOp, idleCtrl, lazyBooter, leases, slots, stack, downErr, nboots>>
          /\ UNCHANGED <<opErr, nbooters, booter, timer, op, lb, ctl>>
      BY ONLY <1>7 DEF CommitBoot, leaseVars, composeVars, lazyVars
    <3>6. pc' \in [Procs -> PCs] /\ ret' \in [Procs -> {"ok", "err"}]
      BY ONLY TypeInv, <3>3 DEF TypeInv, TypeOK, Goto, PCs, StartPCs
    <3>7. TypeOK'
      BY ONLY TypeInv, <3>1, <3>2, <3>4, <3>5, <3>6 DEF TypeInv, TypeOK
    <3>8. \A q \in Procs : pc'[q] = pc[q] \/ (q = p /\ pc'[q] = "close")
      BY ONLY TypeInv, <3>3 DEF TypeInv, TypeOK, Goto
    <3>9. NonNil'
      BY ONLY TypeInv, <3>1, <3>4, <3>5, <3>8 DEF TypeInv, NonNil, StartPCs
    <3>10. QED  BY ONLY <3>7, <3>9 DEF TypeInv
  <2>3. QED  BY <2>1, <2>2
<1>8. ASSUME NEW p \in Callers, PublishIdleCtrl(p) PROVE TypeInv'
  BY <1>8 DEF PublishIdleCtrl, ReturnStart, InStart, InStop, OwnsBoot, ReleaseSlot, At, Goto
<1>9. ASSUME NEW p \in Callers, ArmIdleCtrl(p) PROVE TypeInv'
  BY <1>9 DEF ArmIdleCtrl, ReturnStart, InStart, InStop, OwnsBoot, ReleaseSlot, At, Goto
<1>10. ASSUME NEW p \in Callers, CloseOp(p) PROVE TypeInv'
  <2>1. ret[p] \in {"ok", "err"} /\ opErr' \in [Boots -> {"pending", "ok", "err"}]
    BY <1>10 DEF CloseOp, At
  <2>2. StartReturned(p)
    BY ONLY TypeInv, <2>1, <1>10, ReturnStartType DEF CloseOp
  <2>3. UNCHANGED <<entryVars, leaseVars, composeVars, nboots, committed, lazyVars, timer>>
    BY ONLY <1>10 DEF CloseOp
  <2>4. QED  BY ONLY TypeInv, p \in Callers, <2>1, <2>2, <2>3, StartReturnedType
<1>11. ASSUME NEW p \in Callers, StartRunning(p) PROVE TypeInv'
  <2>1. StartReturned(p)
    BY ONLY TypeInv, <1>11, ReturnStartType DEF StartRunning
  <2>2. QED  BY ONLY TypeInv, p \in Callers, <1>11, <2>1, StartReturnedType
          DEF StartRunning, bootVars, TypeInv, TypeOK
<1>12. ASSUME NEW p \in Callers, StartFollow(p) PROVE TypeInv'
  BY <1>12 DEF StartFollow, ReturnStart, InStart, InStop, OwnsBoot, ReleaseSlot, At, Goto
<1>13. ASSUME NEW p \in Callers, StartLead(p) PROVE TypeInv'
  <2>1. /\ nboots' = nboots + 1 /\ nboots < MaxBoots /\ state' = "starting"
        /\ startOp' = nboots + 1
        /\ op' = [op EXCEPT ![p] = nboots + 1] /\ pc' = [pc EXCEPT ![p] = "deps"]
        /\ UNCHANGED <<healthy, idleCtrl, lazyBooter, leases, slots, stack, downErr, opErr>>
        /\ UNCHANGED <<committed, nbooters, booter, timer, lb, ctl, ret>>
    BY ONLY <1>13 DEF StartLead, Goto, leaseVars, composeVars, lazyVars
  <2>2. nboots \in Nat /\ nboots' \in 0..MaxBoots /\ nboots' \in Nat
    BY ONLY TypeInv, <2>1, LifecycleAssumption DEF TypeInv, TypeOK, MaxBoots
  <2>3. 0..nboots \subseteq 0..nboots' /\ 1..nboots \subseteq 1..nboots'
    BY ONLY <2>1, <2>2
  <2>4. /\ op' \in [Procs -> 0..nboots'] /\ ctl' \in [Procs -> 0..nboots']
        /\ pc' \in [Procs -> PCs]
    <3>1. nboots + 1 \in 0..nboots'
      BY ONLY <2>1, <2>2
    <3>2. op \in [Procs -> 0..nboots'] /\ ctl \in [Procs -> 0..nboots']
      BY ONLY TypeInv, <2>3 DEF TypeInv, TypeOK
    <3>3. pc' \in [Procs -> PCs]
      BY ONLY TypeInv, <2>1 DEF TypeInv, TypeOK, PCs, StartPCs
    <3>4. QED  BY ONLY <2>1, <3>1, <3>2, <3>3
  <2>5. /\ startOp' \in 0..nboots' /\ idleCtrl' \in 0..nboots' /\ committed' \subseteq 1..nboots'
    BY ONLY TypeInv, <2>1, <2>2, <2>3 DEF TypeInv, TypeOK
  <2>6. TypeOK'
    BY ONLY TypeInv, <2>1, <2>2, <2>4, <2>5 DEF TypeInv, TypeOK, States
  <2>7. \A q \in Procs : pc'[q] = (IF q = p THEN "deps" ELSE pc[q])
    BY ONLY TypeInv, <2>1, p \in Procs DEF TypeInv, TypeOK
  <2>8. \A q \in Procs : op'[q] = (IF q = p THEN nboots + 1 ELSE op[q])
    BY ONLY TypeInv, <2>1, p \in Procs DEF TypeInv, TypeOK
  <2>9. nboots + 1 # 0
    BY ONLY <2>2
  <2>10. NonNil'
    BY ONLY TypeInv, <2>1, <2>7, <2>8, <2>9 DEF TypeInv, NonNil
  <2>11. QED  BY ONLY <2>6, <2>10 DEF TypeInv
<1>14. ASSUME NEW p \in Callers, AcquireEager(p) PROVE TypeInv'
  <2>1. PICK l \in {"count"} : Goto(p, l)
    BY ONLY <1>14 DEF AcquireEager
  <2>2. UNCHANGED <<entryVars, composeVars, bootVars, lazyVars, op, ret, leases, slots, timer, lb, ctl>>
    BY ONLY <1>14 DEF AcquireEager, leaseVars, localVars
  <2>3. QED  BY ONLY TypeInv, p \in Callers, <1>t, <1>l, <2>1, <2>2, QuietStep
<1>15. ASSUME NEW p \in Callers, AcquireLazy(p) PROVE TypeInv'
  <2>1. /\ Goto(p, "ensure") /\ lb' = [lb EXCEPT ![p] = lazyBooter']
        /\ UNCHANGED <<state, healthy, startOp, idleCtrl, leases, slots, stack, downErr>>
        /\ UNCHANGED <<nboots, opErr, committed, booter, timer, op, ctl, ret>>
    BY ONLY <1>15 DEF AcquireLazy, leaseVars, composeVars, bootVars
  <2>2. \/ UNCHANGED <<nbooters, lazyBooter>> /\ lazyBooter # 0
        \/ nbooters < MaxBooters /\ nbooters' = nbooters + 1 /\ lazyBooter' = nbooters + 1
    BY ONLY <1>15 DEF AcquireLazy
  <2>3. nbooters \in 0..MaxBooters /\ MaxBooters \in Nat /\ lazyBooter \in 0..nbooters
    BY ONLY TypeInv, LifecycleAssumption DEF TypeInv, TypeOK
  <2>4. /\ nbooters' \in 0..MaxBooters /\ lazyBooter' \in 0..nbooters' /\ lazyBooter' # 0
        /\ 0..nbooters \subseteq 0..nbooters'
    BY ONLY <2>2, <2>3
  <2>5. lb' \in [Procs -> 0..nbooters'] /\ \A q \in Procs : lb'[q] = lb[q] \/ q = p
    BY ONLY <1>t, <2>1, <2>4
  <2>6. pc' \in [Procs -> PCs] /\ \A q \in Procs : pc'[q] = IF q = p THEN "ensure" ELSE pc[q]
    BY ONLY TypeInv, <1>t, <2>1, p \in Callers DEF TypeInv, TypeOK, Goto, PCs, AcquirePCs
  <2>7. TypeOK'
    BY ONLY TypeInv, <2>1, <2>4, <2>5, <2>6 DEF TypeInv, TypeOK
  <2>8. lb'[p] # 0
    BY ONLY <1>t, <2>1, <2>4, p \in Callers
  <2>9. NonNil'
    BY ONLY TypeInv, <2>1, <2>5, <2>6, <2>8 DEF TypeInv, NonNil, StartPCs
  <2>10. QED  BY ONLY <2>7, <2>9 DEF TypeInv
<1>16. ASSUME NEW p \in Callers, EnsureFirst(p) PROVE TypeInv'
  BY <1>16 DEF EnsureFirst, ReturnStart, InStart, InStop, OwnsBoot, ReleaseSlot, At, Goto
<1>17. ASSUME NEW p \in Callers, EnsureStores(p) PROVE TypeInv'
  BY <1>17 DEF EnsureStores, ReturnStart, InStart, InStop, OwnsBoot, ReleaseSlot, At, Goto
<1>18. ASSUME NEW p \in Callers, EnsureReturns(p) PROVE TypeInv'
  <2>1. PICK l \in {"count", "unpoison"} : Goto(p, l)
    BY ONLY <1>18 DEF EnsureReturns
  <2>2. UNCHANGED <<entryVars, composeVars, bootVars, lazyVars, op, ret, leases, slots, timer, ctl>>
    BY ONLY <1>18 DEF EnsureReturns, leaseVars, localVars
  <2>3. lb' \in [Procs -> 0..nbooters] /\ \A q \in Procs : q # p => lb'[q] = lb[q]
    <3>1. UNCHANGED lb \/ lb' = [lb EXCEPT ![p] = 0]
      BY ONLY <1>18 DEF EnsureReturns
    <3>2. 0 \in 0..nbooters
      BY ONLY <1>t
    <3>3. QED  BY ONLY <3>1, <3>2, <1>t
  <2>4. QED  BY ONLY TypeInv, p \in Callers, <1>t, <1>l, <2>1, <2>2, <2>3, QuietStep
<1>19. ASSUME NEW p \in Callers, ClearFailedBooter(p) PROVE TypeInv'
  <2>1. /\ Goto(p, "idle") /\ lb' = [lb EXCEPT ![p] = 0]
        /\ lazyBooter' = 0 \/ UNCHANGED lazyBooter
        /\ UNCHANGED <<state, healthy, startOp, idleCtrl, leases, slots, stack, downErr>>
        /\ UNCHANGED <<nboots, opErr, committed, nbooters, booter, timer, op, ctl, ret>>
    BY ONLY <1>19 DEF ClearFailedBooter, leaseVars, composeVars, bootVars, lazyVars
  <2>2. lb' \in [Procs -> 0..nbooters] /\ lazyBooter' \in 0..nbooters
    BY ONLY TypeInv, <2>1 DEF TypeInv, TypeOK
  <2>3. \A q \in Procs : q # p => lb'[q] = lb[q]
    BY ONLY TypeInv, <2>1 DEF TypeInv, TypeOK
  <2>4. pc' \in [Procs -> PCs] /\ NonNil'
    <3>1. "idle" \in PCs \ (StartPCs \cup {"follow", "ensure", "boot", "booted"})
      BY ONLY DEF PCs, StartPCs
    <3>2. QED  BY ONLY TypeInv, p \in Procs, <2>1, <2>3, <3>1, NonNilStep
  <2>5. QED  BY ONLY TypeInv, <2>1, <2>2, <2>4 DEF TypeInv, TypeOK
<1>20. ASSUME NEW p \in Callers, CountLease(p) PROVE TypeInv'
  <2>1. PICK l \in {"sem", "recheck", "idle"} : Goto(p, l)
    BY ONLY <1>20 DEF CountLease
  <2>2. UNCHANGED <<entryVars, composeVars, bootVars, lazyVars, op, ret, slots, timer, lb, ctl>>
    BY ONLY <1>20 DEF CountLease, leaseVars, localVars
  <2>3. leases' \in Int
    BY ONLY <1>20, <1>t DEF CountLease
  <2>4. QED  BY ONLY TypeInv, p \in Callers, <1>t, <1>l, <2>1, <2>2, <2>3, QuietStep
<1>21. ASSUME NEW p \in Callers, TakeSlot(p) PROVE TypeInv'
  <2>1. PICK l \in {"recheck"} : Goto(p, l)
    BY ONLY <1>21 DEF TakeSlot
  <2>2. UNCHANGED <<entryVars, composeVars, bootVars, lazyVars, op, ret, leases, timer, lb, ctl>>
    BY ONLY <1>21 DEF TakeSlot, leaseVars, localVars
  <2>3. slots' \in Nat
    BY ONLY <1>21, <1>t DEF TakeSlot
  <2>4. QED  BY ONLY TypeInv, p \in Callers, <1>t, <1>l, <2>1, <2>2, <2>3, QuietStep
<1>22. ASSUME NEW p \in Callers, CancelSlot(p) PROVE TypeInv'
  <2>1. PICK l \in {"idle"} : Goto(p, l)
    BY ONLY <1>22 DEF CancelSlot
  <2>2. UNCHANGED <<entryVars, composeVars, bootVars, lazyVars, op, ret, slots, timer, lb, ctl>>
    BY ONLY <1>22 DEF CancelSlot, leaseVars, localVars
  <2>3. leases' \in Int
    BY ONLY <1>22, <1>t DEF CancelSlot
  <2>4. QED  BY ONLY TypeInv, p \in Callers, <1>t, <1>l, <2>1, <2>2, <2>3, QuietStep
<1>23. ASSUME NEW p \in Callers, Recheck(p) PROVE TypeInv'
  <2>1. PICK l \in {"touchRead", "undoSlot"} : Goto(p, l)
    BY ONLY <1>23 DEF Recheck
  <2>2. UNCHANGED <<entryVars, composeVars, bootVars, lazyVars, op, ret, leases, slots, timer, lb, ctl>>
    BY ONLY <1>23 DEF Recheck, leaseVars, localVars
  <2>3. QED  BY ONLY TypeInv, p \in Callers, <1>t, <1>l, <2>1, <2>2, QuietStep
<1>24. ASSUME NEW p \in Callers, UndoSlot(p) PROVE TypeInv'
  <2>1. PICK l \in {"undoLease"} : Goto(p, l)
    BY ONLY <1>24 DEF UndoSlot
  <2>2. UNCHANGED <<entryVars, composeVars, bootVars, lazyVars, op, ret, leases, timer, lb, ctl>>
    BY ONLY <1>24 DEF UndoSlot, leaseVars, localVars
  <2>3. slots' \in Nat
    BY ONLY <1>24, <1>t DEF UndoSlot, ReleaseSlot
  <2>4. QED  BY ONLY TypeInv, p \in Callers, <1>t, <1>l, <2>1, <2>2, <2>3, QuietStep
<1>25. ASSUME NEW p \in Callers, UndoLease(p) PROVE TypeInv'
  <2>1. PICK l \in {"idle"} : Goto(p, l)
    BY ONLY <1>25 DEF UndoLease
  <2>2. UNCHANGED <<entryVars, composeVars, bootVars, lazyVars, op, ret, slots, timer, lb, ctl>>
    BY ONLY <1>25 DEF UndoLease, leaseVars, localVars
  <2>3. leases' \in Int
    BY ONLY <1>25, <1>t DEF UndoLease
  <2>4. QED  BY ONLY TypeInv, p \in Callers, <1>t, <1>l, <2>1, <2>2, <2>3, QuietStep
<1>26. ASSUME NEW p \in Callers, CopyIdleCtrl(p) PROVE TypeInv'
  <2>1. PICK l \in {"touch", "relTouch"} : Goto(p, l)
    BY ONLY <1>26 DEF CopyIdleCtrl
  <2>2. UNCHANGED <<entryVars, composeVars, bootVars, lazyVars, op, ret, leases, slots, timer, lb>>
    BY ONLY <1>26 DEF CopyIdleCtrl, leaseVars, localVars
  <2>3. ctl' \in [Procs -> 0..nboots]
    BY ONLY <1>26, <1>t DEF CopyIdleCtrl
  <2>4. QED  BY ONLY TypeInv, p \in Callers, <1>t, <1>l, <2>1, <2>2, <2>3, QuietStep
<1>27. ASSUME NEW p \in Callers, TouchIdleCtrl(p) PROVE TypeInv'
  <2>1. PICK l \in {"held", "idle"} : Goto(p, l)
    BY ONLY <1>27 DEF TouchIdleCtrl
  <2>2. UNCHANGED <<entryVars, composeVars, bootVars, lazyVars, op, ret, leases, slots, lb>>
    BY ONLY <1>27 DEF TouchIdleCtrl, leaseVars, localVars
  <2>3. ctl' \in [Procs -> 0..nboots]
    BY ONLY <1>27, <1>t DEF TouchIdleCtrl
  <2>4. timer' \in [Boots -> SUBSET {"armed", "stopped", "elapsed"}]
    BY ONLY <1>27, <1>t DEF TouchIdleCtrl
  <2>5. QED  BY ONLY TypeInv, p \in Callers, <1>t, <1>l, <2>1, <2>2, <2>3, <2>4, QuietStep
<1>28. ASSUME NEW p \in Callers, Release(p) PROVE TypeInv'
  <2>1. PICK l \in {"relLease"} : Goto(p, l)
    BY ONLY <1>28 DEF Release
  <2>2. UNCHANGED <<entryVars, composeVars, bootVars, lazyVars, op, ret, leases, timer, lb, ctl>>
    BY ONLY <1>28 DEF Release, leaseVars, localVars
  <2>3. slots' \in Nat
    BY ONLY <1>28, <1>t DEF Release, ReleaseSlot
  <2>4. QED  BY ONLY TypeInv, p \in Callers, <1>t, <1>l, <2>1, <2>2, <2>3, QuietStep
<1>29. ASSUME NEW p \in Callers, ReleaseLease(p) PROVE TypeInv'
  <2>1. PICK l \in {"relRead"} : Goto(p, l)
    BY ONLY <1>29 DEF ReleaseLease
  <2>2. UNCHANGED <<entryVars, composeVars, bootVars, lazyVars, op, ret, slots, timer, lb, ctl>>
    BY ONLY <1>29 DEF ReleaseLease, leaseVars, localVars
  <2>3. leases' \in Int
    BY ONLY <1>29, <1>t DEF ReleaseLease
  <2>4. QED  BY ONLY TypeInv, p \in Callers, <1>t, <1>l, <2>1, <2>2, <2>3, QuietStep
<1>30. ASSUME NEW p \in Procs, StopStopped(p) PROVE TypeInv'
  <2>1. PICK l \in {"idle"} : Goto(p, l)
    BY ONLY <1>30 DEF StopStopped
  <2>2. UNCHANGED <<entryVars, composeVars, bootVars, lazyVars, op, ret, leases, slots, timer, lb, ctl>>
    BY ONLY <1>30 DEF StopStopped, leaseVars, localVars
  <2>3. QED  BY ONLY TypeInv, p \in Procs, <1>t, <1>l, <2>1, <2>2, QuietStep
<1>31. ASSUME NEW p \in Procs, StopBegin(p) PROVE TypeInv'
  BY <1>31 DEF StopBegin, ReturnStart, InStart, InStop, OwnsBoot, ReleaseSlot, At, Goto
<1>32. ASSUME NEW p \in Procs, StopIdleCtrl(p) PROVE TypeInv'
  <2>1. PICK l \in {"down"} : Goto(p, l)
    BY ONLY <1>32 DEF StopIdleCtrl
  <2>2. UNCHANGED <<entryVars, composeVars, bootVars, lazyVars, op, ret, leases, slots, lb>>
    BY ONLY <1>32 DEF StopIdleCtrl, leaseVars, localVars
  <2>3. ctl' \in [Procs -> 0..nboots]
    BY ONLY <1>32, <1>t DEF StopIdleCtrl
  <2>4. timer' \in [Boots -> SUBSET {"armed", "stopped", "elapsed"}]
    BY ONLY <1>32, <1>t DEF StopIdleCtrl
  <2>5. QED  BY ONLY TypeInv, p \in Procs, <1>t, <1>l, <2>1, <2>2, <2>3, <2>4, QuietStep
<1>33. ASSUME NEW p \in Procs, ComposeDown(p) PROVE TypeInv'
  <2>1. PICK l \in {"stopCommit", "downFailed"} : Goto(p, l)
    BY <1>33 DEF ComposeDown
  <2>2. stack' \in {"up", "down"}
    BY <1>33 DEF ComposeDown
  <2>3. QED  BY <1>33, <2>1, <2>2 DEF ComposeDown, At, Goto
<1>34. ASSUME NEW p \in Procs, StopFails(p) PROVE TypeInv'
  BY <1>34 DEF StopFails, ReturnStart, InStart, InStop, OwnsBoot, ReleaseSlot, At, Goto
<1>35. ASSUME NEW p \in Procs, StopCommit(p) PROVE TypeInv'
  <2>1. healthy' \in BOOLEAN
    BY <1>35 DEF StopCommit
  <2>2. /\ state' = "stopped" /\ lazyBooter' = 0 /\ Goto(p, "idle")
        /\ UNCHANGED <<startOp, idleCtrl, leases, slots, stack, downErr, nboots, opErr>>
        /\ UNCHANGED <<committed, nbooters, booter, timer, op, lb, ctl, ret>>
    BY ONLY <1>35 DEF StopCommit, leaseVars, composeVars, bootVars, lazyVars, localVars
  <2>3. lazyBooter' \in 0..nbooters /\ state' \in States
    BY ONLY <1>t, <2>2 DEF States
  <2>4. pc' \in [Procs -> PCs] /\ NonNil'
    <3>1. "idle" \in PCs \ (StartPCs \cup {"follow", "ensure", "boot", "booted"})
      BY ONLY DEF PCs, StartPCs
    <3>2. QED  BY ONLY TypeInv, p \in Procs, <2>2, <3>1, NonNilStep
  <2>5. QED  BY ONLY TypeInv, <2>1, <2>2, <2>3, <2>4 DEF TypeInv, TypeOK
<1>36. ASSUME NEW k \in Boots, IdlePeriodElapses(k) PROVE TypeInv'
  BY <1>36 DEF IdlePeriodElapses, ReturnStart, InStart, InStop, OwnsBoot, ReleaseSlot, At, Goto
<1>37. ASSUME NEW k \in Boots, Fire(k) PROVE TypeInv'
  <2>1. PICK l \in {"idle", "onIdle"} : Goto(k, l)
    <3>1. pc \in [Procs -> PCs]
      BY ONLY TypeInv DEF TypeInv, TypeOK
    <3>2. pc = [pc EXCEPT ![k] = pc[k]]
      BY ONLY <3>1
    <3>3. QED  BY ONLY <1>37, <3>2 DEF Fire, At, Goto
  <2>2. UNCHANGED <<entryVars, composeVars, bootVars, lazyVars, op, ret, leases, slots, lb, ctl>>
    BY ONLY <1>37 DEF Fire, leaseVars, localVars
  <2>3. timer' \in [Boots -> SUBSET {"armed", "stopped", "elapsed"}]
    BY ONLY <1>37, <1>t DEF Fire
  <2>4. QED  BY ONLY TypeInv, k \in Boots, <1>t, <1>l, <2>1, <2>2, <2>3, QuietStep
<1>38. QED
  BY ONLY NextCases, [Next]_vars, <1>1, <1>2, <1>3, <1>4, <1>5, <1>6, <1>7, <1>8, <1>9, <1>10, <1>11, <1>12, <1>13, <1>14, <1>15, <1>16, <1>17, <1>18, <1>19, <1>20, <1>21, <1>22, <1>23, <1>24, <1>25, <1>26, <1>27, <1>28, <1>29, <1>30, <1>31, <1>32, <1>33, <1>34, <1>35, <1>36, <1>37

(* Register leaves a well typed entry. *)
LEMMA InitTypeInv == Init => TypeInv
<1> SUFFICES ASSUME Init PROVE TypeInv
  OBVIOUS
<1>1. TypeOK
  <2>1. healthy \in BOOLEAN /\ committed \subseteq 1..nboots
    BY DEF Init
  <2>2. timer \in [Boots -> SUBSET {"armed", "stopped", "elapsed"}]
    BY DEF Init
  <2>3. QED  BY <2>1, <2>2, LifecycleAssumption DEF Init, TypeOK, States, PCs, MaxBoots
<1>2. NonNil
  BY DEF Init, NonNil, StartPCs
<1>3. QED  BY <1>1, <1>2 DEF TypeInv

(* Every reachable state of the entry, the controllers, the booters and the   *)
(* goroutines is well typed, whatever the callers, the bounds and the faults. *)
THEOREM TypeCorrect == Spec => []TypeOK
<1>1. Init => TypeInv
  BY InitTypeInv
<1>2. TypeInv /\ [Next]_vars => TypeInv'
  BY TypeStep
<1>3. TypeInv => TypeOK
  BY DEF TypeInv
<1>4. QED  BY <1>1, <1>2, <1>3, PTL DEF Spec

-----------------------------------------------------------------------------
(* A boot past its Up that still owns the state has its containers up, unless a  *)
(* Stop took them down and has yet to write "stopped"; that is what makes the    *)
(* commit of "running" safe.                                                     *)
Unsafe == state = "running"
            \/ \E p \in Callers : pc[p] \in {"health", "commit"} /\ OwnsBoot(p)
StopPending == \E q \in Procs : pc[q] = "stopCommit"

UpInv ==
    downErr = "nil" =>
      /\ \A p \in Procs : pc[p] # "downFailed"
      /\ Unsafe /\ stack = "down" => StopPending

(* Every action keeps UpInv: a boot owns its containers until a Stop overtakes it.    *)
LEMMA UpStep ==
    ASSUME TypeInv, UpInv, [Next]_vars
    PROVE  UpInv'
<1>t. /\ pc \in [Procs -> PCs] /\ DOMAIN op = Procs
      /\ Callers \subseteq Procs /\ Boots \subseteq Procs
      /\ stack \in {"up", "down"} /\ downErr \in {"nil", "err"}
  BY DEF TypeInv, TypeOK, Procs
(* A step that touches neither the state nor the containers, and neither enters nor     *)
(* leaves one of the places UpInv is about, but for the passed health check.             *)
<1>q. ASSUME NEW p \in Procs, NEW l, Goto(p, l), pc[p] # "stopCommit",
             l \notin {"health", "stopCommit", "downFailed"},
             l = "commit" => pc[p] = "health" /\ op'[p] = op[p],
             \A q \in Procs : q # p => op'[q] = op[q],
             UNCHANGED <<state, startOp, stack, downErr>>
      PROVE  UpInv'
  <2>1. \A q \in Procs : pc'[q] = IF q = p THEN l ELSE pc[q]
    BY ONLY <1>q, <1>t, p \in Procs DEF Goto
  <2>2. StopPending => StopPending'
    BY ONLY <1>q, <2>1 DEF StopPending
  <2>3. Unsafe' => Unsafe
    BY ONLY <1>q, <1>t, <2>1 DEF Unsafe, OwnsBoot
  <2>4. (\A q \in Procs : pc[q] # "downFailed") => (\A q \in Procs : pc'[q] # "downFailed")
    BY ONLY <1>q, <2>1
  <2>5. QED  BY ONLY <1>q, <2>2, <2>3, <2>4, UpInv DEF UpInv
<1>1. CASE UNCHANGED vars
  BY ONLY <1>1, UpInv DEF vars, UpInv, Unsafe, StopPending, OwnsBoot, entryVars, composeVars,
     localVars
<1>2. ASSUME NEW p \in Callers, FollowerWakes(p) PROVE UpInv'
  <2>1. PICK l \in {"idle", "booted"} : Goto(p, l)
    BY ONLY <1>2 DEF FollowerWakes, ReturnStart
  <2>2. op' = [op EXCEPT ![p] = 0] /\ pc[p] = "follow"
    BY ONLY <1>2 DEF FollowerWakes, ReturnStart, InStart, At
  <2>3. UNCHANGED <<state, startOp, stack, downErr>>
    BY ONLY <1>2 DEF FollowerWakes, entryVars, composeVars
  <2>4. \A q \in Procs : q # p => op'[q] = op[q]
    BY ONLY <1>t, <2>2
  <2>5. QED  BY ONLY <1>q, <1>t, <2>1, <2>2, <2>3, <2>4, p \in Callers
<1>3. ASSUME NEW p \in Callers, StartDependencies(p) PROVE UpInv'
  BY ONLY <1>3, <1>q, <1>t, p \in Callers
     DEF StartDependencies, At, entryVars, composeVars, localVars
<1>5. ASSUME NEW p \in Callers, CheckHealth(p) PROVE UpInv'
  BY ONLY <1>5, <1>q, <1>t, p \in Callers
     DEF CheckHealth, At, entryVars, composeVars, localVars
<1>7. ASSUME NEW p \in Callers, CommitBoot(p) PROVE UpInv'
  <2>1. pc[p] = "commit" /\ UNCHANGED <<startOp, stack, downErr, op>>
    BY ONLY <1>7 DEF CommitBoot, At, composeVars
  <2>2. PICK l \in {"publish", "close"} : Goto(p, l)
    BY ONLY <1>7 DEF CommitBoot
  <2>3. \A q \in Procs : pc'[q] = IF q = p THEN l ELSE pc[q]
    BY ONLY <1>t, <2>2 DEF Goto
  <2>4. StopPending => StopPending'
    BY ONLY <2>1, <2>3 DEF StopPending
  <2>5. state' = "running" => state = "running" \/ OwnsBoot(p)
    BY ONLY <1>7 DEF CommitBoot
  <2>6. state' \in {"running", "stopped", state}
    BY ONLY <1>7 DEF CommitBoot
  <2>7. Unsafe' => Unsafe
    BY ONLY <1>t, <2>1, <2>3, <2>5, <2>6, p \in Callers DEF Unsafe, OwnsBoot
  <2>8. (\A q \in Procs : pc[q] # "downFailed") => (\A q \in Procs : pc'[q] # "downFailed")
    BY ONLY <2>3
  <2>9. QED  BY ONLY <2>1, <2>4, <2>7, <2>8, UpInv DEF UpInv
<1>8. ASSUME NEW p \in Callers, PublishIdleCtrl(p) PROVE UpInv'
  BY ONLY <1>8, <1>q, <1>t, p \in Callers
     DEF PublishIdleCtrl, At, entryVars, composeVars, localVars
<1>9. ASSUME NEW p \in Callers, ArmIdleCtrl(p) PROVE UpInv'
  BY ONLY <1>9, <1>q, <1>t, p \in Callers
     DEF ArmIdleCtrl, At, entryVars, composeVars, localVars
<1>10. ASSUME NEW p \in Callers, CloseOp(p) PROVE UpInv'
  <2>1. PICK l \in {"idle", "booted"} : Goto(p, l)
    BY ONLY <1>10 DEF CloseOp, ReturnStart
  <2>2. op' = [op EXCEPT ![p] = 0] /\ pc[p] = "close"
    BY ONLY <1>10 DEF CloseOp, ReturnStart, InStart, At
  <2>3. UNCHANGED <<state, startOp, stack, downErr>>
    BY ONLY <1>10 DEF CloseOp, entryVars, composeVars
  <2>4. \A q \in Procs : q # p => op'[q] = op[q]
    BY ONLY <1>t, <2>2
  <2>5. QED  BY ONLY <1>q, <1>t, <2>1, <2>2, <2>3, <2>4, p \in Callers
<1>11. ASSUME NEW p \in Callers, StartRunning(p) PROVE UpInv'
  <2>1. PICK l \in {"idle", "booted"} : Goto(p, l)
    BY ONLY <1>11 DEF StartRunning, ReturnStart
  <2>2. op' = [op EXCEPT ![p] = 0] /\ pc[p] \in {"idle", "boot"}
    BY ONLY <1>11 DEF StartRunning, ReturnStart, InStart, At
  <2>3. UNCHANGED <<state, startOp, stack, downErr>>
    BY ONLY <1>11 DEF StartRunning, entryVars, composeVars
  <2>4. \A q \in Procs : q # p => op'[q] = op[q]
    BY ONLY <1>t, <2>2
  <2>5. QED  BY ONLY <1>q, <1>t, <2>1, <2>2, <2>3, <2>4, p \in Callers
<1>12. ASSUME NEW p \in Callers, StartFollow(p) PROVE UpInv'
  <2>1. Goto(p, "follow") /\ pc[p] \in {"idle", "boot"} /\ op' = [op EXCEPT ![p] = startOp]
    BY ONLY <1>12 DEF StartFollow, InStart, At
  <2>2. UNCHANGED <<state, startOp, stack, downErr>>
    BY ONLY <1>12 DEF StartFollow, entryVars, composeVars
  <2>3. \A q \in Procs : q # p => op'[q] = op[q]
    BY ONLY <1>t, <2>1
  <2>4. QED  BY ONLY <1>q, <1>t, <2>1, <2>2, <2>3, p \in Callers
<1>14. ASSUME NEW p \in Callers, AcquireEager(p) PROVE UpInv'
  BY ONLY <1>14, <1>q, <1>t, p \in Callers
     DEF AcquireEager, At, entryVars, composeVars, localVars
<1>15. ASSUME NEW p \in Callers, AcquireLazy(p) PROVE UpInv'
  BY ONLY <1>15, <1>q, <1>t, p \in Callers
     DEF AcquireLazy, At, entryVars, composeVars, localVars
<1>16. ASSUME NEW p \in Callers, EnsureFirst(p) PROVE UpInv'
  BY ONLY <1>16, <1>q, <1>t, p \in Callers
     DEF EnsureFirst, At, entryVars, composeVars, localVars
<1>17. ASSUME NEW p \in Callers, EnsureStores(p) PROVE UpInv'
  BY ONLY <1>17, <1>q, <1>t, p \in Callers
     DEF EnsureStores, At, entryVars, composeVars, localVars
<1>18. ASSUME NEW p \in Callers, EnsureReturns(p) PROVE UpInv'
  BY ONLY <1>18, <1>q, <1>t, p \in Callers
     DEF EnsureReturns, At, entryVars, composeVars, localVars
<1>19. ASSUME NEW p \in Callers, ClearFailedBooter(p) PROVE UpInv'
  BY ONLY <1>19, <1>q, <1>t, p \in Callers
     DEF ClearFailedBooter, At, entryVars, composeVars, localVars
<1>20. ASSUME NEW p \in Callers, CountLease(p) PROVE UpInv'
  BY ONLY <1>20, <1>q, <1>t, p \in Callers
     DEF CountLease, At, entryVars, composeVars, localVars
<1>21. ASSUME NEW p \in Callers, TakeSlot(p) PROVE UpInv'
  BY ONLY <1>21, <1>q, <1>t, p \in Callers
     DEF TakeSlot, At, entryVars, composeVars, localVars
<1>22. ASSUME NEW p \in Callers, CancelSlot(p) PROVE UpInv'
  BY ONLY <1>22, <1>q, <1>t, p \in Callers
     DEF CancelSlot, At, entryVars, composeVars, localVars
<1>23. ASSUME NEW p \in Callers, Recheck(p) PROVE UpInv'
  BY ONLY <1>23, <1>q, <1>t, p \in Callers
     DEF Recheck, At, entryVars, composeVars, localVars
<1>24. ASSUME NEW p \in Callers, UndoSlot(p) PROVE UpInv'
  BY ONLY <1>24, <1>q, <1>t, p \in Callers
     DEF UndoSlot, At, entryVars, composeVars, localVars
<1>25. ASSUME NEW p \in Callers, UndoLease(p) PROVE UpInv'
  BY ONLY <1>25, <1>q, <1>t, p \in Callers
     DEF UndoLease, At, entryVars, composeVars, localVars
<1>26. ASSUME NEW p \in Callers, CopyIdleCtrl(p) PROVE UpInv'
  BY ONLY <1>26, <1>q, <1>t, p \in Callers
     DEF CopyIdleCtrl, At, entryVars, composeVars, localVars
<1>27. ASSUME NEW p \in Callers, TouchIdleCtrl(p) PROVE UpInv'
  BY ONLY <1>27, <1>q, <1>t, p \in Callers
     DEF TouchIdleCtrl, At, entryVars, composeVars, localVars
<1>28. ASSUME NEW p \in Callers, Release(p) PROVE UpInv'
  BY ONLY <1>28, <1>q, <1>t, p \in Callers
     DEF Release, At, entryVars, composeVars, localVars
<1>29. ASSUME NEW p \in Callers, ReleaseLease(p) PROVE UpInv'
  BY ONLY <1>29, <1>q, <1>t, p \in Callers
     DEF ReleaseLease, At, entryVars, composeVars, localVars
<1>30. ASSUME NEW p \in Procs, StopStopped(p) PROVE UpInv'
  BY ONLY <1>30, <1>q, <1>t, p \in Procs
     DEF StopStopped, At, InStop, entryVars, composeVars, localVars
<1>32. ASSUME NEW p \in Procs, StopIdleCtrl(p) PROVE UpInv'
  BY ONLY <1>32, <1>q, <1>t, p \in Procs
     DEF StopIdleCtrl, At, entryVars, composeVars, localVars
<1>36. ASSUME NEW k \in Boots, IdlePeriodElapses(k) PROVE UpInv'
  BY ONLY <1>36, UpInv DEF IdlePeriodElapses, UpInv, Unsafe, StopPending, OwnsBoot, entryVars,
     composeVars, localVars
<1>37. ASSUME NEW k \in Boots, Fire(k) PROVE UpInv'
  <2>1. UNCHANGED <<state, startOp, stack, downErr, op>> /\ pc[k] = "idle"
    BY ONLY <1>37 DEF Fire, At, entryVars, composeVars, localVars
  <2>2. CASE UNCHANGED pc
    BY ONLY <2>1, <2>2, UpInv DEF UpInv, Unsafe, StopPending, OwnsBoot
  <2>3. CASE Goto(k, "onIdle")
    BY ONLY <1>q, <1>t, <2>1, <2>3, k \in Boots
  <2>4. QED  BY ONLY <1>37, <2>2, <2>3 DEF Fire
(* The steps that write the state or the containers. *)
<1> USE <1>t DEF UpInv, Unsafe, StopPending, OwnsBoot, At, Goto, entryVars, composeVars, localVars
<1>4. ASSUME NEW p \in Callers, ComposeUp(p) PROVE UpInv'
  BY <1>4 DEF ComposeUp
<1>6. ASSUME NEW p \in Callers, FailBoot(p) PROVE UpInv'
  BY <1>6 DEF FailBoot
<1>13. ASSUME NEW p \in Callers, StartLead(p) PROVE UpInv'
  <2>1. /\ Goto(p, "deps") /\ pc[p] \in {"idle", "boot"} /\ state' = "starting"
        /\ startOp' = nboots + 1 /\ op' = [op EXCEPT ![p] = nboots + 1]
        /\ UNCHANGED <<stack, downErr>>
    BY ONLY <1>13 DEF StartLead, InStart, At, composeVars
  <2>2. \A q \in Procs : pc'[q] = IF q = p THEN "deps" ELSE pc[q]
    BY ONLY <1>t, <2>1 DEF Goto
  <2>3. \A q \in Procs : q # p => op'[q] # nboots + 1
    BY ONLY TypeInv, <2>1 DEF TypeInv, TypeOK
  <2>4. ~Unsafe'
    BY ONLY <1>t, <2>1, <2>2, <2>3 DEF Unsafe, OwnsBoot
  <2>5. (\A q \in Procs : pc[q] # "downFailed") => (\A q \in Procs : pc'[q] # "downFailed")
    BY ONLY <2>2
  <2>6. QED  BY ONLY <2>1, <2>4, <2>5, UpInv DEF UpInv
<1>31. ASSUME NEW p \in Procs, StopBegin(p) PROVE UpInv'
  BY <1>31 DEF StopBegin, InStop
<1>33. ASSUME NEW p \in Procs, ComposeDown(p) PROVE UpInv'
  BY <1>33 DEF ComposeDown
<1>34. ASSUME NEW p \in Procs, StopFails(p) PROVE UpInv'
  BY <1>34 DEF StopFails
<1>35. ASSUME NEW p \in Procs, StopCommit(p) PROVE UpInv'
  BY <1>35 DEF StopCommit
<1>38. QED
  BY ONLY NextCases, [Next]_vars, <1>1, <1>2, <1>3, <1>4, <1>5, <1>6, <1>7, <1>8,
     <1>9, <1>10, <1>11, <1>12, <1>13, <1>14, <1>15, <1>16, <1>17, <1>18, <1>19,
     <1>20, <1>21, <1>22, <1>23, <1>24, <1>25, <1>26, <1>27, <1>28, <1>29, <1>30,
     <1>31, <1>32, <1>33, <1>34, <1>35, <1>36, <1>37

(* As long as no Down has failed, the containers of a service in state "running" *)
(* are up unless a Stop is about to write "stopped".                             *)
THEOREM RunningStaysUp == Spec => []RunningIsUp
<1>1. Init => TypeInv /\ UpInv
  <2>1. Init => UpInv
    BY DEF Init, UpInv, Unsafe, OwnsBoot, Procs
  <2>2. QED  BY <2>1, InitTypeInv
<1>2. TypeInv /\ UpInv /\ [Next]_vars => (TypeInv /\ UpInv)'
  BY TypeStep, UpStep
<1>3. UpInv => RunningIsUp
  BY DEF UpInv, Unsafe, StopPending, RunningIsUp, At
<1>4. QED  BY <1>1, <1>2, <1>3, PTL DEF Spec
=============================================================================
