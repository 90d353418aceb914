------------------------------ MODULE Lifecycle ------------------------------
(***************************************************************************)
(* One service of pkg/lifecycle's DefaultManager: the entry's fields, the  *)
(* compose stack behind it, its coalesced boots (startOp), its one-shot    *)
(* LazyBooters, its leases with their semaphore, and one IdleShutdown      *)
(* controller per boot.                                                    *)
(*                                                                         *)
(* Every hold of m.mu, of an IdleShutdown's is.mu and every atomic         *)
(* operation is one step; what runs between two of them interleaves with   *)
(* every other caller and timer goroutine.  Dependencies are the subject   *)
(* of LifecycleDeps; here m.Start(dep) is a call that succeeds or fails.   *)
(***************************************************************************)
EXTENDS Integers, FiniteSets

CONSTANTS
    Callers,        \* goroutines that call Start, Stop, Acquire and ReleaseFunc
    MaxConcurrent,  \* spec.MaxConcurrent; 0: no semaphore
    LazyBoot,       \* spec.LazyBoot
    IdleTimeout,    \* spec.IdleTimeout > 0
    Faults,         \* the calls that may fail
    MaxStarts,      \* bound: no direct Start leads a boot once this many were led
    MaxBooters      \* bound: LazyBooters created over the entry's life

(* A boot, and the idle controller it creates, is the number of its startOp. *)
(* A LazyBooter leads at most one boot, so MaxBoots never holds one up.      *)
MaxBoots == MaxStarts + MaxBooters
Boots == 1..MaxBoots
Booters == 1..MaxBooters

(* The goroutine of boot k's idle timer is the process k. *)
Procs == Callers \cup Boots

ASSUME LifecycleAssumption ==
    /\ IsFiniteSet(Callers)
    /\ Callers \cap Nat = {}
    /\ MaxConcurrent \in Nat
    /\ LazyBoot \in BOOLEAN
    /\ IdleTimeout \in BOOLEAN
    /\ Faults \subseteq {"deps", "up", "health", "down"}
    /\ MaxStarts \in Nat
    /\ MaxBooters \in Nat

VARIABLES
    state,       \* entry.state
    healthy,     \* entry.healthy
    startOp,     \* entry.startOp: a boot, or 0 for nil
    idleCtrl,    \* entry.idleCtrl: the boot whose controller it is, or 0
    lazyBooter,  \* entry.lazyBooter: a booter, or 0
    leases,      \* entry.activeLeases
    slots,       \* tokens in entry.semaphore's channel
    stack,       \* the compose project's containers
    downErr,     \* history: "err" once a compose Down has failed
    nboots,      \* startOps made so far
    opErr,       \* op.done/op.err of every startOp
    nbooters,    \* LazyBooters made so far
    booter,      \* once/err of every LazyBooter
    timer,       \* IdleShutdown of every boot: has it a timer (armed), is it stopped,
                 \* has timeout passed since lastTouch (elapsed)
    pc,          \* where each goroutine is
    op,          \* the startOp a goroutine leads or follows, or 0
    lb,          \* the LazyBooter an Acquire copied, or 0
    ctl,         \* the idleCtrl a goroutine copied, or 0
    ret,         \* the result a Start is about to return
    committed    \* history: the boots that set state to "running"

entryVars == <<state, healthy, startOp, idleCtrl, lazyBooter>>
leaseVars == <<leases, slots>>
bootVars == <<nboots, opErr, committed>>
lazyVars == <<nbooters, booter>>
localVars == <<op, lb, ctl, ret>>
composeVars == <<stack, downErr>>
vars == <<entryVars, leaseVars, composeVars, bootVars, lazyVars, timer, pc, localVars>>

States == {"stopped", "starting", "running", "stopping"}

StartPCs == {"deps", "up", "health", "fail", "commit", "publish", "arm", "close"}
StopPCs == {"stopIdle", "down", "downFailed", "stopCommit"}
AcquirePCs == {"ensure", "boot", "booted", "unpoison", "count", "sem", "recheck",
               "touchRead", "touch", "undoSlot", "undoLease"}
ReleasePCs == {"relLease", "relRead", "relTouch"}
PCs == {"idle", "follow", "held", "onIdle"}
         \cup StartPCs \cup StopPCs \cup AcquirePCs \cup ReleasePCs

(* The types of the entry's fields, of the boots and timers, and of the callers' steps. *)
TypeOK ==
    /\ state \in States
    /\ healthy \in BOOLEAN
    /\ startOp \in 0..nboots
    /\ idleCtrl \in 0..nboots
    /\ lazyBooter \in 0..nbooters
    /\ leases \in Int
    /\ slots \in Nat
    /\ stack \in {"up", "down"}
    /\ downErr \in {"nil", "err"}
    /\ nboots \in 0..MaxBoots
    /\ opErr \in [Boots -> {"pending", "ok", "err"}]
    /\ committed \subseteq 1..nboots
    /\ nbooters \in 0..MaxBooters
    /\ booter \in [Booters -> {"fresh", "booting", "ok", "err"}]
    /\ timer \in [Boots -> SUBSET {"armed", "stopped", "elapsed"}]
    /\ pc \in [Procs -> PCs]
    /\ op \in [Procs -> 0..nboots]
    /\ lb \in [Procs -> 0..nbooters]
    /\ ctl \in [Procs -> 0..nboots]
    /\ ret \in [Procs -> {"ok", "err"}]

(* Register: a fresh entry, stopped; its semaphore exists iff MaxConcurrent > 0. *)
Init ==
    /\ state = "stopped"
    /\ healthy = FALSE
    /\ startOp = 0
    /\ idleCtrl = 0
    /\ lazyBooter = 0
    /\ leases = 0
    /\ slots = 0
    /\ stack = "down"
    /\ downErr = "nil"
    /\ nboots = 0
    /\ opErr = [b \in Boots |-> "pending"]
    /\ committed = {}
    /\ nbooters = 0
    /\ booter = [b \in Booters |-> "fresh"]
    /\ timer = [b \in Boots |-> {}]
    /\ pc = [p \in Procs |-> "idle"]
    /\ op = [p \in Procs |-> 0]
    /\ lb = [p \in Procs |-> 0]
    /\ ctl = [p \in Procs |-> 0]
    /\ ret = [p \in Procs |-> "ok"]

At(p, l) == pc[p] = l
Goto(p, l) == pc' = [pc EXCEPT ![p] = l]

-----------------------------------------------------------------------------
(* Start. *)

(* Start returns r: to its caller, or into the once.Do of the LazyBooter. *)
ReturnStart(p, r) ==
    /\ op' = [op EXCEPT ![p] = 0]
    /\ IF lb[p] = 0
         THEN Goto(p, "idle") /\ UNCHANGED ret
         ELSE Goto(p, "booted") /\ ret' = [ret EXCEPT ![p] = r]
    /\ UNCHANGED <<lb, ctl>>

InStart(p) == At(p, "idle") \/ At(p, "boot")

(* The service is up: the call returns nil at once. *)
StartRunning(p) ==
    /\ InStart(p)
    /\ state = "running"
    /\ ReturnStart(p, "ok")
    /\ UNCHANGED <<entryVars, leaseVars, composeVars, bootVars, lazyVars, timer>>

(* A boot is in flight: the call becomes its follower. *)
StartFollow(p) ==
    /\ InStart(p)
    /\ state = "starting"
    /\ op' = [op EXCEPT ![p] = startOp]
    /\ Goto(p, "follow")
    /\ UNCHANGED <<entryVars, leaseVars, composeVars, bootVars, lazyVars, timer, lb, ctl, ret>>

(* Any other state, "stopping" included: the call leads a new boot. *)
StartLead(p) ==
    /\ InStart(p)
    /\ state \notin {"running", "starting"}
    /\ nboots < MaxBoots
    /\ nboots' = nboots + 1
    /\ state' = "starting"
    /\ startOp' = nboots + 1
    /\ op' = [op EXCEPT ![p] = nboots + 1]
    /\ Goto(p, "deps")
    /\ UNCHANGED <<healthy, idleCtrl, lazyBooter, leaseVars, composeVars, opErr, committed,
                   lazyVars, timer, lb, ctl, ret>>

(* <-op.done; return op.err *)
FollowerWakes(p) ==
    /\ At(p, "follow")
    /\ opErr[op[p]] # "pending"
    /\ ReturnStart(p, opErr[op[p]])
    /\ UNCHANGED <<entryVars, leaseVars, composeVars, bootVars, lazyVars, timer>>

(* m.Start of every dependency. *)
StartDependencies(p) ==
    /\ At(p, "deps")
    /\ \/ Goto(p, "up")
       \/ "deps" \in Faults /\ Goto(p, "fail")
    /\ UNCHANGED <<entryVars, leaseVars, composeVars, bootVars, lazyVars, timer, localVars>>

(* orchestrator.Up; a failed (or panicking) Up may have started containers. *)
ComposeUp(p) ==
    /\ At(p, "up")
    /\ \/ stack' = "up" /\ Goto(p, "health")
       \/ "up" \in Faults /\ stack' \in {stack, "up"} /\ Goto(p, "fail")
    /\ UNCHANGED <<entryVars, leaseVars, downErr, bootVars, lazyVars, timer, localVars>>

(* checker.Check and the store of its result. *)
CheckHealth(p) ==
    /\ At(p, "health")
    /\ \/ healthy' = TRUE /\ Goto(p, "commit")
       \/ "health" \in Faults /\ healthy' = FALSE /\ Goto(p, "fail")
    /\ UNCHANGED <<state, startOp, idleCtrl, lazyBooter, leaseVars, composeVars, bootVars,
                   lazyVars, timer, localVars>>

(* Mutant: an error path returns without waking the followers. *)
FailBootNoClose(p) ==
    /\ At(p, "fail")
    /\ state' = "stopped"
    /\ ReturnStart(p, "err")
    /\ UNCHANGED <<healthy, startOp, idleCtrl, lazyBooter, leaseVars, composeVars, bootVars,
                   lazyVars, timer>>

(* Mutant: a panicking boot leaves retErr nil. *)
FailBootNilErr(p) ==
    /\ At(p, "fail")
    /\ state' = "stopped"
    /\ ret' = [ret EXCEPT ![p] = "ok"]
    /\ Goto(p, "close")
    /\ UNCHANGED <<healthy, startOp, idleCtrl, lazyBooter, leaseVars, composeVars, bootVars,
                   lazyVars, timer, op, lb, ctl>>

(* Every error path (and the recover of a panic): state = "stopped". *)
FailBoot(p) ==
    /\ At(p, "fail")
    /\ state' = "stopped"
    /\ ret' = [ret EXCEPT ![p] = "err"]
    /\ Goto(p, "close")
    /\ UNCHANGED <<healthy, startOp, idleCtrl, lazyBooter, leaseVars, composeVars, bootVars,
                   lazyVars, timer, op, lb, ctl>>

(* Mutant: "running" is committed whatever a Stop did meanwhile. *)
OwnsBootAlways(p) == startOp = op[p]

OwnsBoot(p) == startOp = op[p] /\ state = "starting"

(* The leader commits "running" if it still owns the boot, else it honours the stop. *)
CommitBoot(p) ==
    /\ At(p, "commit")
    /\ IF OwnsBoot(p)
         THEN /\ state' = "running"
              /\ committed' = committed \cup {op[p]}
              /\ ret' = [ret EXCEPT ![p] = "ok"]
              /\ Goto(p, IF IdleTimeout THEN "publish" ELSE "close")
              /\ UNCHANGED healthy
         ELSE /\ state' = IF startOp = op[p] THEN "stopped" ELSE state
              /\ healthy' = IF startOp = op[p] THEN FALSE ELSE healthy
              /\ ret' = [ret EXCEPT ![p] = "err"]
              /\ Goto(p, "close")
              /\ UNCHANGED committed
    /\ UNCHANGED <<startOp, idleCtrl, lazyBooter, leaseVars, composeVars, nboots, opErr,
                   lazyVars, timer, op, lb, ctl>>

(* entry.idleCtrl = NewIdleShutdown(...), in a lock hold of its own. *)
PublishIdleCtrl(p) ==
    /\ At(p, "publish")
    /\ idleCtrl' = op[p]
    /\ Goto(p, "arm")
    /\ UNCHANGED <<state, healthy, startOp, lazyBooter, leaseVars, composeVars, bootVars,
                   lazyVars, timer, localVars>>

(* IdleShutdown.Start *)
ArmIdleCtrl(p) ==
    /\ At(p, "arm")
    /\ timer' = [timer EXCEPT ![op[p]] = {"armed"}]
    /\ Goto(p, "close")
    /\ UNCHANGED <<entryVars, leaseVars, composeVars, bootVars, lazyVars, localVars>>

(* The deferred op.err = retErr; close(op.done). *)
CloseOp(p) ==
    /\ At(p, "close")
    /\ opErr' = [opErr EXCEPT ![op[p]] = ret[p]]
    /\ ReturnStart(p, ret[p])
    /\ UNCHANGED <<entryVars, leaseVars, composeVars, nboots, committed, lazyVars, timer>>

-----------------------------------------------------------------------------
(* Stop, called by a caller or as the onIdle callback of a timer. *)

InStop(p) == IF p \in Callers THEN At(p, "idle") ELSE At(p, "onIdle")

StopStopped(p) ==
    /\ InStop(p)
    /\ state = "stopped"
    /\ Goto(p, "idle")
    /\ UNCHANGED <<entryVars, leaseVars, composeVars, bootVars, lazyVars, timer, localVars>>

StopBegin(p) ==
    /\ InStop(p)
    /\ state # "stopped"
    /\ state' = "stopping"
    /\ ctl' = [ctl EXCEPT ![p] = idleCtrl]
    /\ Goto(p, "stopIdle")
    /\ UNCHANGED <<healthy, startOp, idleCtrl, lazyBooter, leaseVars, composeVars, bootVars,
                   lazyVars, timer, op, lb, ret>>

(* IdleShutdown.Stop of the controller copied at the start. *)
StopIdleCtrl(p) ==
    /\ At(p, "stopIdle")
    /\ timer' = [timer EXCEPT ![ctl[p]] = (@ \ {"armed"}) \cup {"stopped"}]
    /\ ctl' = [ctl EXCEPT ![p] = 0]
    /\ Goto(p, "down")
    /\ UNCHANGED <<entryVars, leaseVars, composeVars, bootVars, lazyVars, op, lb, ret>>

(* orchestrator.Down; a failed one leaves the containers. *)
ComposeDown(p) ==
    /\ At(p, "down")
    /\ \/ stack' = "down" /\ Goto(p, "stopCommit") /\ UNCHANGED downErr
       \/ "down" \in Faults /\ Goto(p, "downFailed") /\ downErr' = "err" /\ UNCHANGED stack
    /\ UNCHANGED <<entryVars, leaseVars, bootVars, lazyVars, timer, localVars>>

StopFails(p) ==
    /\ At(p, "downFailed")
    /\ state' = "running"
    /\ Goto(p, "idle")
    /\ UNCHANGED <<healthy, startOp, idleCtrl, lazyBooter, leaseVars, composeVars, bootVars,
                   lazyVars, timer, localVars>>

(* Mutant: the one-shot LazyBooter is not reset. *)
StopCommitKeepsBooter(p) ==
    /\ At(p, "stopCommit")
    /\ state' = "stopped"
    /\ healthy' = FALSE
    /\ Goto(p, "idle")
    /\ UNCHANGED <<startOp, idleCtrl, lazyBooter, leaseVars, composeVars, bootVars, lazyVars, timer,
                   localVars>>

StopCommit(p) ==
    /\ At(p, "stopCommit")
    /\ state' = "stopped"
    /\ healthy' = FALSE
    /\ lazyBooter' = 0
    /\ Goto(p, "idle")
    /\ UNCHANGED <<startOp, idleCtrl, leaseVars, composeVars, bootVars, lazyVars, timer, localVars>>

-----------------------------------------------------------------------------
(* Acquire. *)

AcquireEager(p) ==
    /\ ~LazyBoot
    /\ At(p, "idle")
    /\ Goto(p, "count")
    /\ UNCHANGED <<entryVars, leaseVars, composeVars, bootVars, lazyVars, timer, localVars>>

(* Copy entry.lazyBooter, made first if it is nil. *)
AcquireLazy(p) ==
    /\ LazyBoot
    /\ At(p, "idle")
    /\ IF lazyBooter = 0
         THEN /\ nbooters < MaxBooters
              /\ nbooters' = nbooters + 1
              /\ lazyBooter' = nbooters + 1
         ELSE UNCHANGED <<nbooters, lazyBooter>>
    /\ lb' = [lb EXCEPT ![p] = lazyBooter']
    /\ Goto(p, "ensure")
    /\ UNCHANGED <<state, healthy, startOp, idleCtrl, leaseVars, composeVars, bootVars, booter,
                   timer, op, ctl, ret>>

(* EnsureStarted: the first caller runs startFn, the others wait for its result. *)
EnsureFirst(p) ==
    /\ At(p, "ensure")
    /\ booter[lb[p]] = "fresh"
    /\ booter' = [booter EXCEPT ![lb[p]] = "booting"]
    /\ Goto(p, "boot")
    /\ UNCHANGED <<entryVars, leaseVars, composeVars, bootVars, nbooters, timer, localVars>>

(* startFn returned (or panicked): lb.err and lb.started are stored. *)
EnsureStores(p) ==
    /\ At(p, "booted")
    /\ booter' = [booter EXCEPT ![lb[p]] = ret[p]]
    /\ Goto(p, "ensure")
    /\ UNCHANGED <<entryVars, leaseVars, composeVars, bootVars, nbooters, timer, localVars>>

EnsureReturns(p) ==
    /\ At(p, "ensure")
    /\ \/ /\ booter[lb[p]] = "ok"
          /\ lb' = [lb EXCEPT ![p] = 0]
          /\ Goto(p, "count")
       \/ /\ booter[lb[p]] = "err"
          /\ Goto(p, "unpoison")
          /\ UNCHANGED lb
    /\ UNCHANGED <<entryVars, leaseVars, composeVars, bootVars, lazyVars, timer, op, ctl, ret>>

(* Mutant: Acquire retries the one-shot booter it holds. *)
ClearFailedBooterRetries(p) ==
    /\ At(p, "unpoison")
    /\ lazyBooter' = IF lazyBooter = lb[p] THEN 0 ELSE lazyBooter
    /\ Goto(p, "ensure")
    /\ UNCHANGED <<state, healthy, startOp, idleCtrl, leaseVars, composeVars, bootVars, lazyVars,
                   timer, localVars>>

(* A failed booter is dropped if it is still the entry's. *)
ClearFailedBooter(p) ==
    /\ At(p, "unpoison")
    /\ lazyBooter' = IF lazyBooter = lb[p] THEN 0 ELSE lazyBooter
    /\ lb' = [lb EXCEPT ![p] = 0]
    /\ Goto(p, "idle")
    /\ UNCHANGED <<state, healthy, startOp, idleCtrl, leaseVars, composeVars, bootVars, lazyVars,
                   timer, op, ctl, ret>>

(* Check the state and count the lease in one lock hold. *)
CountLease(p) ==
    /\ At(p, "count")
    /\ IF state = "running"
         THEN /\ leases' = leases + 1
              /\ Goto(p, IF MaxConcurrent > 0 THEN "sem" ELSE "recheck")
         ELSE Goto(p, "idle") /\ UNCHANGED leases
    /\ UNCHANGED <<entryVars, slots, composeVars, bootVars, lazyVars, timer, localVars>>

TakeSlot(p) ==
    /\ At(p, "sem")
    /\ slots < MaxConcurrent
    /\ slots' = slots + 1
    /\ Goto(p, "recheck")
    /\ UNCHANGED <<entryVars, leases, composeVars, bootVars, lazyVars, timer, localVars>>

(* Mutant: a cancelled wait leaves its lease counted. *)
CancelSlotKeepsLease(p) ==
    /\ At(p, "sem")
    /\ Goto(p, "idle")
    /\ UNCHANGED <<entryVars, leaseVars, composeVars, bootVars, lazyVars, timer, localVars>>

(* ctx is done before a slot is free: the lease is uncounted. *)
CancelSlot(p) ==
    /\ At(p, "sem")
    /\ leases' = leases - 1
    /\ Goto(p, "idle")
    /\ UNCHANGED <<entryVars, slots, composeVars, bootVars, lazyVars, timer, localVars>>

(* Is the service still running after the wait for the slot? *)
Recheck(p) ==
    /\ At(p, "recheck")
    /\ Goto(p, IF state = "running" THEN "touchRead" ELSE "undoSlot")
    /\ UNCHANGED <<entryVars, leaseVars, composeVars, bootVars, lazyVars, timer, localVars>>

(* semaphore.Release: a non-blocking receive, or nothing without a semaphore. *)
ReleaseSlot == slots' = IF MaxConcurrent > 0 /\ slots > 0 THEN slots - 1 ELSE slots

(* Mutant: the caller queues for a slot again instead of undoing its lease. *)
UndoSlotRetries(p) ==
    /\ At(p, "undoSlot")
    /\ ReleaseSlot
    /\ Goto(p, "sem")
    /\ UNCHANGED <<entryVars, leases, composeVars, bootVars, lazyVars, timer, localVars>>

UndoSlot(p) ==
    /\ At(p, "undoSlot")
    /\ ReleaseSlot
    /\ Goto(p, "undoLease")
    /\ UNCHANGED <<entryVars, leases, composeVars, bootVars, lazyVars, timer, localVars>>

UndoLease(p) ==
    /\ At(p, "undoLease")
    /\ leases' = leases - 1
    /\ Goto(p, "idle")
    /\ UNCHANGED <<entryVars, slots, composeVars, bootVars, lazyVars, timer, localVars>>

(* An IdleShutdown that is not stopped and has a timer. *)
Live(t) == "armed" \in t /\ "stopped" \notin t

(* Copy entry.idleCtrl under m.mu, then IdleShutdown.Touch it outside. *)
CopyIdleCtrl(p) ==
    /\ \/ At(p, "touchRead") /\ Goto(p, "touch")
       \/ At(p, "relRead") /\ Goto(p, "relTouch")
    /\ ctl' = [ctl EXCEPT ![p] = idleCtrl]
    /\ UNCHANGED <<entryVars, leaseVars, composeVars, bootVars, lazyVars, timer, op, lb, ret>>

TouchIdleCtrl(p) ==
    /\ \/ At(p, "touch") /\ Goto(p, "held")
       \/ At(p, "relTouch") /\ Goto(p, "idle")
    /\ timer' = [timer EXCEPT ![ctl[p]] = IF Live(@) THEN @ \ {"elapsed"} ELSE @]
    /\ ctl' = [ctl EXCEPT ![p] = 0]
    /\ UNCHANGED <<entryVars, leaseVars, composeVars, bootVars, lazyVars, op, lb, ret>>

-----------------------------------------------------------------------------
(* The ReleaseFunc: slot, lease, then touch. *)

Release(p) ==
    /\ At(p, "held")
    /\ ReleaseSlot
    /\ Goto(p, "relLease")
    /\ UNCHANGED <<entryVars, leases, composeVars, bootVars, lazyVars, timer, localVars>>

ReleaseLease(p) ==
    /\ At(p, "relLease")
    /\ leases' = leases - 1
    /\ Goto(p, "relRead")
    /\ UNCHANGED <<entryVars, slots, composeVars, bootVars, lazyVars, timer, localVars>>

-----------------------------------------------------------------------------
(* The idle timer of boot k. *)

(* timeout has passed since the last Touch. *)
IdlePeriodElapses(k) ==
    /\ "armed" \in timer[k]
    /\ "elapsed" \notin timer[k]
    /\ timer' = [timer EXCEPT ![k] = @ \cup {"elapsed"}]
    /\ UNCHANGED <<entryVars, leaseVars, composeVars, bootVars, lazyVars, pc, localVars>>

(* Mutant: a busy service does not re-arm its timer. *)
FireNoRearm(k) ==
    /\ At(k, "idle")
    /\ "elapsed" \in timer[k]
    /\ "stopped" \notin timer[k]
    /\ IF leases > 0
         THEN timer' = [timer EXCEPT ![k] = @ \ {"elapsed", "armed"}] /\ UNCHANGED pc
         ELSE timer' = [timer EXCEPT ![k] = @ \cup {"stopped"}] /\ Goto(k, "onIdle")
    /\ UNCHANGED <<entryVars, leaseVars, composeVars, bootVars, lazyVars, localVars>>

(* fire: a stale expiry and a busy service re-arm; otherwise it commits to onIdle. *)
Fire(k) ==
    /\ At(k, "idle")
    /\ "elapsed" \in timer[k]
    /\ "stopped" \notin timer[k]
    /\ IF leases > 0
         THEN timer' = [timer EXCEPT ![k] = @ \ {"elapsed"}] /\ UNCHANGED pc
         ELSE timer' = [timer EXCEPT ![k] = @ \cup {"stopped"}] /\ Goto(k, "onIdle")
    /\ UNCHANGED <<entryVars, leaseVars, composeVars, bootVars, lazyVars, localVars>>

-----------------------------------------------------------------------------
(* Steps a goroutine takes by itself once its call has begun. *)
StartStep(p) ==
    \/ FollowerWakes(p) \/ StartDependencies(p) \/ ComposeUp(p) \/ CheckHealth(p)
    \/ FailBoot(p) \/ CommitBoot(p) \/ PublishIdleCtrl(p) \/ ArmIdleCtrl(p) \/ CloseOp(p)
    \/ At(p, "boot") /\ (StartRunning(p) \/ StartFollow(p) \/ StartLead(p))

StopStep(p) ==
    \/ StopIdleCtrl(p) \/ ComposeDown(p) \/ StopFails(p) \/ StopCommit(p)
    \/ At(p, "onIdle") /\ (StopStopped(p) \/ StopBegin(p))

AcquireStep(p) ==
    \/ EnsureFirst(p) \/ EnsureStores(p) \/ EnsureReturns(p) \/ ClearFailedBooter(p)
    \/ CountLease(p) \/ TakeSlot(p) \/ Recheck(p) \/ UndoSlot(p) \/ UndoLease(p)
    \/ CopyIdleCtrl(p) \/ TouchIdleCtrl(p) \/ ReleaseLease(p)

(* Steps the client chooses: a new call, the release of a lease, a cancelled context. *)
Call(p) ==
    \/ At(p, "idle") /\ (StartRunning(p) \/ StartFollow(p))
    \/ At(p, "idle") /\ nboots < MaxStarts /\ StartLead(p)
    \/ At(p, "idle") /\ (StopStopped(p) \/ StopBegin(p))
    \/ AcquireEager(p) \/ AcquireLazy(p)
    \/ CancelSlot(p)

Next ==
    \/ \E p \in Callers : StartStep(p) \/ AcquireStep(p) \/ Release(p) \/ Call(p)
    \/ \E p \in Procs : StopStep(p)
    \/ \E k \in Boots : IdlePeriodElapses(k) \/ Fire(k)

Spec == Init /\ [][Next]_vars

(* A goroutine the Go scheduler can run is run; compose, the checker and the   *)
(* dependencies answer; a holder releases its lease, as ReleaseFunc demands;   *)
(* and an armed timer expires.  Calls and cancellations are the client's own.  *)
Fairness ==
    /\ \A p \in Callers : WF_vars(StartStep(p) \/ AcquireStep(p) \/ Release(p))
    /\ \A p \in Procs : WF_vars(StopStep(p))
    /\ \A p \in Callers : SF_vars(TakeSlot(p))
    /\ \A k \in Boots : WF_vars(IdlePeriodElapses(k)) /\ WF_vars(Fire(k))

FairSpec == Spec /\ Fairness

-----------------------------------------------------------------------------
Leading(p) == pc[p] \in StartPCs
Counted(p) == pc[p] \in {"sem", "recheck", "touchRead", "touch", "undoSlot", "undoLease",
                         "held", "relLease"}
HasSlot(p) == pc[p] \in {"recheck", "touchRead", "touch", "undoSlot", "held"}

(* No call and no timer callback is under way. *)
Quiescent == \A p \in Procs : pc[p] \in {"idle", "held"}

(* Acquire, its two undo paths and the ReleaseFunc keep activeLeases the number of *)
(* goroutines whose lease is counted, and the semaphore's channel the number that  *)
(* took a slot, never more than MaxConcurrent.                                     *)
LeasesBalance ==
    /\ leases = Cardinality({p \in Callers : Counted(p)})
    /\ MaxConcurrent > 0 =>
         /\ slots = Cardinality({p \in Callers : HasSlot(p)})
         /\ slots <= MaxConcurrent

(* What a caller's lease is to the abstract specification of leases. *)
LeasePhase ==
    [p \in Callers |-> IF At(p, "sem") THEN "waiting"
                       ELSE IF HasSlot(p) THEN "granted"
                       ELSE IF Counted(p) THEN "leaving" ELSE "none"]

Leases == INSTANCE Lease WITH phase <- LeasePhase

(* Acquire, its undo paths and the ReleaseFunc, over all their separate steps on    *)
(* counter, channel and state, implement the abstract lease: a slot is granted only *)
(* while fewer than MaxConcurrent are taken, is given back exactly once, and the    *)
(* lease is uncounted only after its slot has gone.                                 *)
ImplementsLease == Leases!Spec

(* Every startOp that is not closed has exactly one leader, and a closed one none:  *)
(* no follower waits for a boot nobody leads, and op.done is never closed twice.    *)
OneLeaderPerOp ==
    \A b \in Boots :
      LET leaders == {p \in Callers : Leading(p) /\ op[p] = b} IN
        IF b <= nboots /\ opErr[b] = "pending" THEN \E p \in Callers : leaders = {p}
                                               ELSE leaders = {}

(* op.err is nil exactly for the boots that set the state to "running", so a        *)
(* follower never reports a success that did not happen (LIFE-2).                   *)
OutcomeIsReal ==
    \A b \in Boots : opErr[b] # "pending" => (opErr[b] = "ok" <=> b \in committed)

(* As long as no compose Down has failed, a service shown as "running" has its      *)
(* containers up, unless a Stop that took them down has still to write its          *)
(* "stopped" (LIFE2-1).                                                             *)
RunningIsUp ==
    downErr = "nil" /\ state = "running" /\ stack = "down" =>
      \E p \in Procs : At(p, "stopCommit")

(* When no call fails, a lazy service that is at rest and stopped has no spent      *)
(* LazyBooter left: the next Acquire boots it (Stop resets the one-shot booter).    *)
LazyRevivable ==
    Quiescent /\ state = "stopped" /\ lazyBooter # 0 => booter[lazyBooter] = "fresh"

(* Every Start, Stop, Acquire and Release returns: no caller waits for ever on a    *)
(* boot, a LazyBooter or a slot.                                                    *)
CallsReturn == \A p \in Callers : pc[p] \notin {"idle", "held"} ~> pc[p] \in {"idle", "held"}

(* IdleTimeout: a service does not stay "running" for ever while nobody uses it.    *)
IdleIsReclaimed ==
    IdleTimeout => ~<>[](state = "running" /\ \A p \in Callers : pc[p] = "idle")
=============================================================================
