------------------------------ MODULE Distributor ------------------------------
(***************************************************************************)
(* pkg/distribution: DefaultDistributor with Distribute, Rebalance and     *)
(* Undistribute, and the FailoverHandler, over hosts whose commands can    *)
(* fail before or after they took effect.                                  *)
(*                                                                         *)
(* The scheduler's plan is any placement.  Distribute and Rebalance are    *)
(* called one after the other; Undistribute and CheckAndFailover overlap   *)
(* with them.                                                              *)
(***************************************************************************)
EXTENDS Naturals, FiniteSets

CONSTANTS
    Containers,   \* requirement names
    DistHosts,    \* remote hosts
    LocalHost,    \* normHost of "" and of "local"
    Rounds,       \* bound: calls of Distribute and Rebalance
    MaxFaults,    \* bound: commands that fail
    Nowhere       \* no decision, no entry

Hosts == DistHosts \cup {LocalHost}
Live == {"running", "migrating"}
States == Live \cup {"failed"}
Entries == [host : Hosts \cup {Nowhere}, state : States]
Empty == [n \in Containers |-> Nowhere]

VARIABLES
    containers,  \* d.containers, by name
    running,     \* <<n, h>>: a container n runs on host h
    wired,       \* <<n, k>>: tunnels and mounts made for n in round k
    lost,        \* <<n, h>>: a command on h for n failed, n may be left there
    faults,
    round,       \* calls of Distribute so far
    phase,       \* where the current one is
    plan,        \* plan.Decisions still to be deployed: a host or "none"
    started,     \* the name that runs and is still to be wired
    fresh,       \* the round's containers
    deployed,    \* deployedThisRound
    prev,        \* prev, still to be reconciled
    cancelled,   \* ctx is cancelled
    sweep,       \* Undistribute's snapshot, still to be torn down
    sweeping,    \* an Undistribute is under way
    suspects     \* CheckAndFailover's copy of d.containers

calls == <<round, phase, plan, started, fresh, deployed, prev, cancelled>>
undistribute == <<sweep, sweeping>>
distVars == <<containers, running, wired, lost, faults, calls, undistribute, suspects>>

Quiet == phase = "idle" /\ ~sweeping

Init ==
    /\ containers = Empty /\ fresh = Empty /\ prev = Empty /\ sweep = Empty /\ suspects = Empty
    /\ running = {} /\ lost = {} /\ wired = {}
    /\ faults = 0
    /\ round = 0
    /\ phase = "idle"
    /\ plan = [n \in Containers |-> Nowhere]
    /\ started = Nowhere
    /\ deployed = {}
    /\ cancelled = FALSE
    /\ sweeping = FALSE

Fault == faults < MaxFaults /\ faults' = faults + 1

(* teardownContainer: rm -f, or Stop and Remove.  A failed command leaves  *)
(* the container, or removes it all the same.                              *)
Teardown(n, h) ==
    \/ running' = running \ {<<n, h>>} /\ lost' = lost \ {<<n, h>>} /\ UNCHANGED faults
    \/ running' = running /\ lost' = lost \cup {<<n, h>>} /\ Fault


StateNeedsTeardown(e) == e # Nowhere /\ e.state \in Live

(***************************************************************************)
(* Distribute                                                              *)
(***************************************************************************)

(* ScheduleBatch has decided; Rebalance asks for what is tracked. *)
Distribute(decisions) ==
    /\ phase = "idle"
    /\ round < Rounds
    /\ round' = round + 1
    /\ phase' = "deploy"
    /\ plan' = decisions
    /\ fresh' = Empty
    /\ deployed' = {}
    /\ cancelled' = FALSE
    /\ UNCHANGED <<containers, running, wired, lost, faults, started, prev, undistribute, suspects>>

Cancel ==
    /\ phase = "deploy"
    /\ cancelled' = TRUE
    /\ UNCHANGED <<containers, running, wired, lost, faults, round, phase, plan, started, fresh,
                   deployed, prev, undistribute, suspects>>

Record(n, h, state) ==
    /\ fresh' = [fresh EXCEPT ![n] = [host |-> h, state |-> state]]
    /\ plan' = [plan EXCEPT ![n] = Nowhere]

NextToDeploy(n) == phase = "deploy" /\ started = Nowhere /\ plan[n] # Nowhere

(* No command is issued: ctx is cancelled, or no host was found.  The      *)
(* decision's host is recorded all the same.                               *)
SkipContainer(n) ==
    /\ NextToDeploy(n)
    /\ cancelled \/ plan[n] = "none"
    /\ Record(n, IF plan[n] = "none" THEN LocalHost ELSE plan[n], "failed")
    /\ UNCHANGED <<containers, running, wired, lost, faults, round, phase, started, deployed, prev,
                   cancelled, undistribute, suspects>>

(* deployRemote: rm -f, whose failure is not looked at, and run.  When     *)
(* either command fails, n may be left running on the host.                *)
DeployRemote(n) ==
    LET h == plan[n]
    IN /\ NextToDeploy(n) /\ ~cancelled /\ h \in DistHosts
       /\ deployed' = deployed \cup {n}
       /\ \/ /\ running' = running \cup {<<n, h>>}
             /\ started' = n
             /\ lost' = lost \ {<<n, h>>}
             /\ UNCHANGED <<fresh, plan, faults>>
          \/ /\ Fault
             /\ \/ running' = running \ {<<n, h>>} /\ lost' = lost \ {<<n, h>>}
                \/ running' = running \cup {<<n, h>>} /\ lost' = lost \cup {<<n, h>>}
                \/ running' = running /\ lost' = lost \cup {<<n, h>>}
             /\ Record(n, h, "failed")
             /\ UNCHANGED started
       /\ UNCHANGED <<containers, wired, round, phase, prev, cancelled, undistribute, suspects>>

(* deployLocal: Start of an existing container.  Nothing is removed first, *)
(* so one that already ran still does when Start fails.                    *)
DeployLocal(n) ==
    /\ NextToDeploy(n) /\ ~cancelled /\ plan[n] = LocalHost
    /\ deployed' = deployed \cup {n}
    /\ \/ /\ running' = running \cup {<<n, LocalHost>>}
          /\ lost' = lost \ {<<n, LocalHost>>}
          /\ Record(n, LocalHost, "running")
          /\ UNCHANGED faults
       \/ /\ Fault
          /\ running' \in {running, running \cup {<<n, LocalHost>>}}
          /\ lost' = lost \cup {<<n, LocalHost>>}
          /\ Record(n, LocalHost, "failed")
    /\ UNCHANGED <<containers, wired, round, phase, started, prev, cancelled, undistribute, suspects>>

(* wireTunnelsAndVolumes: on a failure the tunnels and mounts made so far  *)
(* are unwound and the container is torn down again.                       *)
Wire(n) ==
    LET h == plan[n]
    IN /\ started = n
       /\ started' = Nowhere
       /\ \/ /\ wired' = wired \cup {<<n, round>>}
             /\ Record(n, h, "running")
             /\ UNCHANGED <<running, lost, faults>>
          \/ /\ Fault
             /\ \/ running' = running \ {<<n, h>>} /\ UNCHANGED lost
                \/ UNCHANGED running /\ lost' = lost \cup {<<n, h>>}
             /\ Record(n, h, "failed")
             /\ UNCHANGED wired
       /\ UNCHANGED <<containers, round, phase, deployed, prev, cancelled, undistribute, suspects>>

(* d.containers is replaced, and the old ones are kept for the sweep. *)
Publish ==
    /\ phase = "deploy"
    /\ started = Nowhere
    /\ \A n \in Containers : plan[n] = Nowhere
    /\ prev' = containers
    /\ containers' = fresh
    /\ phase' = "reconcile"
    /\ UNCHANGED <<running, wired, lost, faults, round, plan, started, fresh, deployed, cancelled,
                   undistribute, suspects>>

(* A container of the old placement that no deploy of this round has       *)
(* replaced on its own host.                                               *)
Stranded(n) ==
    /\ StateNeedsTeardown(prev[n])
    /\ ~(n \in deployed /\ fresh[n] # Nowhere /\ fresh[n].host = prev[n].host)

(* reconcileRelocations. *)
Reconcile(n) ==
    /\ phase = "reconcile"
    /\ prev[n] # Nowhere
    /\ prev' = [prev EXCEPT ![n] = Nowhere]
    /\ IF Stranded(n) THEN Teardown(n, prev[n].host) ELSE UNCHANGED <<running, lost, faults>>
    /\ UNCHANGED <<containers, wired, round, phase, plan, started, fresh, deployed, cancelled,
                   undistribute, suspects>>

Return ==
    /\ phase = "reconcile"
    /\ prev = Empty
    /\ phase' = "idle"
    /\ fresh' = Empty
    /\ deployed' = {}
    /\ cancelled' = FALSE
    /\ UNCHANGED <<containers, running, wired, lost, faults, round, plan, started, prev, undistribute,
                   suspects>>

(***************************************************************************)
(* Undistribute and CheckAndFailover                                       *)
(***************************************************************************)

Undistribute ==
    /\ ~sweeping
    /\ sweeping' = TRUE
    /\ sweep' = containers
    /\ containers' = Empty
    /\ UNCHANGED <<running, wired, lost, faults, calls, suspects>>

SweepContainer(n) ==
    /\ sweeping
    /\ sweep[n] # Nowhere
    /\ sweep' = [sweep EXCEPT ![n] = Nowhere]
    /\ IF StateNeedsTeardown(sweep[n]) THEN Teardown(n, sweep[n].host) ELSE UNCHANGED <<running, lost, faults>>
    /\ UNCHANGED <<containers, wired, calls, sweeping, suspects>>

(* CloseAll and UnmountAll, whosever they are. *)
CloseAndUnmount ==
    /\ sweeping
    /\ sweep = Empty
    /\ sweeping' = FALSE
    /\ wired' = {}
    /\ UNCHANGED <<containers, running, lost, faults, calls, sweep, suspects>>

(* CheckAndFailover copies d.containers, and looks at the hosts. *)
CheckHosts ==
    /\ suspects = Empty
    /\ suspects' = containers
    /\ UNCHANGED <<containers, running, wired, lost, faults, calls, undistribute>>

(* The containers seen on the hosts found offline are marked, by name,     *)
(* wherever they are by now; the plan made for them is not carried out.    *)
Failover(offline) ==
    /\ suspects # Empty
    /\ suspects' = Empty
    /\ containers' = [n \in Containers |->
          IF /\ suspects[n] # Nowhere /\ suspects[n].host \in offline
             /\ containers[n] # Nowhere /\ containers[n].state = "running"
          THEN [containers[n] EXCEPT !.state = "migrating"] ELSE containers[n]]
    /\ UNCHANGED <<running, wired, lost, faults, calls, undistribute>>

Decisions == [Containers -> Hosts \cup {"none", Nowhere}]

Next ==
    \/ \E decisions \in Decisions : Distribute(decisions)
    \/ Cancel \/ Publish \/ Return \/ Undistribute \/ CloseAndUnmount \/ CheckHosts
    \/ \E n \in Containers :
          \/ SkipContainer(n) \/ DeployRemote(n) \/ DeployLocal(n) \/ Wire(n)
          \/ Reconcile(n) \/ SweepContainer(n)
    \/ \E offline \in SUBSET DistHosts : Failover(offline)

(***************************************************************************)
(* Properties                                                              *)
(***************************************************************************)

(* Between calls every container that runs on a host is one the            *)
(* distributor would tear down there, unless a command for it on that host *)
(* failed: relocations, dropped names, cancelled rounds, failovers and an  *)
(* overlapping Undistribute leave nothing behind.                          *)
NoOrphans ==
    Quiet => \A n \in Containers, h \in Hosts :
        <<n, h>> \in running \ lost =>
            StateNeedsTeardown(containers[n]) /\ containers[n].host = h

(* Tunnels and mounts made in a round belong to containers it deployed: a  *)
(* wiring that fails half way leaves none behind.                          *)
WiringOwned ==
    phase # "idle" => \A n \in Containers :
        <<n, round>> \in wired => fresh[n] # Nowhere /\ fresh[n].state = "running"
===============================================================================
