----------------------------- MODULE MCPlacement -----------------------------
(***************************************************************************)
(* Where containers go and who takes them down again: the scheduler, the   *)
(* distributor, the service orchestrator, the boot manager and the         *)
(* distributed build, checked side by side.                                *)
(* subject says which one a behaviour is about, the others rest.           *)
(***************************************************************************)
EXTENDS Integers

CONSTANTS RemoteHosts, LocalName, Total, Used, Network, HostLabels, GPUs, Device, Reqs, Need, Want,
          PreferLocal, GPUNeed, NoGPU, Batches, BatchReqs, Reserve, Overcommit, GPUWeight,
          MaxReleases, NoHost,
          Containers, DistHosts, LocalHost, Rounds, MaxFaults, Nowhere,
          Offered, Found, Missing, MaxServices, Scanners, OrchHosts, MaxStarts, MaxStops,
          MaxTrouble, None,
          Endpoints, Catalogs, MaxBoots,
          Components, BuildHosts

VARIABLES subject,
          strategy, placements, rrCounter, working, order, decisions, releases,
          containers, running, wired, lost, faults, round, phase, plan, started, fresh, deployed,
          prev, cancelled, sweep, sweeping, suspects,
          registered, hasLocal, hasRemote, up, record, unfound, trouble, scan, starts, stops, boot,
          batch, levelOf, job, where, failed, nameFailed, nameTotal, failures, cameUp, single, stop,
          todo,
          endpoints, parts, boots, pc, bootCancelled, results, summary, groups, booted, distributed,
          projects, placed, abandoned, bootFaults, verdict, probed,
          dryRun, buildAt, assigned, left, synced, scratch, buildResults, exit, built, kept

Scheduler == INSTANCE Scheduler WITH Local <- LocalName
Distributor == INSTANCE Distributor
Orchestrator == INSTANCE Orchestrator WITH lost <- unfound, started <- cameUp
Booter == INSTANCE Boot WITH Names <- Endpoints, cancelled <- bootCancelled, running <- projects,
                             deployed <- placed, lost <- abandoned, faults <- bootFaults
Builder == INSTANCE DistributedBuild WITH Local <- LocalName, at <- buildAt, plan <- assigned,
                                          todo <- left, results <- buildResults

schedulerVars == <<strategy, placements, rrCounter, working, order, decisions, releases>>
distVars == <<containers, running, wired, lost, faults, round, phase, plan, started, fresh, deployed,
              prev, cancelled, sweep, sweeping, suspects>>
orchVars == <<registered, hasLocal, hasRemote, up, record, unfound, trouble, scan, starts, stops, boot,
              batch, levelOf, job, where, failed, nameFailed, nameTotal, failures, cameUp, single,
              stop, todo>>
bootVars == <<endpoints, parts, boots, pc, bootCancelled, results, summary, groups, booted, distributed,
              projects, placed, abandoned, bootFaults, verdict, probed>>
buildVars == <<dryRun, buildAt, assigned, left, synced, scratch, buildResults, exit, built, kept>>

-----------------------------------------------------------------------------
(* The scheduler's world: an idle local host 0, host 1 with two devices of *)
(* two vendors and a label, and host 2, nearly full, with a third device.  *)
SchedHosts == RemoteHosts \cup {LocalName}
SchedResources == {"cpu", "mem", "disk"}
SchedTotal == [h \in SchedHosts |-> [r \in SchedResources |-> 4]]
SchedUsed == [h \in SchedHosts |-> [r \in SchedResources |->
                 IF h # 2 THEN 0 ELSE IF r = "disk" THEN 95 ELSE 90]]
SchedNetwork == [h \in SchedHosts |-> IF h = 2 THEN 100 ELSE 20]
SchedLabels == [h \in SchedHosts |-> IF h = 1 THEN {"zone=a"} ELSE {}]
SchedGPUs == [h \in SchedHosts |-> IF h = 1 THEN {1, 2} ELSE IF h = 2 THEN {3} ELSE {}]
SchedDevice == <<[vendor |-> "nvidia", free |-> 8, compute |-> <<8, 6>>, caps |-> {"cuda"}],
                 [vendor |-> "amd", free |-> 8, compute |-> <<>>, caps |-> {"rocm"}],
                 [vendor |-> "nvidia", free |-> 4, compute |-> <<10, 0>>, caps |-> {"cuda"}]>>
SchedNeed == [q \in Reqs |-> [r \in SchedResources |->
                 IF q = "plain" /\ r = "cpu" THEN 4 ELSE IF q = "zoned" /\ r # "cpu" THEN 1 ELSE 0]]
SchedWant == [q \in Reqs |-> IF q = "zoned" THEN {"zone=a"} ELSE {}]
SchedGPUNeed == [q \in Reqs |->
    IF q = "cuda"
    THEN [count |-> 0, vram |-> 2, vendor |-> "nvidia", compute |-> <<8, 0>>, caps |-> {"tensorrt"}]
    ELSE NoGPU]
SchedBatches == <<<<"cuda", "plain", "cuda", "plain">>, <<"plain", "zoned", "cuda">>>>

(* The orchestrator's services: a required one that depends on the name b, *)
(* two of that name, one with a dependency that is unknown or a cycle, and *)
(* two on the disk, one of them without its compose file.                  *)
Service(file, name, deps, required, health) ==
    [file |-> file, name |-> name, deps |-> deps, required |-> required, health |-> health]
OrchOffered == {Service(1, "a", {"b"}, TRUE, TRUE), Service(3, "b", {}, FALSE, TRUE),
                Service(2, "b", {"a"}, FALSE, TRUE)}
OrchFound == {Service(2, "b", {}, FALSE, FALSE), Service(4, "b", {}, FALSE, FALSE)}

(* Two endpoint tables: a required endpoint that may be discovered, one    *)
(* that is remote and has a compose file, two only the distributor can     *)
(* place; and two profiles in one file, a second file, a disabled endpoint.*)
Ep(en, di, re, rq, f, pr) ==
    [enabled |-> en, discovery |-> di, remote |-> re, required |-> rq, file |-> f, profile |-> pr]
BootCatalogs ==
    {[a |-> Ep(TRUE, TRUE, FALSE, TRUE, "f1", None), b |-> Ep(TRUE, FALSE, TRUE, FALSE, "f1", "p1"),
      c |-> Ep(TRUE, FALSE, TRUE, TRUE, None, None), d |-> Ep(TRUE, FALSE, TRUE, FALSE, None, None)],
     [a |-> Ep(TRUE, TRUE, FALSE, TRUE, "f1", "p1"), b |-> Ep(TRUE, FALSE, FALSE, FALSE, "f1", "p2"),
      c |-> Ep(TRUE, FALSE, FALSE, TRUE, "f2", None), d |-> Ep(FALSE, FALSE, TRUE, FALSE, None, None)]}

-----------------------------------------------------------------------------
MCInit ==
    /\ subject \in {"scheduler", "distributor", "orchestrator", "boot", "build"}
    /\ Scheduler!Init /\ (subject # "scheduler" => strategy = "spread")
    /\ Distributor!Init
    /\ Orchestrator!Init /\ (subject # "orchestrator" => hasLocal /\ hasRemote)
    /\ Booter!Init
    /\ subject # "boot" => parts = {"distributor"} /\ endpoints.a.profile = None
    /\ Builder!Init /\ (subject # "build" => dryRun)

MCNext ==
    \/ /\ subject = "scheduler" /\ Scheduler!Next
       /\ UNCHANGED <<subject, distVars, orchVars, bootVars, buildVars>>
    \/ /\ subject = "distributor" /\ Distributor!Next
       /\ UNCHANGED <<subject, schedulerVars, orchVars, bootVars, buildVars>>
    \/ /\ subject = "orchestrator" /\ Orchestrator!Next
       /\ UNCHANGED <<subject, schedulerVars, distVars, bootVars, buildVars>>
    \/ /\ subject = "boot" /\ Booter!Next
       /\ UNCHANGED <<subject, schedulerVars, distVars, orchVars, buildVars>>
    \/ /\ subject = "build" /\ Builder!Next
       /\ UNCHANGED <<subject, schedulerVars, distVars, orchVars, bootVars>>

MCSpec == MCInit /\ [][MCNext]_<<subject, schedulerVars, distVars, orchVars, bootVars, buildVars>>

(***************************************************************************)
(* A placement is one its hosts can bear: a batch fits the capacity of its *)
(* hosts together, no GPU is promised twice, only hosts that answered and  *)
(* satisfy the labels and devices are chosen, whatever the order of the    *)
(* snapshot map, never by the sentinel score, and spread keeps its hosts   *)
(* level.                                                                  *)
(***************************************************************************)
PlacementsSound ==
    subject = "scheduler" =>
        /\ Scheduler!BatchFits /\ Scheduler!GPUsExclusive /\ Scheduler!EligibleOnly
        /\ Scheduler!OrderIrrelevant /\ Scheduler!ScoreSentinel /\ Scheduler!SpreadBalanced



(***************************************************************************)
(* Nothing starts before what it needs: a service's dependencies are up    *)
(* before it is started, in levels that exist exactly when the graph       *)
(* allows them, and nothing is built before every host has the source.     *)
(***************************************************************************)
DependenciesFirst ==
    CASE subject = "orchestrator" -> Orchestrator!DependenciesFirst /\ Orchestrator!LevelsSound
      [] subject = "build" -> Builder!SourceFirst
      [] OTHER -> TRUE
===============================================================================
