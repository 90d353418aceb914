--------------------------------- MODULE Boot ---------------------------------
(***************************************************************************)
(* pkg/boot: BootManager.BootAll, its rollback, and Shutdown.              *)
(*                                                                         *)
(* A boot runs on one goroutine; the context may be cancelled at any step, *)
(* and every command to the compose orchestrator or the distributor may    *)
(* fail, before or after it took effect.  BootAll is called again after    *)
(* it returned.                                                            *)
(***************************************************************************)
EXTENDS Integers, FiniteSets, Sequences, SequencesExt

CONSTANTS
    Names,      \* endpoint names
    Catalogs,   \* the endpoint tables a manager may be built with
    MaxBoots,   \* bound: calls of BootAll
    MaxFaults,  \* bound: commands that fail
    None        \* no compose file, no result, no verdict

VARIABLES
    endpoints,    \* bm.endpoints
    parts,        \* the collaborators the manager was given
    boots,        \* calls of BootAll so far
    pc,           \* where the current call is
    cancelled,    \* ctx is cancelled
    results,      \* bm.results: a status by name
    summary,      \* the counters of BootSummary
    groups,       \* compose files the running loop has still to visit
    booted,       \* bootedProjects
    distributed,  \* distributed
    running,      \* projects with containers
    deployed,     \* endpoints the distributor has running
    lost,         \* projects, and Remotes, that a failed command may have left
    faults,
    verdict,      \* what the last call returned
    probed        \* endpoints its health phase found healthy

call == <<boots, pc, cancelled, groups, booted, distributed, verdict, probed>>
world == <<running, deployed, lost, faults>>
bootVars == <<endpoints, parts, call, results, summary, world>>

Statuses == {"skipped", "discovered", "started", "remote", "distributed", "failed"}
Zero == [skipped |-> 0, discovered |-> 0, started |-> 0, remote |-> 0, failed |-> 0]
Is(status) == {n \in Names : results[n] = status}

(* groupByCompose: every enabled endpoint with a compose file.             *)
Group(file) == {n \in Names : endpoints[n].enabled /\ endpoints[n].file = file}
Files == {endpoints[n].file : n \in {m \in Names : endpoints[m].enabled}} \ {None}
(* The first profile found in the group, in map order.                     *)
Profiles(file) ==
    LET some == {endpoints[n].profile : n \in Group(file)} \ {None}
    IN IF some = {} THEN {None} ELSE some
(* What the distributor has running, where a project is expected.          *)
Remotes == <<None, None>>
Projects(file) == {<<file, p>> : p \in Profiles(file)}

Init ==
    /\ endpoints \in Catalogs
    /\ parts \in {{"compose", "distributor", "health"}, {"compose", "health"}, {"distributor"}}
    /\ boots = 0 /\ pc = "idle" /\ cancelled = FALSE
    /\ results = [n \in Names |-> None] /\ summary = Zero
    /\ groups = {} /\ booted = <<>> /\ distributed = FALSE
    /\ running = {} /\ deployed = {} /\ lost = {} /\ faults = 0
    /\ verdict = None /\ probed = {}

Fault == faults < MaxFaults /\ faults' = faults + 1

-----------------------------------------------------------------------------

(* BootAll's entry: a fresh results map and a fresh summary.               *)
BootAll ==
    /\ pc = "idle" /\ boots < MaxBoots
    /\ boots' = boots + 1 /\ pc' = "discover" /\ summary' = Zero
    /\ results' = [n \in Names |-> None]
    /\ cancelled' = FALSE /\ booted' = <<>> /\ distributed' = FALSE
    /\ verdict' = None /\ probed' = {}
    /\ UNCHANGED <<endpoints, parts, groups, world>>

(* ctx is cancelled while BootAll works.                                   *)
Cancel ==
    /\ pc \in {"discover", "compose", "distribute", "health"} /\ ~cancelled
    /\ cancelled' = TRUE
    /\ UNCHANGED <<endpoints, parts, boots, pc, groups, booted, distributed, verdict, probed, results,
                   summary, world>>

(* The ctx check between two phases: the next one, or the rollback.        *)
Proceed(next) == pc' = IF cancelled THEN "undistribute" ELSE next

(* Phase 1: the disabled are skipped, the discoverable may be found.       *)
Discover ==
    /\ pc = "discover"
    /\ \E found \in SUBSET {n \in Names : endpoints[n].enabled /\ endpoints[n].discovery} :
         LET skipped == {n \in Names : ~endpoints[n].enabled}
         IN /\ results' = [n \in Names |-> IF n \in skipped THEN "skipped"
                                           ELSE IF n \in found THEN "discovered" ELSE results[n]]
            /\ summary' = [summary EXCEPT !.skipped = Cardinality(skipped),
                                          !.discovered = Cardinality(found)]
    /\ Proceed("compose")
    /\ groups' = IF "compose" \in parts THEN Files ELSE {}
    /\ UNCHANGED <<endpoints, parts, boots, cancelled, booted, distributed, verdict, probed, world>>

(* Phase 2, a group whose Up failed: every name of it, recorded or not.    *)
UpFails(file) ==
    /\ pc = "compose" /\ file \in groups
    /\ groups' = groups \ {file}
    /\ results' = [n \in Names |-> IF n \in Group(file) THEN "failed" ELSE results[n]]
    /\ summary' = [summary EXCEPT !.failed = @ + Cardinality(Group(file))]
    /\ Fault
    /\ \E p \in Projects(file), partly \in BOOLEAN :
         /\ running' = IF partly THEN running \cup {p} ELSE running
         /\ lost' = IF partly THEN lost \cup {p} ELSE lost
    /\ UNCHANGED <<endpoints, parts, boots, pc, cancelled, booted, distributed, verdict, probed, deployed>>

(* Phase 2, a group that is up: its names without a result get one.        *)
UpSucceeds(file) ==
    /\ pc = "compose" /\ file \in groups
    /\ groups' = groups \ {file}
    /\ LET new == {n \in Group(file) : results[n] = None}
           far == {n \in new : endpoints[n].remote}
       IN /\ results' = [n \in Names |-> IF n \in far THEN "remote"
                                         ELSE IF n \in new THEN "started" ELSE results[n]]
          /\ summary' = [summary EXCEPT !.remote = @ + Cardinality(far),
                                        !.started = @ + Cardinality(new \ far)]
    /\ \E p \in Projects(file) :
         /\ running' = running \cup {p}
         /\ lost' = lost \ {p}
         /\ booted' = Append(booted, p)
    /\ UNCHANGED <<endpoints, parts, boots, pc, cancelled, distributed, verdict, probed, deployed, faults>>

ComposeDone ==
    /\ pc = "compose" /\ groups = {}
    /\ Proceed("distribute")
    /\ UNCHANGED <<endpoints, parts, boots, cancelled, groups, booted, distributed, verdict, probed,
                   results, summary, world>>

(* The remote endpoints without a result go to the distributor.            *)
ToDistribute ==
    IF "distributor" \notin parts THEN {}
    ELSE {n \in Names : results[n] = None /\ endpoints[n].remote /\ endpoints[n].enabled}


(* Phase 2.5's bookkeeping: as many names as were reported deployed are    *)
(* distributed, whichever they are; the rest failed, and only the required *)
(* among them are counted.                                                 *)
Attribute(names, reported) ==
    /\ results' = [n \in Names |-> IF n \in reported THEN "distributed"
                                   ELSE IF n \in names THEN "failed" ELSE results[n]]
    /\ summary' = [summary EXCEPT
          !.remote = @ + Cardinality(reported),
          !.failed = @ + Cardinality({n \in names \ reported : endpoints[n].required})]

(* Phase 2.5: DistributeEndpoints reports how many, not which.             *)
Distribute ==
    /\ pc = "distribute" /\ ToDistribute # {}
    /\ \E up, reported \in SUBSET ToDistribute :
         /\ Cardinality(up) = Cardinality(reported)
         /\ IF up = ToDistribute THEN faults' = faults ELSE Fault
         /\ deployed' = deployed \cup up
         /\ Attribute(ToDistribute, reported)
    /\ distributed' = TRUE
    /\ UNCHANGED <<endpoints, parts, boots, pc, cancelled, groups, booted, verdict, probed, running, lost>>

(* The remote endpoints left over are taken as they are.                   *)
TakeRemotes ==
    /\ pc = "distribute" /\ ToDistribute = {}
    /\ LET rest == {n \in Names : results[n] = None /\ endpoints[n].remote}
       IN /\ results' = [n \in Names |-> IF n \in rest THEN "remote" ELSE results[n]]
          /\ summary' = [summary EXCEPT !.remote = @ + Cardinality(rest)]
    /\ Proceed("health")
    /\ UNCHANGED <<endpoints, parts, boots, cancelled, groups, booted, distributed, verdict, probed,
                   world>>

(* Phase 3's decrements, keyed by the status the endpoint had.             *)
Uncount(sick) ==
    [summary EXCEPT !.started = @ - Cardinality(sick \cap Is("started")),
                    !.remote = @ - Cardinality(sick \cap (Is("remote") \cup Is("distributed"))),
                    !.discovered = @ - Cardinality(sick \cap Is("discovered")),
                    !.failed = @ + Cardinality(sick)]

(* Phase 3 and the verdict.  HealthCheckAll probes every enabled endpoint, *)
(* whatever its result; only the required count, and only once.            *)
HealthCheck ==
    /\ pc = "health"
    /\ \E healthy \in SUBSET {n \in Names : endpoints[n].enabled} :
         LET checked == IF "health" \in parts THEN {n \in Names : endpoints[n].enabled} ELSE {}
             sick == {n \in checked \ healthy : endpoints[n].required /\ results[n] # "failed"}
         IN /\ "health" \in parts \/ healthy = {}
            /\ probed' = healthy
            /\ results' = [n \in Names |-> IF n \in sick THEN "failed" ELSE results[n]]
            /\ summary' = Uncount(sick)
    /\ IF summary'.failed > 0
       THEN pc' = "undistribute" /\ verdict' = verdict
       ELSE pc' = "idle" /\ verdict' = "nil"
    /\ UNCHANGED <<endpoints, parts, boots, cancelled, groups, booted, distributed, world>>

-----------------------------------------------------------------------------
(* Undistribute, which may leave something behind when it fails.           *)
TakeDownRemotes ==
    \/ deployed' = {} /\ lost' = lost \ {Remotes} /\ UNCHANGED <<running, faults>>
    \/ Fault /\ lost' = lost \cup {Remotes} /\ UNCHANGED <<running, deployed>>

(* Down of one project.                                                    *)
TakeDown(p) ==
    \/ running' = running \ {p} /\ lost' = lost \ {p} /\ UNCHANGED <<deployed, faults>>
    \/ Fault /\ lost' = lost \cup {p} /\ UNCHANGED <<running, deployed>>

(* rollback: the distributor first, if this boot used it ...               *)
RollbackRemote ==
    /\ pc = "undistribute"
    /\ IF distributed THEN TakeDownRemotes ELSE UNCHANGED world
    /\ pc' = "rollback"
    /\ UNCHANGED <<endpoints, parts, boots, cancelled, groups, booted, distributed, verdict, probed,
                   results, summary>>

(* ... then the booted projects in reverse order, on a detached context.   *)
Rollback ==
    /\ pc = "rollback"
    /\ IF booted = <<>>
       THEN pc' = "idle" /\ verdict' = "error" /\ UNCHANGED <<booted, world>>
       ELSE TakeDown(Last(booted)) /\ booted' = Front(booted) /\ UNCHANGED <<pc, verdict>>
    /\ UNCHANGED <<endpoints, parts, boots, cancelled, groups, distributed, probed, results, summary>>

(* Shutdown: the distributor first ...                                     *)
Shutdown ==
    /\ pc = "idle" /\ verdict \in {"nil", "error"}
    /\ IF "distributor" \in parts THEN TakeDownRemotes ELSE UNCHANGED world
    /\ pc' = "down" /\ verdict' = IF faults' > faults THEN "dirty" ELSE "stopped"
    /\ groups' = IF "compose" \in parts THEN Files ELSE {}
    /\ UNCHANGED <<endpoints, parts, boots, cancelled, booted, distributed, probed, results, summary>>

(* ... then every group, whatever failed before; firstErr is returned.     *)
ShutdownGroup ==
    /\ pc = "down"
    /\ IF groups = {}
       THEN pc' = "idle" /\ UNCHANGED <<groups, verdict, world>>
       ELSE \E file \in groups : \E p \in Projects(file) :
              /\ TakeDown(p) /\ groups' = groups \ {file} /\ pc' = pc
              /\ verdict' = IF faults' > faults THEN "dirty" ELSE verdict
    /\ UNCHANGED <<endpoints, parts, boots, cancelled, booted, distributed, probed, results, summary>>

Next ==
    \/ BootAll \/ Cancel \/ Discover \/ ComposeDone \/ Distribute \/ TakeRemotes \/ HealthCheck
    \/ \E file \in Files : UpFails(file) \/ UpSucceeds(file)
    \/ RollbackRemote \/ Rollback \/ Shutdown \/ ShutdownGroup

Spec == Init /\ [][Next]_bootVars

-----------------------------------------------------------------------------
(* Names that failed without being counted: the shortfall of a             *)
(* distribution that was not required.                                     *)
Uncounted ==
    {n \in Is("failed") : ~endpoints[n].required /\ (endpoints[n].file = None \/ "compose" \notin parts)}

(* The summary's counters agree with the recorded results of the same      *)
(* call, after every phase and whatever an endpoint's status was before:   *)
(* BootAll is re-runnable and counts no endpoint twice, but for one found  *)
(* by discovery whose group then failed, which stays in Discovered too     *)
(* (manager.go:169-176).                                                   *)
CountsAgree ==
    verdict \notin {"stopped", "dirty"} /\ boots > 0 =>
      /\ summary.skipped = Cardinality(Is("skipped"))
      /\ summary.started = Cardinality(Is("started"))
      /\ summary.remote = Cardinality(Is("remote") \cup Is("distributed"))
      /\ summary.failed = Cardinality(Is("failed") \ Uncounted)
      /\ summary.discovered - Cardinality(Is("discovered")) \in 0..Cardinality(Is("failed"))


(* BootAll returns no error only if no required endpoint failed to be      *)
(* deployed, and, with a health checker, each was probed healthy; and no   *)
(* more endpoints are called distributed than the distributor deployed.    *)
SuccessIsEarned ==
    /\ verdict = "nil" => \A n \in Names : endpoints[n].required /\ endpoints[n].enabled =>
         results[n] # "failed" /\ ("health" \in parts => n \in probed)
    /\ pc = "health" => Cardinality(Is("distributed")) <= Cardinality(deployed)

(* Shutdown goes on past a failure: afterwards a project runs only where a *)
(* command failed, as long as a compose file's endpoints agree on the      *)
(* profile (Shutdown picks it anew).                                       *)
ShutdownStopsAll ==
    pc = "idle" /\ verdict \in {"stopped", "dirty"} =>
      \A p \in running : p \in lost \/ Cardinality(Profiles(p[1])) > 1
===============================================================================
