--------------------------- MODULE DistributedBuild ---------------------------
(***************************************************************************)
(* cmd/distributed-build over internal/buildpkg: plan the components onto  *)
(* hosts, copy the source to every host of the plan, build one component   *)
(* after the other, remove the copies and exit.  Any remote call may fail, *)
(* and the program may be killed between two of them.                      *)
(***************************************************************************)
EXTENDS FiniteSets

CONSTANTS
    Components, \* the catalogue of --components
    BuildHosts, \* the hosts the scheduler knows
    Local       \* the host name of an assignment no host was found for

VARIABLES
    dryRun,   \* --dry-run
    at,       \* plan, sync, build, cleanup, exited
    plan,     \* the assignments: a host for each planned component
    todo,     \* what the loop at hand has left: components, or hosts to clean
    synced,   \* syncedHosts
    scratch,  \* remoteDir on a host: none, partial, source
    results,  \* the BuildResults: a status for a component
    exit,     \* none, success, failures, fatal, killed
    built,    \* history: components whose build command exited with zero
    kept      \* history: hosts on which the final rm failed

vars == <<dryRun, at, plan, todo, synced, scratch, results, exit, built, kept>>

Init ==
    /\ dryRun \in BOOLEAN
    /\ at = "plan"
    /\ plan = [c \in {} |-> Local]
    /\ todo = {}
    /\ synced = {}
    /\ scratch = [h \in BuildHosts |-> "none"]
    /\ results = [c \in Components |-> "none"]
    /\ exit = "none"
    /\ built = {}
    /\ kept = {}

LocalAssignments == {c \in DOMAIN plan : plan[c] = Local}
RemoteAssignments == DOMAIN plan \ LocalAssignments

Exits(code) == at' = "exited" /\ exit' = code /\ UNCHANGED todo

-----------------------------------------------------------------------------
(* PlanAll, or PlanSingle of one component.  The plan fails for an unknown *)
(* component; a component without a host is assigned to local.             *)
Plan ==
    /\ at = "plan"
    /\ \/ Exits("fatal") /\ UNCHANGED plan
       \/ \E planned \in {Components} \cup {{c} : c \in Components} :
             /\ plan' \in [planned -> BuildHosts \cup {Local}]
             /\ IF dryRun
                THEN Exits("success")
                ELSE /\ at' = "sync"
                     /\ todo' = {c \in planned : plan'[c] # Local}
                     /\ UNCHANGED exit
    /\ UNCHANGED <<dryRun, synced, scratch, results, built, kept>>

(* The source reaches the host in full, or SyncSource fails at one of its  *)
(* three calls, and the program with it.                                   *)
SyncSource(h) ==
    \/ /\ scratch' = [scratch EXCEPT ![h] = "source"]
       /\ synced' = synced \cup {h}
       /\ UNCHANGED <<at, exit>>
    \/ /\ scratch' \in {[scratch EXCEPT ![h] = s] : s \in {"none", "partial"}}
       /\ at' = "exited" /\ exit' = "fatal"
       /\ UNCHANGED synced

Sync(c) ==
    /\ at = "sync" /\ c \in todo
    /\ todo' = todo \ {c}
    /\ IF plan[c] \in synced
       THEN UNCHANGED <<at, synced, scratch, exit>>
       ELSE SyncSource(plan[c])
    /\ UNCHANGED <<dryRun, plan, results, built, kept>>

(* The local assignments fail before the remote ones are built.            *)
LocalResults ==
    results' = [c \in Components |-> IF c \in LocalAssignments THEN "failed" ELSE results[c]]

LocalAssignmentResults ==
    /\ at = "sync" /\ todo = {}
    /\ at' = "build"
    /\ todo' = RemoteAssignments
    /\ LocalResults
    /\ UNCHANGED <<dryRun, plan, synced, scratch, exit, built, kept>>

(* The host is out of reach, the call fails or times out (whatever became  *)
(* of the build), or the command exits.  What becomes of the artifacts of  *)
(* a success is only logged.                                               *)
LaunchRemoteBuild(c) ==
    /\ at = "build" /\ c \in todo
    /\ todo' = todo \ {c}
    /\ \/ /\ results' = [results EXCEPT ![c] = "failed"]
          /\ built' \in {built, built \cup {c}}
       \/ /\ results' = [results EXCEPT ![c] = "success"]
          /\ built' = built \cup {c}
    /\ UNCHANGED <<dryRun, at, plan, synced, scratch, exit, kept>>

-----------------------------------------------------------------------------
BuildsEnd ==
    /\ at = "build" /\ todo = {}
    /\ at' = "cleanup"
    /\ todo' = synced
    /\ UNCHANGED <<dryRun, plan, synced, scratch, results, exit, built, kept>>

(* rm -rf of the copy; an error is dropped.                                *)
Remove(h) ==
    /\ at = "cleanup" /\ h \in todo
    /\ todo' = todo \ {h}
    /\ \/ scratch' = [scratch EXCEPT ![h] = "none"] /\ UNCHANGED kept
       \/ kept' = kept \cup {h} /\ UNCHANGED scratch
    /\ UNCHANGED <<dryRun, at, plan, synced, results, exit, built>>

Exit ==
    /\ at = "cleanup" /\ todo = {}
    /\ Exits(IF \E c \in Components : results[c] = "failed" THEN "failures" ELSE "success")
    /\ UNCHANGED <<dryRun, plan, synced, scratch, results, built, kept>>

(* No signal is handled.                                                   *)
Killed ==
    /\ at # "exited"
    /\ Exits("killed")
    /\ UNCHANGED <<dryRun, plan, synced, scratch, results, built, kept>>

Next ==
    \/ Plan \/ LocalAssignmentResults \/ BuildsEnd \/ Exit \/ Killed
    \/ \E c \in Components : Sync(c) \/ LaunchRemoteBuild(c)
    \/ \E h \in BuildHosts : Remove(h)

Spec == Init /\ [][Next]_vars

-----------------------------------------------------------------------------
(* A run that ends well has built every component of its plan: a component *)
(* left to local, or on a host that was lost, is never taken for built     *)
(* (executor.go:146-160, main.go:191-217).                                 *)
GreenMeansBuilt == exit = "success" /\ ~dryRun => DOMAIN plan \subseteq built

(* While components are built, every host of the plan has the source in    *)
(* full: a copy that failed ends the program first (main.go:185).          *)
SourceFirst == at = "build" => \A c \in RemoteAssignments : scratch[plan[c]] = "source"

(* A run that comes to its end, with failed builds or without, leaves no   *)
(* copy on a host whose rm did not fail (main.go:251-257).                 *)
CopiesRemoved ==
    exit \in {"success", "failures"} => \A h \in BuildHosts : scratch[h] = "none" \/ h \in kept
===============================================================================
