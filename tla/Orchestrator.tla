----------------------------- MODULE Orchestrator -----------------------------
(***************************************************************************)
(* pkg/orchestrator: DefaultOrchestrator's DiscoverServices, AddService,   *)
(* StartAll with its dependency levels and rollback, StartService and      *)
(* StopAll.                                                                *)
(*                                                                         *)
(* A hold of o.mu is one step and a command to compose or to a host is     *)
(* one step; StartAll, StartService and StopAll overlap freely, and so do  *)
(* the goroutines of a level.  The calls copy o.services, so all services  *)
(* are registered here before the first of them.                           *)
(***************************************************************************)
EXTENDS Integers, FiniteSets, FiniteSetsExt, Sequences, SequencesExt

CONSTANTS
    Offered,       \* services a client may pass to AddService
    Found,         \* services a complete directory walk finds
    Missing,       \* compose files that do not exist
    MaxServices,   \* bound: length of o.services
    Scanners,      \* calls of DiscoverServices
    OrchHosts,     \* what ListHosts returns, in any order
    MaxStarts,     \* bound: calls of StartAll and StartService
    MaxStops,      \* bound: calls of StopAll
    MaxTrouble,    \* bound: commands that fail
    None

Local == "local"
Places == OrchHosts \cup {Local}
Svcs == Offered \cup Found
Files == {s.file : s \in Svcs}
SvcNames == {s.name : s \in Svcs}
Record == [file : Files, place : Places]

VARIABLES
    registered,   \* o.services
    hasLocal,     \* o.localOrch # nil
    hasRemote,    \* o.remoteEnabled
    up,           \* [file, place]: a compose project runs there
    record,       \* o.startedByName
    lost,         \* of up: no record leads to it after a failed command, another
                  \* read of hosts[0], or a record of its name replaced or deleted
    trouble,
    scan,         \* DiscoverServices: where it is and what it found
    starts, stops,
    boot,         \* StartAll: in its levels ("launch"), in rollback, or idle
    batch,        \* StartAll's copy of o.services
    levelOf,      \* computeStartLevels of batch
    job,          \* the goroutine, or the outcome, of each service of batch
    where,        \* the place each goroutine used
    failed,       \* failedNames
    nameFailed,   \* nameFailedCount
    nameTotal,
    failures,     \* len(failures) > 0
    started,      \* StartAll's started
    single,       \* StartService: its step, service and place
    stop,         \* StopAll: its step and its copies
    todo          \* services StopAll has still to stop

setUp == <<registered, hasLocal, hasRemote, scan>>
startAll == <<boot, batch, levelOf, job, where, failed, nameFailed, nameTotal, failures, started>>
stopAll == <<stop, todo>>
world == <<up, record, lost, trouble>>
orchVars == <<setUp, world, starts, stops, startAll, single, stopAll>>

Index == 1..MaxServices
Active == {"remote", "local", "health"}

(***************************************************************************)
(* computeStartLevels                                                      *)
(***************************************************************************)

Named(list, name) == {i \in DOMAIN list : list[i].name = name}
Prerequisites(list, i) == UNION {Named(list, d) : d \in list[i].deps}
KnownDeps(list) == \A i \in DOMAIN list : \A d \in list[i].deps : Named(list, d) # {}

(* placed after k waves: everything whose prerequisites were placed before. *)
Waves(list) ==
    LET wave[k \in 0..Len(list)] ==
            IF k = 0 THEN {}
            ELSE {i \in DOMAIN list : Prerequisites(list, i) \subseteq wave[k - 1]}
    IN wave

(* The wave of every service, or None for an unknown name or a cycle. *)
ComputeStartLevels(list) ==
    LET wave == Waves(list)
    IN IF KnownDeps(list) /\ wave[Len(list)] = DOMAIN list
       THEN [i \in DOMAIN list |-> Min({k \in 0..Len(list) : i \in wave[k]})]
       ELSE None

-----------------------------------------------------------------------------
NoStop == [at |-> "idle", list |-> <<>>, rec |-> [n \in SvcNames |-> None]]
NoSingle == [at |-> "idle", svc |-> None, place |-> None]

Init ==
    /\ registered = <<>>
    /\ hasLocal \in BOOLEAN /\ hasRemote \in BOOLEAN
    /\ up = {} /\ lost = {}
    /\ record = [n \in SvcNames |-> None]
    /\ trouble = 0
    /\ scan = [x \in Scanners |-> [at |-> "idle", found |-> {}]]
    /\ starts = 0 /\ stops = 0
    /\ boot = "idle" /\ batch = <<>> /\ levelOf = <<>> /\ job = <<>> /\ where = <<>>
    /\ failed = {} /\ nameFailed = [n \in SvcNames |-> 0] /\ nameTotal = [n \in SvcNames |-> 0]
    /\ failures = FALSE /\ started = <<>>
    /\ single = NoSingle
    /\ stop = NoStop /\ todo = <<>>

(***************************************************************************)
(* DiscoverServices and AddService                                         *)
(***************************************************************************)
SettingUp == starts = 0 /\ stops = 0

(* A client adds no service twice. *)
AddService(s) ==
    /\ SettingUp
    /\ s \notin ToSet(registered)
    /\ Len(registered) < MaxServices
    /\ registered' = Append(registered, s)
    /\ UNCHANGED <<hasLocal, hasRemote, scan, world, starts, stops, startAll, single, stopAll>>

HasFile(list, f) == \E i \in DOMAIN list : list[i].file = f

(* The walk, without o.mu: unreadable entries are passed over, and what    *)
(* was registered when the call began is not reported.                     *)
Walk(x) ==
    /\ SettingUp
    /\ scan[x].at = "idle"
    /\ \E seen \in SUBSET {s \in Found : ~HasFile(registered, s.file)} :
          scan' = [scan EXCEPT ![x] = [at |-> "walked", found |-> seen]]
    /\ UNCHANGED <<registered, hasLocal, hasRemote, world, starts, stops, startAll, single, stopAll>>

InOrder(S) == SetToSortSeq(S, LAMBDA s, t : s.file < t.file)

(* Under o.mu again: what got registered meanwhile is left out. *)
Insert(x) ==
    LET new == {s \in scan[x].found : ~HasFile(registered, s.file)}
    IN /\ SettingUp
       /\ scan[x].at = "walked"
       /\ Len(registered) + Cardinality(new) <= MaxServices
       /\ registered' = registered \o InOrder(new)
       /\ scan' = [scan EXCEPT ![x] = [at |-> "done", found |-> {}]]
       /\ UNCHANGED <<hasLocal, hasRemote, world, starts, stops, startAll, single, stopAll>>

(***************************************************************************)
(* Compose commands and the records of what was started                    *)
(***************************************************************************)
Trouble == trouble < MaxTrouble /\ trouble' = trouble + 1

(* startRemote or startLocal: mkdir, copy and up.  One that fails may have *)
(* started containers.                                                     *)
Up(f, p, ok) ==
    LET it == [file |-> f, place |-> p]
    IN IF ok
       THEN /\ (IF p = Local THEN hasLocal ELSE hasRemote)
            /\ up' = up \cup {it} /\ lost' = lost \ {it}
            /\ UNCHANGED trouble
       ELSE \/ /\ p = Local /\ ~hasLocal
               /\ UNCHANGED <<up, lost, trouble>>
            \/ /\ Trouble
               /\ \/ UNCHANGED <<up, lost>>
                  \/ it \notin up /\ up' = up \cup {it} /\ lost' = lost \cup {it}

(* localOrch.Down or remoteComposeDown. *)
Down(it, ok) ==
    IF ok
    THEN up' = up \ {it} /\ lost' = lost \ {it} /\ UNCHANGED trouble
    ELSE Trouble /\ UNCHANGED up /\ lost' = lost \cup (up \cap {it})

(* trackStarted: the last record of a name is kept; a started place other  *)
(* than the recorded one is out of StopAll's sight.                        *)
Track(name, it, used) ==
    /\ record' = [record EXCEPT ![name] = it]
    /\ lost' = lost \cup (up \cap ({record[name], used} \ {it}))

Forget(name) ==
    /\ record' = [record EXCEPT ![name] = None]
    /\ lost' = lost \cup (up \cap {record[name]})

(* resolveRemoteStartInfo: hosts[0] as it is now. *)
Resolve(p, q) == IF p = Local THEN q = Local ELSE q \in OrchHosts

(***************************************************************************)
(* StartAll                                                                *)
(***************************************************************************)
BeginStartAll ==
    /\ boot = "idle"
    /\ starts < MaxStarts
    /\ starts' = starts + 1
    /\ LET levels == ComputeStartLevels(registered)
       IN IF levels = None
          THEN UNCHANGED startAll
          ELSE /\ boot' = "launch"
               /\ batch' = registered
               /\ levelOf' = levels
               /\ job' = [i \in DOMAIN registered |-> "waiting"]
               /\ where' = [i \in DOMAIN registered |-> None]
               /\ nameTotal' = [n \in SvcNames |-> Cardinality(Named(registered, n))]
               /\ nameFailed' = [n \in SvcNames |-> 0]
               /\ failed' = {} /\ failures' = FALSE /\ started' = <<>>
    /\ UNCHANGED <<setUp, world, stops, single, stopAll>>

Waiting == {i \in DOMAIN job : job[i] = "waiting"}
Level == Min({levelOf[i] : i \in Waiting})

DependencyFailedIgnored(i) == FALSE

DependencyFailed(i) == batch[i].deps \cap failed # {}

(* One service of the level: skipped, passed over, or given a goroutine.   *)
(* recordNameFailure marks a name once all that share it have failed.      *)
Launch(i) ==
    /\ boot = "launch"
    /\ i \in Waiting /\ i = Min({j \in Waiting : levelOf[j] = Level})
    /\ \A j \in DOMAIN job : job[j] \in Active => levelOf[j] = levelOf[i]
    /\ LET n == batch[i].name
       IN IF DependencyFailed(i)
          THEN /\ job' = [job EXCEPT ![i] = "skipped"]
               /\ nameFailed' = [nameFailed EXCEPT ![n] = @ + 1]
               /\ failed' = IF nameFailed[n] + 1 >= nameTotal[n] THEN failed \cup {n} ELSE failed
               /\ failures' = (failures \/ batch[i].required)
               /\ UNCHANGED nameTotal
          ELSE IF batch[i].file \in Missing
          THEN /\ job' = [job EXCEPT ![i] = "missing"]
               /\ nameTotal' = [nameTotal EXCEPT ![n] = @ - 1]
               /\ UNCHANGED <<nameFailed, failed, failures>>
          ELSE /\ job' = [job EXCEPT ![i] = IF hasRemote THEN "remote" ELSE "local"]
               /\ UNCHANGED <<nameFailed, failed, failures, nameTotal>>
    /\ UNCHANGED <<setUp, world, starts, stops, boot, batch, levelOf, where, started, single, stopAll>>

(* A result drained from resultChan. *)
Drain(i, ok) ==
    LET n == batch[i].name
    IN IF ok
       THEN job' = [job EXCEPT ![i] = "ok"] /\ UNCHANGED <<nameFailed, failed, failures>>
       ELSE /\ job' = [job EXCEPT ![i] = "failed"]
            /\ nameFailed' = [nameFailed EXCEPT ![n] = @ + 1]
            /\ failed' = IF nameFailed[n] + 1 >= nameTotal[n] THEN failed \cup {n} ELSE failed
            /\ failures' = (failures \/ batch[i].required)

(* The goroutine's start: remote, and local when that fails. *)
GoStart(i, p) ==
    /\ i \in DOMAIN job
    /\ job[i] = IF p = Local THEN "local" ELSE "remote"
    /\ \/ /\ Up(batch[i].file, p, TRUE)
          /\ job' = [job EXCEPT ![i] = "health"]
          /\ where' = [where EXCEPT ![i] = p]
          /\ UNCHANGED <<nameFailed, failed, failures>>
       \/ /\ Up(batch[i].file, p, FALSE)
          /\ IF p = Local
               THEN Drain(i, FALSE)
               ELSE job' = [job EXCEPT ![i] = "local"] /\ UNCHANGED <<nameFailed, failed, failures>>
          /\ UNCHANGED where
    /\ UNCHANGED <<setUp, record, starts, stops, boot, batch, levelOf, nameTotal, started, single, stopAll>>

(* resolveRemoteStartInfo, the health check and the result.  An unhealthy  *)
(* service is up all the same, and a failure only when it is required.     *)
GoFinish(i, q) ==
    /\ i \in DOMAIN job /\ job[i] = "health"
    /\ Resolve(where[i], q)
    /\ \E healthy \in BOOLEAN :
          /\ healthy \/ batch[i].health
          /\ Drain(i, healthy \/ ~batch[i].required)
    /\ started' = Append(started, [file |-> batch[i].file, place |-> q])
    /\ lost' = lost \cup (up \cap ({[file |-> batch[i].file, place |-> where[i]]}
                                     \ {[file |-> batch[i].file, place |-> q]}))
    /\ UNCHANGED <<setUp, up, record, trouble, starts, stops, boot, batch, levelOf, where, nameTotal,
                   single, stopAll>>

Idle == /\ boot' = "idle" /\ batch' = <<>> /\ levelOf' = <<>> /\ job' = <<>> /\ where' = <<>>
        /\ failed' = {} /\ nameFailed' = [n \in SvcNames |-> 0]
        /\ nameTotal' = [n \in SvcNames |-> 0] /\ failures' = FALSE /\ started' = <<>>

LevelsDone == boot = "launch" /\ Waiting = {} /\ \A i \in DOMAIN job : job[i] \notin Active

NameOf(f) == (CHOOSE s \in Svcs : s.file = f).name

(* All that started is recorded in one hold of o.mu. *)
FinishStartAll ==
    /\ LevelsDone /\ ~failures
    /\ LET last(n) == {k \in DOMAIN started : NameOf(started[k].file) = n}
           new == [n \in SvcNames |-> IF last(n) = {} THEN record[n] ELSE started[Max(last(n))]]
       IN /\ record' = new
          /\ lost' = lost \cup (up \cap (({record[n] : n \in SvcNames} \cup ToSet(started))
                                          \ {new[n] : n \in SvcNames}))
    /\ Idle
    /\ UNCHANGED <<setUp, up, trouble, starts, stops, single, stopAll>>

BeginRollback ==
    /\ LevelsDone /\ failures
    /\ IF started = <<>> THEN Idle
       ELSE boot' = "rollback"
            /\ UNCHANGED <<batch, levelOf, job, where, failed, nameFailed, nameTotal, failures, started>>
    /\ UNCHANGED <<setUp, world, starts, stops, single, stopAll>>

(* rollback: one compose down, where the service was started, and its      *)
(* record deleted when that worked.                                        *)
Rollback ==
    /\ boot = "rollback"
    /\ LET it == Head(started)
           n == NameOf(it.file)
       IN \/ /\ up' = up \ {it}
             /\ record' = [record EXCEPT ![n] = None]
             /\ lost' = (lost \cup (up \cap {record[n]})) \ {it}
             /\ UNCHANGED trouble
          \/ Down(it, FALSE) /\ UNCHANGED record
    /\ IF Len(started) = 1 THEN Idle
       ELSE started' = Tail(started)
            /\ UNCHANGED <<boot, batch, levelOf, job, where, failed, nameFailed, nameTotal, failures>>
    /\ UNCHANGED <<setUp, starts, stops, single, stopAll>>

(***************************************************************************)
(* StartService                                                            *)
(***************************************************************************)

(* The first service of that name; an unknown one is an error. *)
BeginStartService(n) ==
    /\ single.at = "idle"
    /\ starts < MaxStarts
    /\ starts' = starts + 1
    /\ Named(registered, n) # {}
    /\ single' = [at |-> "start", svc |-> registered[Min(Named(registered, n))], place |-> None]
    /\ UNCHANGED <<setUp, world, stops, startAll, stopAll>>

(* Remote and local do not stand in for each other here. *)
SingleStart(p) ==
    /\ single.at = "start"
    /\ hasRemote <=> p # Local
    /\ \/ /\ Up(single.svc.file, p, TRUE)
          /\ single' = [single EXCEPT !.at = IF p = Local THEN "health" ELSE "track", !.place = p]
       \/ Up(single.svc.file, p, FALSE) /\ single' = NoSingle
    /\ UNCHANGED <<setUp, record, starts, stops, startAll, stopAll>>

(* A remote start is recorded whatever its health check says; a local one  *)
(* only after its check has passed.                                        *)
SingleTrack(q) ==
    LET it == [file |-> single.svc.file, place |-> q]
        used == [file |-> single.svc.file, place |-> single.place]
    IN /\ single.at = "track"
       /\ Resolve(single.place, q)
       /\ Track(single.svc.name, it, used)
       /\ single' = NoSingle
       /\ UNCHANGED <<setUp, up, trouble, starts, stops, startAll, stopAll>>

SingleHealth ==
    /\ single.at = "health"
    /\ \/ single' = [single EXCEPT !.at = "track"]
       \/ single.svc.health /\ single' = NoSingle
    /\ UNCHANGED <<setUp, world, starts, stops, startAll, stopAll>>

(***************************************************************************)
(* StopAll                                                                 *)
(***************************************************************************)
BeginStopAll ==
    /\ stop.at = "idle"
    /\ stops < MaxStops
    /\ stops' = stops + 1
    /\ registered # <<>>
    /\ hasLocal \/ hasRemote
    /\ stop' = [at |-> "down", list |-> registered, rec |-> record]
    /\ todo' = [i \in DOMAIN registered |-> i]
    /\ UNCHANGED <<setUp, world, starts, startAll, single>>

(* A service with a remote record is stopped there; any other one locally, *)
(* if there is a local orchestrator.                                       *)
StopDown ==
    /\ stop.at = "down"
    /\ LET s == stop.list[Head(todo)]
           rec == stop.rec[s.name]
           remote == rec # None /\ rec.place # Local
           it == IF remote THEN rec ELSE [file |-> s.file, place |-> Local]
           next == IF Len(todo) = 1 THEN NoStop ELSE stop
       IN IF ~remote /\ ~hasLocal
          THEN stop' = next /\ todo' = Tail(todo) /\ UNCHANGED <<up, lost, trouble>>
          ELSE \/ /\ Down(it, TRUE)
                  /\ IF rec # None
                       THEN stop' = [stop EXCEPT !.at = "forget"] /\ UNCHANGED todo
                       ELSE stop' = next /\ todo' = Tail(todo)
               \/ Down(it, FALSE) /\ stop' = next /\ todo' = Tail(todo)
    /\ UNCHANGED <<setUp, record, starts, stops, startAll, single>>

(* forgetStarted, in a hold of o.mu of its own. *)
StopForget ==
    /\ stop.at = "forget"
    /\ Forget(stop.list[Head(todo)].name)
    /\ stop' = IF Len(todo) = 1 THEN NoStop ELSE [stop EXCEPT !.at = "down"]
    /\ todo' = Tail(todo)
    /\ UNCHANGED <<setUp, up, trouble, starts, stops, startAll, single>>

Next ==
    \/ \E s \in Offered : AddService(s)
    \/ \E x \in Scanners : Walk(x) \/ Insert(x)
    \/ BeginStartAll \/ FinishStartAll \/ BeginRollback \/ Rollback
    \/ \E i \in Index : Launch(i) \/ \E p \in Places : GoStart(i, p) \/ GoFinish(i, p)
    \/ \E n \in SvcNames : BeginStartService(n)
    \/ \E p \in Places : SingleStart(p) \/ SingleTrack(p)
    \/ SingleHealth
    \/ BeginStopAll \/ StopDown \/ StopForget

(***************************************************************************)
(* Properties                                                              *)
(***************************************************************************)
Quiet == boot = "idle" /\ single.at = "idle" /\ stop.at = "idle"

(* Everything that runs is where StopAll will look for it: it has a record *)
(* of its own host, or it is local and no record of its name leads         *)
(* elsewhere.  That holds after unhealthy starts, fallbacks from remote to *)
(* local and rollbacks without a local orchestrator.                       *)
StopAllFindsIt ==
    Quiet => \A it \in up \ lost :
        LET rec == record[NameOf(it.file)]
        IN IF it.place = Local THEN rec = None \/ rec.place = Local ELSE rec = it

(* StartAll gives a service a goroutine only when all instances of its     *)
(* dependencies have settled and, of each name without missing files, at   *)
(* least one has come up.                                                  *)
DependenciesFirst ==
    \A i \in DOMAIN job : job[i] \in Active => \A d \in batch[i].deps :
        LET of == Named(batch, d)
        IN /\ \A j \in of : job[j] \notin Active \cup {"waiting"}
           /\ (\A j \in of : job[j] # "missing") => \E j \in of : job[j] = "ok"

(* The levels exist exactly when the dependencies name known services and  *)
(* no service depends on itself, directly or through others.               *)
Depends(list) == {<<i, j>> \in (DOMAIN list) \X (DOMAIN list) : j \in Prerequisites(list, i)}
Closed(list, S) == \A i \in S : \E j \in S : <<i, j>> \in Depends(list)
LevelsSound ==
    LET levels == ComputeStartLevels(registered)
        cyclic == \E S \in SUBSET DOMAIN registered : S # {} /\ Closed(registered, S)
    IN SettingUp =>
       IF cyclic \/ ~KnownDeps(registered)
       THEN levels = None
       ELSE levels # None /\ \A e \in Depends(registered) : levels[e[2]] < levels[e[1]]

(* No scan registers a compose file that is registered already, whatever   *)
(* was added while it walked.                                              *)
DiscoveredOnce ==
    \A i, j \in DOMAIN registered :
        i < j /\ registered[i].file = registered[j].file => registered[j] \notin Found
===============================================================================
