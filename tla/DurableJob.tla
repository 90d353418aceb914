----------------------------- MODULE DurableJob -----------------------------
(***************************************************************************)
(* pkg/remoteexec: a job that outlives the session that launched it.       *)
(*                                                                         *)
(* One client launches one unit name again and again, over a transport     *)
(* that may break in the middle of a call while the remote shell carries   *)
(* on.  The unit belongs to the user's systemd manager, which survives the *)
(* last logout only if lingering is on; enable-linger is best effort.  A   *)
(* finished job leaves its exit code in the sentinel, the log beside it,   *)
(* and the next launch finds both.                                         *)
(*                                                                         *)
(* A job is identified with the Launch that started it; 0 is no job.       *)
(***************************************************************************)
EXTENDS Naturals, FiniteSets

CONSTANTS
    MaxLaunches,  \* calls of Launch
    MaxLost       \* calls whose transport breaks

Launches == 1..MaxLaunches

VARIABLES
    wants,     \* Spec.linger()
    linger,    \* lingering is on
    script, sentinel, log,  \* the artifacts, by the launch or job that wrote them
    unit,      \* the job that has the unit name
    phase,     \* "none", "registered", "running", "exiting"
    cur,       \* the client's latest Launch
    client,    \* "idle", "launching", "handle", "stopping", "stopped"
    shell,     \* by launch: where its remote command is
    lost,      \* launches whose transport broke
    cleaned,   \* launches that removed the stale artifacts
    verified,  \* launches whose handle has LingerVerified
    verdict,   \* by launch: the job whose code WaitForSentinel returned
    fetched,   \* by launch: the job whose log FetchLog returned with it
    over,      \* launches whose unit IsActive reported as not active
    reaped,    \* jobs that a logout killed
    took       \* systemctl stop did its work in the latest Stop

vars == <<wants, linger, script, sentinel, log, unit, phase, cur, client, shell, lost,
          cleaned, verified, verdict, fetched, over, reaped, took>>
artifacts == <<script, sentinel, log>>
job == <<unit, phase>>
seen == <<verdict, fetched, over>>

Init ==
    /\ wants \in BOOLEAN /\ linger \in BOOLEAN
    /\ script = 0 /\ sentinel = 0 /\ log = 0
    /\ unit = 0 /\ phase = "none"
    /\ cur = 0 /\ client = "idle"
    /\ shell = [a \in Launches |-> "none"]
    /\ lost = {} /\ cleaned = {} /\ verified = {} /\ over = {} /\ reaped = {}
    /\ verdict = [a \in Launches |-> 0] /\ fetched = [a \in Launches |-> 0]
    /\ took = FALSE

Go(a, from, to) == shell[a] = from /\ shell' = [shell EXCEPT ![a] = to]

-----------------------------------------------------------------------------
(* Launch resolves the directory, makes it and writes the wrapper script.  *)
Attempt(to) ==
    /\ client \in {"idle", "handle", "stopped"} /\ cur < MaxLaunches
    /\ cur' = cur + 1 /\ client' = to
    /\ UNCHANGED <<wants, linger, sentinel, log, job, lost, cleaned, verified, seen, reaped, took>>

Launch == Attempt("launching") /\ Go(cur', "none", "linger") /\ script' = cur'

(* No absolute directory can be had.                                       *)
resolveDir == Attempt("idle") /\ UNCHANGED <<shell, script>>

(* The upload fails before, or its chmod after, the script is in place.    *)
WriteFile == Attempt("idle") /\ script' \in {script, cur'} /\ UNCHANGED shell

(* The launch command, one shell on the target: enable-linger || true ...  *)
EnableLinger(a) ==
    /\ Go(a, "linger", "check")
    /\ linger' \in IF wants THEN {linger, TRUE} ELSE {linger}
    /\ UNCHANGED <<wants, artifacts, job, cur, client, lost, cleaned, verified, seen, reaped, took>>

(* ... is-active --quiet || ...                                            *)
Check(a) ==
    /\ Go(a, "check", IF unit = 0 THEN "rm" ELSE "run")
    /\ UNCHANGED <<wants, linger, artifacts, job, cur, client, lost, cleaned, verified, seen,
                   reaped, took>>

(* ... rm -f sentinel log ...                                              *)
Rm(a) ==
    /\ Go(a, "rm", "run")
    /\ sentinel' = 0 /\ log' = 0
    /\ cleaned' = cleaned \cup {a}
    /\ UNCHANGED <<wants, linger, script, job, cur, client, lost, verified, seen, reaped, took>>

(* ... systemd-run, which refuses a unit name that is taken.               *)
SystemdRun(a) ==
    /\ \/ unit = 0 /\ Go(a, "run", "ran") /\ unit' = a /\ phase' = "registered"
       \/ Go(a, "run", "failed") /\ UNCHANGED job
    /\ UNCHANGED <<wants, linger, artifacts, cur, client, lost, cleaned, verified, seen, reaped,
                   took>>

(* The handle: LingerActive asks the host, and no answer is no.            *)
Launched ==
    /\ client = "launching" /\ shell[cur] = "ran"
    /\ client' = "handle"
    /\ verified' \in {verified, IF wants /\ linger THEN verified \cup {cur} ELSE verified}
    /\ UNCHANGED <<wants, linger, artifacts, job, cur, shell, lost, cleaned, seen, reaped, took>>

LaunchFailed ==
    /\ client = "launching" /\ shell[cur] = "failed"
    /\ client' = "idle"
    /\ UNCHANGED <<wants, linger, artifacts, job, cur, shell, lost, cleaned, verified, seen,
                   reaped, took>>

(* The connection breaks or ctx ends: Launch returns an error and no       *)
(* handle.  The remote shell may go on, or may be gone.                    *)
TransportLost ==
    /\ client = "launching" /\ Cardinality(lost) < MaxLost
    /\ client' = "idle"
    /\ lost' = lost \cup {cur}
    /\ shell' \in {shell, [shell EXCEPT ![cur] = "failed"]}
    /\ UNCHANGED <<wants, linger, artifacts, job, cur, cleaned, verified, seen, reaped, took>>

-----------------------------------------------------------------------------
(* With a handle.  A poll without a sentinel goes on, and a transport      *)
(* failure, the timeout or ctx is an error: neither is a verdict.          *)
WaitForSentinel ==
    /\ client = "handle" /\ sentinel # 0
    /\ verdict' = [verdict EXCEPT ![cur] = sentinel]
    /\ UNCHANGED <<wants, linger, artifacts, job, cur, client, shell, lost, cleaned, verified,
                   fetched, over, reaped, took>>

(* A broken read returns its prefix with an error; this is the whole log.  *)
FetchLog ==
    /\ client = "handle" /\ verdict[cur] # 0
    /\ fetched' = [fetched EXCEPT ![cur] = log]
    /\ UNCHANGED <<wants, linger, artifacts, job, cur, client, shell, lost, cleaned, verified,
                   verdict, over, reaped, took>>


(* Only an answer of systemctl counts; without one IsActive is an error.   *)
IsActive ==
    /\ client = "handle" /\ unit = 0
    /\ over' = over \cup {cur}
    /\ UNCHANGED <<wants, linger, artifacts, job, cur, client, shell, lost, cleaned, verified,
                   verdict, fetched, reaped, took>>

(* A job that is stopped or reaped may get to its EXIT trap or may not.    *)
Struck ==
    /\ sentinel' \in {sentinel} \cup IF phase = "running" THEN {unit} ELSE {}
    /\ unit' = 0 /\ phase' = "none"

(* Stop: systemctl stop || true, or the call does not get through at all.  *)
Stop ==
    /\ client = "handle"
    /\ \/ Struck /\ took' = TRUE /\ client' = "stopping"
       \/ UNCHANGED <<sentinel, job>> /\ took' = FALSE /\ client' \in {"stopping", "idle"}
    /\ UNCHANGED <<wants, linger, script, log, cur, shell, lost, cleaned, verified, seen, reaped>>

(* ... and rm -f of the three artifacts.                                   *)
StopRm ==
    /\ client = "stopping"
    /\ client' = "stopped"
    /\ script' = 0 /\ sentinel' = 0 /\ log' = 0
    /\ UNCHANGED <<wants, linger, job, cur, shell, lost, cleaned, verified, seen, reaped, took>>

-----------------------------------------------------------------------------
(* The wrapper: it opens the log, runs the body, and its EXIT trap writes  *)
(* the sentinel on every way out; then the unit is collected.  Without a   *)
(* script on disk bash ends at once.                                       *)
Begin ==
    /\ phase = "registered"
    /\ \/ script # 0 /\ phase' = "running" /\ log' = unit /\ UNCHANGED unit
       \/ script = 0 /\ phase' = "none" /\ unit' = 0 /\ UNCHANGED log
    /\ UNCHANGED <<wants, linger, script, sentinel, cur, client, shell, lost, cleaned, verified,
                   seen, reaped, took>>

Finish ==
    /\ phase = "running"
    /\ sentinel' = unit /\ phase' = "exiting"
    /\ UNCHANGED <<wants, linger, script, log, unit, cur, client, shell, lost, cleaned, verified,
                   seen, reaped, took>>

Collect ==
    /\ phase = "exiting"
    /\ unit' = 0 /\ phase' = "none"
    /\ UNCHANGED <<wants, linger, artifacts, cur, client, shell, lost, cleaned, verified, seen,
                   reaped, took>>

(* The user's last session ends: without lingering the manager goes too.   *)
Logout ==
    /\ unit # 0 /\ ~linger
    /\ Struck
    /\ reaped' = reaped \cup {unit}
    /\ UNCHANGED <<wants, linger, script, log, cur, client, shell, lost, cleaned, verified, seen,
                   took>>

Next ==
    \/ Launch \/ resolveDir \/ WriteFile \/ Launched \/ LaunchFailed \/ TransportLost
    \/ \E a \in Launches : EnableLinger(a) \/ Check(a) \/ Rm(a) \/ SystemdRun(a)
    \/ WaitForSentinel \/ FetchLog \/ IsActive \/ Stop \/ StopRm
    \/ Begin \/ Finish \/ Collect \/ Logout

Spec == Init /\ [][Next]_vars

-----------------------------------------------------------------------------

(* "lets WaitForSentinel read the previous run's exit code" is what the    *)
(* rm of the launch command is there to prevent: a launch that found its   *)
(* unit not active gets the verdict and the log of its own job, as long as *)
(* no earlier launch command was left running by a broken connection.      *)
OwnVerdict ==
    \A a \in cleaned : lost = {} => {verdict[a], fetched[a]} \subseteq {0, a}

(* "a false `not active' for a host we could not even reach": once         *)
(* IsActive has said that a launched unit is not active, its job is over.  *)
NotActiveMeansOver == unit # 0 => unit \notin over

(* A job whose handle said LingerVerified is not killed by a logout, which *)
(* is what "a caller relying on the job surviving logout" consults it for. *)
VerifiedSurvives == \A a \in verified : a \in reaped' => a \in reaped

(* A Stop that stopped the unit leaves no job and none of its artifacts,   *)
(* although the stopped wrapper writes its sentinel on the way out.        *)
StopLeavesNothing ==
    client = "stopped" /\ took /\ lost = {} => unit = 0 /\ {script, sentinel, log} = {0}
=============================================================================
