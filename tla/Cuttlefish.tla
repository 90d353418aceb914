------------------------------ MODULE Cuttlefish ------------------------------
(***************************************************************************)
(* Cuttlefish virtual devices in privileged containers (pkg/cuttlefish).   *)
(* Each instance is driven as its callers do: Launch, WaitForReady when it *)
(* started, and Stop in a defer whatever happened.  The container's name   *)
(* is a function of the configured instance name, so two instances may     *)
(* contend for one name; a container that exits frees it (--rm).           *)
(***************************************************************************)
EXTENDS Integers, FiniteSets

CONSTANTS
    N,            \* instances
    InstanceName, \* instance -> Config.InstanceName
    MaxLaunches   \* launches of one instance

Instances == 1..N
None == 0

VARIABLES
    containerName, \* the field of each instance: a name, or None
    pc, launches,
    owner,   \* container name -> the instance whose run created it, or None
    adb,     \* container name -> state of its serial: "absent", "offline", "device"
    lost,    \* history: instances whose container is gone without their Stop
    rmFailed \* history: instances whose last `rm -f' failed

vars == <<containerName, pc, launches, owner, adb, lost, rmFailed>>
Names == {InstanceName[i] : i \in Instances}
containerNameFor(i) == InstanceName[i]

Init ==
    /\ containerName = [i \in Instances |-> None]
    /\ pc = [i \in Instances |-> "idle"]
    /\ launches = [i \in Instances |-> 0]
    /\ owner = [n \in Names |-> None]
    /\ adb = [n \in Names |-> "absent"]
    /\ lost = {} /\ rmFailed = {}

Go(i, from, to) == pc[i] = from /\ pc' = [pc EXCEPT ![i] = to]

(***************************************************************************)
(* Launch: the runtime refuses a name in use; the name is remembered only  *)
(* after the run succeeded (CF-2).                                         *)
(***************************************************************************)
Started(i) ==
    /\ owner[containerNameFor(i)] = None
    /\ Go(i, "idle", "wait")
    /\ owner' = [owner EXCEPT ![containerNameFor(i)] = i]
    /\ adb' = [adb EXCEPT ![containerNameFor(i)] = "offline"]
    /\ containerName' = [containerName EXCEPT ![i] = containerNameFor(i)]
    /\ lost' = lost \ {i} /\ rmFailed' = rmFailed \ {i}

Launch(i) ==
    /\ launches[i] < MaxLaunches
    /\ launches' = [launches EXCEPT ![i] = @ + 1]
    /\ \/ Started(i)
       \/ Go(i, "idle", "stop") /\ UNCHANGED <<containerName, owner, adb, lost, rmFailed>>

(***************************************************************************)
(* WaitForReady polls `adb devices' for the instance's serial (one serial  *)
(* per instance name) until it is online or the deadline passes.           *)
(***************************************************************************)
readinessForSerial(i) == adb[containerNameFor(i)] = "device"

WaitForReady(i) ==
    /\ \/ readinessForSerial(i) /\ Go(i, "wait", "ready")
       \/ Go(i, "wait", "stop")
    /\ UNCHANGED <<containerName, launches, owner, adb, lost, rmFailed>>

\* The caller is done with the device.
Used(i) ==
    /\ Go(i, "ready", "stop")
    /\ UNCHANGED <<containerName, launches, owner, adb, lost, rmFailed>>

(***************************************************************************)
(* Stop: nothing without a name; stop_cvd, best effort; `rm -f'; the       *)
(* host-wide reaper is called with an empty token and refuses.             *)
(***************************************************************************)
StopNothing(i) ==
    /\ containerName[i] = None
    /\ Go(i, "stop", "idle")
    /\ UNCHANGED <<containerName, launches, owner, adb, lost, rmFailed>>


StopCvd(i) ==
    /\ containerName[i] # None
    /\ Go(i, "stop", "remove")
    /\ adb' \in {adb, [adb EXCEPT ![containerName[i]] =
                          IF owner[containerName[i]] = None THEN @ ELSE "offline"]}
    /\ UNCHANGED <<containerName, launches, owner, lost, rmFailed>>

Remove(i) ==
    /\ Go(i, "remove", "idle")
    /\ \/ /\ owner' = [owner EXCEPT ![containerName[i]] = None]
          /\ adb' = [adb EXCEPT ![containerName[i]] = "absent"]
          /\ lost' = lost \cup ({owner[containerName[i]]} \ {i, None})
          /\ UNCHANGED rmFailed
       \/ rmFailed' = rmFailed \cup {i} /\ UNCHANGED <<owner, adb, lost>>
    /\ containerName' = [containerName EXCEPT ![i] = None]
    /\ UNCHANGED launches

\* Android comes up in the container, or the container exits by itself.
Boots(n) ==
    /\ owner[n] # None /\ adb[n] = "offline"
    /\ adb' = [adb EXCEPT ![n] = "device"]
    /\ UNCHANGED <<containerName, pc, launches, owner, lost, rmFailed>>

Exits(n) ==
    /\ owner[n] # None
    /\ lost' = lost \cup {owner[n]}
    /\ owner' = [owner EXCEPT ![n] = None]
    /\ adb' = [adb EXCEPT ![n] = "absent"]
    /\ UNCHANGED <<containerName, pc, launches, rmFailed>>

Next ==
    \/ \E i \in Instances : \/ Launch(i) \/ WaitForReady(i) \/ Used(i)
                            \/ StopNothing(i) \/ StopCvd(i) \/ Remove(i)
    \/ \E n \in Names : Boots(n) \/ Exits(n)

Spec == Init /\ [][Next]_vars

-----------------------------------------------------------------------------

(***************************************************************************)
(* Stop removes another instance's container only if its own container was *)
(* gone and the name had been taken since; a failed Launch followed by     *)
(* Stop never does (CF-2).                                                 *)
(***************************************************************************)
StopsItsOwn ==
    \A i \in Instances : pc[i] = "remove" /\ pc'[i] = "idle" =>
         \A n \in Names : owner[n] # None /\ owner'[n] = None
                             => owner[n] = i \/ i \in lost

(***************************************************************************)
(* "the container MUST be cleaned up regardless": after Stop an instance's *)
(* container is gone unless `rm -f' failed, even when stop_cvd failed.     *)
(***************************************************************************)
StopCleans == \A n \in Names : owner[n] # None /\ pc[owner[n]] = "idle"
                                  => owner[n] \in rmFailed
=============================================================================
