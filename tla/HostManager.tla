----------------------------- MODULE HostManager ------------------------------
(***************************************************************************)
(* pkg/remote's DefaultHostManager: the registry of hosts, their states,   *)
(* and ProbeAll, which probes every registered host in a goroutine of its  *)
(* own.  ProbeHost reads the registry under one lock hold, asks the host,  *)
(* and writes the state under another; hosts come and go meanwhile.        *)
(***************************************************************************)
EXTENDS Naturals

CONSTANTS
    Names,   \* host names
    Sweeps   \* ProbeAll calls

VARIABLES
    registered, \* keys of m.hosts
    states,     \* m.states; "absent" is no key
    goroutine,  \* goroutine[a][n]: ProbeAll a's probe of n
    verdict,    \* verdict[a][n]: what that probe found
    results,    \* results[a]: the keys of ProbeAll a's result
    sweep       \* sweep[a]: idle, waiting or returned

vars == <<registered, states, goroutine, verdict, results, sweep>>

Verdicts == {"offline", "failed", "degraded", "online"}

Init ==
    /\ registered = {}
    /\ states = [n \in Names |-> "absent"]
    /\ goroutine = [a \in Sweeps |-> [n \in Names |-> "none"]]
    /\ verdict = [a \in Sweeps |-> [n \in Names |-> "none"]]
    /\ results = [a \in Sweeps |-> {}]
    /\ sweep = [a \in Sweeps |-> "idle"]

AddHost(n) ==
    /\ n \notin registered
    /\ registered' = registered \cup {n}
    /\ states' = [states EXCEPT ![n] = "unknown"]
    /\ UNCHANGED <<goroutine, verdict, results, sweep>>

RemoveHost(n) ==
    /\ n \in registered
    /\ registered' = registered \ {n}
    /\ states' = [states EXCEPT ![n] = "absent"]
    /\ UNCHANGED <<goroutine, verdict, results, sweep>>

(* ProbeAll copies the registry and starts one goroutine per host. *)
ProbeAll(a) ==
    /\ sweep[a] = "idle"
    /\ sweep' = [sweep EXCEPT ![a] = "waiting"]
    /\ goroutine' = [goroutine EXCEPT ![a] =
                        [n \in Names |-> IF n \in registered THEN "lookup" ELSE "none"]]
    /\ UNCHANGED <<registered, states, verdict, results>>

(* ProbeHost looks the host up again. *)
Lookup(a, n) ==
    /\ goroutine[a][n] = "lookup"
    /\ \/ /\ n \in registered
          /\ goroutine' = [goroutine EXCEPT ![a][n] = "asking"]
          /\ UNCHANGED verdict
       \/ /\ n \notin registered
          /\ goroutine' = [goroutine EXCEPT ![a][n] = "done"]
          /\ verdict' = [verdict EXCEPT ![a][n] = "notFound"]
    /\ UNCHANGED <<registered, states, results, sweep>>

(* IsReachable and Probe have answered; setState writes the state even if  *)
(* the host has been removed.  A failed probe and a host above 90 % CPU or *)
(* memory are both degraded.                                               *)
SetState(a, n, v) ==
    /\ goroutine[a][n] = "asking"
    /\ states' = [states EXCEPT ![n] = IF v = "failed" THEN "degraded" ELSE v]
    /\ verdict' = [verdict EXCEPT ![a][n] = v]
    /\ goroutine' = [goroutine EXCEPT ![a][n] =
                        IF v \in {"offline", "failed"} THEN "done" ELSE "store"]
    /\ UNCHANGED <<registered, results, sweep>>

(* The goroutine stores its result under the call's own mutex. *)
Store(a, n) ==
    /\ goroutine[a][n] = "store"
    /\ results' = [results EXCEPT ![a] = @ \cup {n}]
    /\ goroutine' = [goroutine EXCEPT ![a][n] = "done"]
    /\ UNCHANGED <<registered, states, verdict, sweep>>

(* wg.Wait *)
Return(a) ==
    /\ sweep[a] = "waiting"
    /\ \A n \in Names : goroutine[a][n] \in {"none", "done"}
    /\ sweep' = [sweep EXCEPT ![a] = "returned"]
    /\ UNCHANGED <<registered, states, goroutine, verdict, results>>

Next ==
    \/ \E n \in Names : AddHost(n) \/ RemoveHost(n)
    \/ \E a \in Sweeps : ProbeAll(a) \/ Return(a)
    \/ \E a \in Sweeps, n \in Names :
          Lookup(a, n) \/ Store(a, n) \/ \E v \in Verdicts : SetState(a, n, v)

(***************************************************************************)
(* Properties                                                              *)
(***************************************************************************)

(* The map ProbeAll returns has every host of its copy of the registry     *)
(* whose probe succeeded and no other, however the probes, removals and    *)
(* re-registrations interleave.                                            *)
SweepComplete ==
    \A a \in Sweeps : sweep[a] = "returned" =>
        results[a] = {n \in Names : verdict[a][n] \in {"degraded", "online"}}
===============================================================================
