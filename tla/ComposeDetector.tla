--------------------------- MODULE ComposeDetector ----------------------------
(***************************************************************************)
(* pkg/remote's ComposeDetector and the getComposeCommand of the           *)
(* RemoteComposeOrchestrators that share it: which compose command a host  *)
(* is driven with.  A call probes the candidates one by one over ssh, with *)
(* no lock held; the host's tools and the cache change in between.         *)
(***************************************************************************)
EXTENDS Naturals, FiniteSets

CONSTANTS
    Detects,    \* calls of Up, Down, Status or Logs
    Last,       \* the candidates, by priority: 1..Last
    Fallback,   \* the guess made from host.Runtime
    MaxChanges, \* bound: changes of the host's tools
    NoCommand

Candidates == 1..Last

VARIABLES
    tools,    \* candidates whose version command answers on the host
    cache,    \* d.cache[host.Name]
    at,       \* where a call is: idle, first or second (its Detect), chosen
    candidate, \* the candidate a Detect probes next
    command,  \* the command getComposeCommand returned
    changes,  \* changes of tools so far
    answered, \* history: candidates that ever answered a probe
    steady,   \* history: calls during which tools has not changed
    missed    \* history: calls that found the cache empty

vars == <<tools, cache, at, candidate, command, changes, answered, steady, missed>>

Init ==
    /\ tools = {}
    /\ cache = NoCommand
    /\ at = [d \in Detects |-> "idle"]
    /\ candidate = [d \in Detects |-> 1]
    /\ command = [d \in Detects |-> NoCommand]
    /\ changes = 0
    /\ answered = {}
    /\ steady = {}
    /\ missed = {}

Choose(d, cmd) ==
    /\ at' = [at EXCEPT ![d] = "chosen"]
    /\ command' = [command EXCEPT ![d] = cmd]

(* A Detect starts with the cache, under the read lock. *)
Detect(d, which) ==
    \/ cache # NoCommand /\ Choose(d, cache) /\ UNCHANGED <<candidate, missed>>
    \/ /\ cache = NoCommand
       /\ at' = [at EXCEPT ![d] = which]
       /\ candidate' = [candidate EXCEPT ![d] = 1]
       /\ missed' = missed \cup {d}
       /\ UNCHANGED command

GetComposeCommand(d) ==
    /\ at[d] = "idle"
    /\ Detect(d, "first")
    /\ steady' = steady \cup {d}
    /\ UNCHANGED <<tools, cache, changes, answered>>

ProbeCommandKeepsCache(d) ==
    /\ at[d] \in {"first", "second"}
    /\ candidate[d] \in tools
    /\ cache' = IF cache = NoCommand THEN candidate[d] ELSE cache
    /\ answered' = answered \cup {candidate[d]}
    /\ Choose(d, cache')
    /\ UNCHANGED <<tools, candidate, changes, steady, missed>>

(* probeCommand succeeds: the candidate is cached and returned. *)
ProbeCommand(d) ==
    /\ at[d] \in {"first", "second"}
    /\ candidate[d] \in tools
    /\ cache' = candidate[d]
    /\ answered' = answered \cup {candidate[d]}
    /\ Choose(d, candidate[d])
    /\ UNCHANGED <<tools, candidate, changes, steady, missed>>

(* It fails, and the next candidate's turn comes. *)
ProbeNext(d) ==
    /\ at[d] \in {"first", "second"}
    /\ candidate[d] \in Candidates \ tools
    /\ candidate' = [candidate EXCEPT ![d] = @ + 1]
    /\ UNCHANGED <<tools, cache, at, command, changes, answered, steady, missed>>

(* No candidate answered: DetectWithFallback runs Detect once more ... *)
DetectWithFallback(d) ==
    /\ at[d] = "first"
    /\ candidate[d] > Last
    /\ Detect(d, "second")
    /\ UNCHANGED <<tools, cache, changes, answered, steady>>

(* ... and guesses, for this call only. *)
Guess(d) ==
    /\ at[d] = "second"
    /\ candidate[d] > Last
    /\ Choose(d, Fallback)
    /\ UNCHANGED <<tools, cache, candidate, changes, answered, steady, missed>>

ClearCache ==
    /\ cache # NoCommand
    /\ cache' = NoCommand
    /\ UNCHANGED <<tools, at, candidate, command, changes, answered, steady, missed>>

(* The host boots, breaks, gets or loses tools. *)
ToolsChange(t) ==
    /\ changes < MaxChanges
    /\ t # tools
    /\ tools' = t
    /\ changes' = changes + 1
    /\ steady' = {}
    /\ UNCHANGED <<cache, at, candidate, command, answered, missed>>

Next ==
    \/ \E d \in Detects :
          \/ GetComposeCommand(d) \/ ProbeCommand(d) \/ ProbeNext(d)
          \/ DetectWithFallback(d) \/ Guess(d)
    \/ ClearCache
    \/ \E t \in SUBSET Candidates : ToolsChange(t)

(***************************************************************************)
(* Properties                                                              *)
(***************************************************************************)

(* Only a command that answered its probe is ever cached: the guess made   *)
(* for an unready host is not frozen for later calls.                      *)
CacheIsGenuine == cache # NoCommand => cache \in answered

(* A call that finds the cache empty on a host whose tools stay as they    *)
(* are returns the first candidate that is there, whatever other calls and *)
(* ClearCache do meanwhile.                                                *)
BestToolChosen ==
    \A d \in Detects :
        at[d] = "chosen" /\ d \in steady \cap missed /\ tools # {}
            => command[d] \in tools /\ \A t \in tools : command[d] <= t
===============================================================================
