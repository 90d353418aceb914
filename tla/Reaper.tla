------------------------------- MODULE Reaper -------------------------------
(***************************************************************************)
(* The process reapers: emulator.Cleanup and KillByPort,                   *)
(* vm.KillByQEMUMonitorPort and cuttlefish.Cleanup.                        *)
(*                                                                         *)
(* All four walk the process table, keep the pids that carry their         *)
(* ownership token in argv, send SIGTERM, poll for a grace period and send *)
(* SIGKILL to what is left.  The two Cleanups also want the process name   *)
(* of their class, from a walk of its own.  Meanwhile processes exit, and  *)
(* the kernel may hand a freed pid to somebody else.                       *)
(***************************************************************************)
EXTENDS Naturals

CONSTANTS Pids, MaxReuses

VARIABLES
    reaper,      \* which of the four is running
    token,       \* its ownership token is not empty
    proc,        \* by pid: the kind of process that has it
    comms,       \* the walk of process names
    at,          \* where the reaper is
    found,       \* report.Found, or Sigtermed
    stragglers,  \* the found pids that existed at the last poll
    terminated, killed, surviving,  \* the report
    struck,      \* kinds of process that have been sent a signal
    gone,        \* pids whose process has exited since the start
    reuses       \* pids handed out again so far

reaperVars == <<reaper, token, proc, comms, at, found, stragglers, terminated, killed, surviving,
                struck, gone, reuses>>

(* An owned process has the name and the token; a sibling the name with    *)
(* another token; a wrapper the token only; a hidden one cannot be read.   *)
Kinds == {"owned", "sibling", "wrapper", "hidden"}
Reapers == {"Cleanup", "CuttlefishCleanup", "KillByPort", "KillByQEMUMonitorPort"}
Named == {"Cleanup", "CuttlefishCleanup"}

Init ==
    /\ reaper \in Reapers /\ token \in BOOLEAN
    /\ proc \in [Pids -> Kinds \cup {"none"}]
    /\ comms = [p \in Pids |-> "none"]
    /\ at = "start" /\ found = {} /\ stragglers = {}
    /\ terminated = {} /\ killed = {} /\ surviving = {}
    /\ struck = {} /\ gone = {} /\ reuses = 0

Report == <<terminated, killed, surviving>>
World == <<proc, gone, reuses>>

-----------------------------------------------------------------------------
(* A process exits, of itself or on a signal.                              *)
Exit(p) ==
    /\ proc[p] # "none"
    /\ proc' = [proc EXCEPT ![p] = "none"] /\ gone' = gone \cup {p}
    /\ UNCHANGED <<reaper, token, comms, at, found, stragglers, Report, struck, reuses>>

(* The kernel gives its pid to a process of somebody else.                 *)
Reuse(p) ==
    /\ proc[p] = "none" /\ p \in gone /\ reuses < MaxReuses
    /\ proc' = [proc EXCEPT ![p] = "sibling"] /\ reuses' = reuses + 1
    /\ UNCHANGED <<reaper, token, comms, at, found, stragglers, Report, struck, gone>>

(* PidComms: the two Cleanups read the process names, and return at once   *)
(* without an owner token; the walk itself may fail.                       *)
PidComms ==
    /\ at = "start"
    /\ \/ reaper \in Named /\ ~token /\ at' = "returned" /\ UNCHANGED comms
       \/ reaper \in Named /\ token /\ at' = "failed" /\ UNCHANGED comms
       \/ reaper \in Named /\ token /\ at' = "walk" /\ comms' = proc
       \/ reaper \notin Named /\ at' = "walk" /\ UNCHANGED comms
    /\ UNCHANGED <<reaper, token, World, found, stragglers, Report, struck>>

(* The token is an argv token, and adjacent to its flag where it has one.  *)
argvHasAdjacent(p) == proc[p] \in {"owned", "wrapper"}

(* A matched pid: the token in argv and, for the Cleanups, the name.       *)
Matches(p) ==
    /\ argvHasAdjacent(p)
    /\ reaper \in Named => comms[p] \in {"owned", "sibling"}

(* PidCmdlines and the match: nothing matched is a no-op.                  *)
PidCmdlines ==
    /\ at = "walk"
    /\ \/ at' = "failed" /\ UNCHANGED found
       \/ found' = {p \in Pids : Matches(p)} /\ at' = IF found' = {} THEN "returned" ELSE "term"
    /\ UNCHANGED <<reaper, token, World, comms, stragglers, Report, struck>>

(* SIGTERM to every matched pid, whoever has it by now.                    *)
Term ==
    /\ at = "term"
    /\ struck' = struck \cup ({proc[p] : p \in found} \ {"none"})
    /\ at' = "wait"
    /\ UNCHANGED <<reaper, token, World, comms, found, stragglers, Report>>

(* Exists, polled for every matched pid; none left ends the grace period.  *)
(* kill(pid, 0) may be denied for a foreign process: that counts as gone.  *)
Poll ==
    /\ at \in {"wait", "grace"}
    /\ \E denied \in SUBSET {p \in found : proc[p] = "sibling"} :
          stragglers' = {p \in found : proc[p] # "none"} \ denied
    /\ at' = IF stragglers' = {} THEN "kill" ELSE "grace"
    /\ UNCHANGED <<reaper, token, World, comms, found, Report, struck>>

(* The deadline passes: the stragglers are those of the last poll.         *)
GraceEnds ==
    /\ at = "grace"
    /\ at' = "kill"
    /\ UNCHANGED <<reaper, token, World, comms, found, stragglers, Report, struck>>

(* ctx is done in the grace period: the report has what was found only.    *)
Cancel ==
    /\ at \in {"wait", "grace"}
    /\ at' = "failed"
    /\ UNCHANGED <<reaper, token, World, comms, found, stragglers, Report, struck>>

(* SIGKILL to the stragglers.  It fails, with ESRCH or EPERM, for a pid    *)
(* that nobody has any more and possibly for a foreign one.                *)
Kill ==
    /\ at = "kill"
    /\ terminated' = IF reaper \in Named THEN found \ stragglers ELSE {}
    /\ \E denied \in SUBSET {p \in stragglers : proc[p] = "sibling"} :
          /\ surviving' = denied \cup {p \in stragglers : proc[p] = "none"}
          /\ killed' = stragglers \ surviving'
    /\ struck' = struck \cup {proc[p] : p \in killed'}
    /\ at' = "returned"
    /\ UNCHANGED <<reaper, token, World, comms, found, stragglers>>

Step == PidComms \/ PidCmdlines \/ Term \/ Poll \/ GraceEnds \/ Cancel \/ Kill
Next == Step \/ \E p \in Pids : Exit(p) \/ Reuse(p)

Spec == Init /\ [][Next]_reaperVars

-----------------------------------------------------------------------------
(* "a typed in-package cleanup that targets a strict process-name          *)
(* allowlist" (cleanup.go): as long as no pid is handed out again, the     *)
(* Cleanups signal their own processes only, and the argv reapers only     *)
(* processes that carry the token.  Neither ever signals a sibling.        *)
OnlyOwnedStruck ==
    reuses = 0 => struck \subseteq IF reaper \in Named THEN {"owned"} ELSE {"owned", "wrapper"}

(* The report of a Cleanup that was not cancelled accounts for every pid   *)
(* it found exactly once, and what it calls terminated has really exited.  *)
ReportAccounts ==
    at = "returned" /\ reaper \in Named =>
        /\ found = terminated \cup killed \cup surviving
        /\ terminated \cap (killed \cup surviving) = {} /\ killed \cap surviving = {}
        /\ terminated \subseteq gone

(* A pid of the surviving list that was not handed out again is gone: the  *)
(* list never names one of our own processes that still runs.              *)
SurvivorsAreNotOurs == \A p \in surviving : p \in gone
=============================================================================
