-------------------------------- MODULE Monitor --------------------------------
(***************************************************************************)
(* pkg/monitor: DefaultMonitor's loop, its system collector and the        *)
(* threshold rules.                                                        *)
(*                                                                         *)
(* The host's tick counters advance, stall, or drop in part (a CPU goes    *)
(* offline); a probe may fail at any collection.  Other goroutines call    *)
(* Collect on the same collector.                                          *)
(***************************************************************************)
EXTENDS Integers, FiniteSets

CONSTANTS
    Collectors,    \* goroutines that share the system collector
    MaxTicks,      \* bound: tick counters
    MaxCollects,   \* bound: collections of a goroutine
    Boxes,         \* containers the runtime may list
    Limit          \* percent of a rule's threshold

VARIABLES
    ticks,     \* the counters of /proc/stat: idle and busy
    prev,      \* c.prevIdle, c.prevTotal
    usage,     \* by goroutine: the CPU share of its last collection
    collects,  \* by goroutine: collections so far
    loop,      \* where Start is
    ended,     \* ctx is cancelled
    stopCh,    \* m.stopCh is closed
    stopped,   \* m.stopped
    latest,    \* m.latest
    taken,     \* the snapshot being collected
    alarms     \* was the value measured that the rules' actions were called with

monitorVars == <<ticks, prev, usage, collects, loop, ended, stopCh, stopped, latest, taken, alarms>>

W == 8                       \* width of the modelled counters (uint64 in the code)
Shares == [idle : 0..(2^W - 1), of : 0..(2^W - 1), ok : BOOLEAN]
Unknown == [idle |-> 0, of |-> 0, ok |-> FALSE]
Rejected == [idle |-> 0, of |-> 0, ok |-> TRUE]
(* (1 - idle/of) * 100; a rejected sample reads as zero.                   *)
Percent(s) == IF s.of = 0 THEN 0 ELSE (100 * (s.of - s.idle)) \div s.of

Snapshots == [at : 0..MaxCollects, cpu : Shares, boxes : SUBSET Boxes, running : SUBSET Boxes,
              listError : BOOLEAN, statsFailures : 0..Cardinality(Boxes)]
NoSnapshot == [at |-> 0, cpu |-> Unknown, boxes |-> {}, running |-> {}, listError |-> FALSE,
               statsFailures |-> 0]

Total(t) == t.idle + t.busy

(* NewDefaultSystemCollector primes the counters on Linux.                 *)
Init ==
    /\ ticks = [idle |-> 1, busy |-> 1]
    /\ prev = [idle |-> 1, total |-> 2]
    /\ usage = [g \in Collectors |-> Unknown]
    /\ collects = [g \in Collectors |-> 0]
    /\ loop = "idle" /\ ended = FALSE /\ stopCh = FALSE /\ stopped = FALSE
    /\ latest = NoSnapshot /\ taken = NoSnapshot /\ alarms = {}

(* The kernel's counters move; the busy ones may roll back.                *)
Tick ==
    /\ \E i \in ticks.idle..MaxTicks, b \in 0..MaxTicks : ticks' = [idle |-> i, busy |-> b]
    /\ ticks' # ticks
    /\ UNCHANGED <<prev, usage, collects, loop, ended, stopCh, stopped, latest, taken, alarms>>

-----------------------------------------------------------------------------

(* collectCPULinuxFromFileOK, under c.mu: a failed read is reported, a     *)
(* sample that does not advance is rejected, and neither moves prev.       *)
CollectCPU(g, readable) ==
    LET idleDelta == ticks.idle - prev.idle
        totalDelta == Total(ticks) - prev.total
    IN IF ~readable
       THEN usage' = [usage EXCEPT ![g] = Unknown] /\ UNCHANGED prev
       ELSE IF totalDelta <= 0 \/ idleDelta < 0 \/ idleDelta > totalDelta
       THEN usage' = [usage EXCEPT ![g] = Rejected] /\ UNCHANGED prev
       ELSE /\ usage' = [usage EXCEPT ![g] = [idle |-> idleDelta, of |-> totalDelta, ok |-> TRUE]]
            /\ prev' = [idle |-> ticks.idle, total |-> Total(ticks)]

(* Somebody else's Collect.                                                *)
Collect(g) ==
    /\ g # "monitor" /\ collects[g] < MaxCollects
    /\ collects' = [collects EXCEPT ![g] = @ + 1]
    /\ \E readable \in BOOLEAN : CollectCPU(g, readable)
    /\ UNCHANGED <<ticks, loop, ended, stopCh, stopped, latest, taken, alarms>>

(* Start, with an initial collection before the first tick.                *)
Start ==
    /\ loop = "idle"
    /\ loop' = "system"
    /\ UNCHANGED <<ticks, prev, usage, collects, ended, stopCh, stopped, latest, taken, alarms>>

(* collect: the system first ...                                           *)
CollectSystem ==
    /\ loop = "system"
    /\ collects' = [collects EXCEPT !["monitor"] = @ + 1]
    /\ \E readable \in BOOLEAN : CollectCPU("monitor", readable)
    /\ taken' = [NoSnapshot EXCEPT !.at = collects'["monitor"], !.cpu = usage'["monitor"]]
    /\ loop' = "list"
    /\ UNCHANGED <<ticks, ended, stopCh, stopped, latest, alarms>>

(* ... then the containers: a failed List or Stats is on the snapshot.     *)
CollectContainers(running, listed, read) ==
    IF listed
    THEN [taken EXCEPT !.running = running, !.boxes = read,
                       !.statsFailures = Cardinality(running \ read)]
    ELSE [taken EXCEPT !.running = running, !.listError = TRUE]

(* The snapshot is stored, then the rules are evaluated.                   *)
Store ==
    /\ loop = "list"
    /\ \E running \in SUBSET Boxes, listed \in BOOLEAN : \E read \in SUBSET running :
         /\ ~listed => read = {}
         /\ latest' = CollectContainers(running, listed, read)
    /\ taken' = latest'
    /\ loop' = "evaluate"
    /\ UNCHANGED <<ticks, prev, usage, collects, ended, stopCh, stopped, alarms>>

(* resolveMetric("system.cpu"): a failed probe resolves to nothing.        *)
Resolves(s) == s.ok

(* Evaluate, for a rule "below": idle hosts are reported.                  *)
Evaluate ==
    /\ loop = "evaluate"
    /\ alarms' = IF Resolves(taken.cpu) /\ Percent(taken.cpu) < Limit THEN alarms \cup {taken.cpu.ok}
                 ELSE alarms
    /\ loop' = "wait" /\ taken' = NoSnapshot
    /\ UNCHANGED <<ticks, prev, usage, collects, ended, stopCh, stopped, latest>>

(* The ticker fires, and select takes it.                                  *)
TickerFires ==
    /\ loop = "wait" /\ collects["monitor"] < MaxCollects
    /\ loop' = "system"
    /\ UNCHANGED <<ticks, prev, usage, collects, ended, stopCh, stopped, latest, taken, alarms>>

(* ctx.Done or stopCh is ready, and select takes it.                       *)
Leave ==
    /\ loop = "wait" /\ (ended \/ stopCh)
    /\ loop' = "returned"
    /\ UNCHANGED <<ticks, prev, usage, collects, ended, stopCh, stopped, latest, taken, alarms>>

Cancel ==
    /\ ~ended /\ ended' = TRUE
    /\ UNCHANGED <<ticks, prev, usage, collects, loop, stopCh, stopped, latest, taken, alarms>>

(* Stop, before, during or after Start; the second does nothing.           *)
Stop ==
    /\ ~stopped /\ stopped' = TRUE /\ stopCh' = TRUE
    /\ UNCHANGED <<ticks, prev, usage, collects, loop, ended, latest, taken, alarms>>

Next ==
    \/ Tick \/ Start \/ CollectSystem \/ Store \/ Evaluate \/ TickerFires \/ Leave \/ Cancel \/ Stop
    \/ \E g \in Collectors : Collect(g)

(* The goroutine of Start runs, and a select whose stop case stays ready   *)
(* takes it in the end.                                                    *)
Fairness ==
    WF_monitorVars(CollectSystem \/ Store \/ Evaluate) /\ SF_monitorVars(Leave)
Spec == Init /\ [][Next]_monitorVars /\ Fairness

-----------------------------------------------------------------------------
(* Every CPU share is a share, whatever the counters did between two       *)
(* samples and whoever took the one before: no underflow of the unsigned   *)
(* deltas, no negative percentage.                                         *)
SharesAreShares == \A g \in Collectors : usage[g].idle <= usage[g].of

(* A snapshot that shows fewer containers than run says that its probes    *)
(* failed: an outage is never an empty, healthy host.                      *)
OutageIsVisible ==
    latest.at > 0 =>
      latest.listError \/ Cardinality(latest.boxes) + latest.statsFailures = Cardinality(latest.running)

(* A rule's action is called only with a value that was measured.          *)
AlarmsAreMeasured == FALSE \notin alarms

(* A loop that a Stop, even one before Start, or its context has to end.   *)
Ending == loop \notin {"idle", "returned"} /\ (stopCh \/ ended)
===============================================================================
