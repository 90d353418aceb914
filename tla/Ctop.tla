-------------------------------- MODULE Ctop ---------------------------------
(***************************************************************************)
(* The container monitor (pkg/ctop): the Display's loop, and the Collector *)
(* it renders from, which asks the local runtime and then every remote     *)
(* host at once.  A runtime's command may wedge; a quit signal or a Stop   *)
(* waits in a channel until the loop is back in its select.                *)
(***************************************************************************)
EXTENDS Naturals, FiniteSets

CONSTANTS
    Runs,   \* goroutines that call Display.Run
    Hosts,  \* the hosts of the host manager
    None

VARIABLES
    running,  \* d.running
    cancel,   \* d.cancel: the Run it cancels
    at,       \* where a Run is: idle, claimed, local, remote, select
    done,     \* Runs whose context is cancelled
    sig,      \* Runs with a quit signal in their channel
    tick,     \* the ticker's channel holds a tick
    expired,  \* the refresh's timeout has fired
    job,      \* the goroutine of a host: none, busy, ok, failed
    local,    \* the local listing of this refresh: none, ok, failed
    stats     \* c.stats: sources listed, and Errors

vars == <<running, cancel, at, done, sig, tick, expired, job, local, stats>>

Sources == Hosts \cup {"local"}

Init ==
    /\ running = FALSE
    /\ cancel = None
    /\ at = [r \in Runs |-> "idle"]
    /\ done = {}
    /\ sig = {}
    /\ tick = FALSE
    /\ expired = FALSE
    /\ job = [h \in Hosts |-> "none"]
    /\ local = "none"
    /\ stats = [listed |-> {}, errors |-> 0]

Goes(r, place) == at' = [at EXCEPT ![r] = place]

-----------------------------------------------------------------------------
(* A second Run is refused (and leaves everything as it is).               *)
Run(r) ==
    /\ at[r] = "idle" /\ ~running
    /\ running' = TRUE
    /\ Goes(r, "claimed")
    /\ done' = done \ {r}
    /\ UNCHANGED <<cancel, sig, tick, expired, job, local, stats>>

(* Each refresh has a context of its own, with a timeout.                  *)
RenderBounded(r) ==
    /\ Goes(r, "local")
    /\ expired' = FALSE
    /\ local' = "none"
    /\ job' = [h \in Hosts |-> "none"]

(* The cancel is published and the signals are asked for; the first        *)
(* refresh begins.                                                         *)
Publish(r) ==
    /\ at[r] = "claimed"
    /\ cancel' = r
    /\ RenderBounded(r)
    /\ UNCHANGED <<running, done, sig, tick, stats>>

(* A Run's parent context ends, or Stop cancels the published one.         *)
ParentCancelled(r) ==
    /\ at[r] # "idle"
    /\ done' = done \cup {r}
    /\ UNCHANGED <<running, cancel, at, sig, tick, expired, job, local, stats>>

Stop ==
    /\ cancel # None
    /\ done' = done \cup {cancel}
    /\ UNCHANGED <<running, cancel, at, sig, tick, expired, job, local, stats>>

-----------------------------------------------------------------------------
(* A command ends with an answer or an error, or it wedges; the end of the *)
(* refresh's context ends every command.                                   *)
CtxDone(r) == expired \/ r \in done
Answers(r) == IF CtxDone(r) THEN {"failed"} ELSE {"ok", "failed"}

(* The list command, and docker's when podman's failed.                    *)
CollectLocal(r) ==
    /\ at[r] = "local"
    /\ local' \in Answers(r)
    /\ job' = [h \in Hosts |-> "busy"]
    /\ Goes(r, "remote")
    /\ UNCHANGED <<running, cancel, done, sig, tick, expired, stats>>

CollectFromHost(r, h) ==
    /\ at[r] = "remote" /\ job[h] = "busy"
    /\ \E answer \in Answers(r) : job' = [job EXCEPT ![h] = answer]
    /\ UNCHANGED <<running, cancel, at, done, sig, tick, expired, local, stats>>

(* collectRemote's wait, and the rest of Collect.                          *)
Failed == {h \in Hosts : job[h] = "failed"} \cup (IF local = "failed" THEN {"local"} ELSE {})
Collect(r) ==
    /\ at[r] = "remote" /\ \A h \in Hosts : job[h] # "busy"
    /\ stats' = [listed |-> Sources \ Failed, errors |-> Cardinality(Failed)]
    /\ Goes(r, "select")
    /\ UNCHANGED <<running, cancel, done, sig, tick, expired, job, local>>

-----------------------------------------------------------------------------
(* The loop's select: any case that is ready.                              *)
Refresh(r) ==
    /\ at[r] = "select" /\ tick
    /\ tick' = FALSE
    /\ RenderBounded(r)
    /\ UNCHANGED <<running, cancel, done, sig, stats>>

Return(r) ==
    /\ at[r] = "select" /\ r \in done \cup sig
    /\ Goes(r, "idle")
    /\ running' = FALSE
    /\ sig' = sig \ {r}
    /\ tick' = FALSE
    /\ done' = done \cup {r}
    /\ UNCHANGED <<cancel, expired, job, local, stats>>

-----------------------------------------------------------------------------
Busy(r) == at[r] \in {"local", "remote"}
Asked(r) == Busy(r) \/ at[r] = "select"

Signal(r) ==
    /\ Asked(r)
    /\ sig' = sig \cup {r}
    /\ UNCHANGED <<running, cancel, at, done, tick, expired, job, local, stats>>

Tick ==
    /\ \E r \in Runs : Asked(r)
    /\ tick' = TRUE
    /\ UNCHANGED <<running, cancel, at, done, sig, expired, job, local, stats>>

TimeoutNever ==
    /\ FALSE
    /\ UNCHANGED vars
Timeout ==
    /\ \E r \in Runs : Busy(r)
    /\ expired' = TRUE
    /\ UNCHANGED <<running, cancel, at, done, sig, tick, job, local, stats>>

Command(r) == CollectLocal(r) \/ \E h \in Hosts : CollectFromHost(r, h)
Step(r) == Publish(r) \/ Collect(r) \/ Refresh(r) \/ Return(r) \/ (CtxDone(r) /\ Command(r))

Next ==
    \/ \E r \in Runs : Run(r) \/ ParentCancelled(r) \/ Signal(r) \/ Command(r) \/ Step(r)
    \/ Stop \/ Tick \/ Timeout

(* Goroutines are scheduled and timers fire; a select whose cases stay     *)
(* ready takes each of them some time.  A command has to end only once its *)
(* context has.                                                            *)
Fairness ==
    /\ WF_vars(Timeout)
    /\ WF_vars(\E r \in Runs : Step(r))
    /\ SF_vars(\E r \in Runs : Return(r))

Spec == Init /\ [][Next]_vars /\ Fairness

-----------------------------------------------------------------------------
(* One loop draws at a time: the claim a Run makes holds from before its   *)
(* cancel is published until it has returned (display.go:80-94).           *)
OneLoop == \A r, s \in Runs : at[r] # "idle" /\ at[s] # "idle" => r = s

(* What is on the screen accounts for every source: a source that is not   *)
(* listed is an error in the footer, so a total wipeout never looks like   *)
(* a quiet machine (collector.go:91-95).                                   *)
NothingSilent ==
    \A r \in Runs : at[r] = "select" =>
        stats.errors + Cardinality(stats.listed) = Cardinality(Sources)

(* A loop that a quit signal, a Stop that found its cancel, or the         *)
(* parent's end has to end (display.go:138-148).                           *)
Quitting(r) == at[r] # "idle" /\ r \in done \cup sig
==============================================================================
