-------------------------------- MODULE Compose --------------------------------
(***************************************************************************)
(* pkg/compose: NewDefaultOrchestrator's choice of a compose command, Up   *)
(* with its two ways of waiting, Status with its two parsers, and Down.    *)
(*                                                                         *)
(* The commands of the host answer in time or are silent (absent, wedged); *)
(* docker's names may be a shim over podman.  Containers change state      *)
(* while Up polls, a ps may hang, and the deadline or the caller's         *)
(* cancellation may come at any step.                                      *)
(***************************************************************************)
EXTENDS Naturals, Sequences, SequencesExt, FiniteSets

CONSTANTS
    ComposeServices,  \* the services of the project's file
    Scopes,           \* project.Services: the subsets an Up may be scoped to, {} for all
    Unlabelled,       \* services whose containers carry no compose label
    MaxMoves,         \* bound: changes of a container's state
    NoCommand         \* nothing chosen

VARIABLES
    host,       \* by candidate: what answers to it
    composeCmd, \* o.composeCmd and its args
    isPodman,   \* o.isPodmanCompose
    unsure,     \* the classification probe failed
    actual,     \* by service: its container
    moves,
    scope,      \* project.Services of the call
    up,         \* where Up is
    late,       \* the wait's deadline has passed
    cancelled,  \* the caller's ctx is cancelled
    hung,       \* the ps under way hangs
    statuses    \* what the last Status returned

composeVars == <<host, composeCmd, isPodman, unsure, actual, moves, scope, up, late, cancelled, hung,
                 statuses>>

Candidates == <<"docker compose", "docker-compose", "podman-compose", "podman compose">>
Containers == {"none", "created", "starting", "healthy", "unhealthy", "exited"}
Ready == {"healthy"}
Backend == host[composeCmd]

(* podman's own commands are backed by podman, or, for the compose         *)
(* provider, by a docker-compatible one.  Candidates after the first that  *)
(* answers are never asked.                                                *)
Machines ==
    {h \in [ToSet(Candidates) -> {"silent", "docker", "podman"}] :
       /\ h["podman-compose"] # "docker" /\ h["podman compose"] # "podman"
       /\ \A c, d \in ToSet(Candidates) : h[c] # "silent" /\ h[d] # "silent" => c = d}
Unreported == [s \in ComposeServices |-> "unreported"]

Init ==
    /\ host \in Machines
    /\ composeCmd = NoCommand /\ isPodman = FALSE /\ unsure = FALSE
    /\ actual = [s \in ComposeServices |-> "none"] /\ moves = 0
    /\ scope \in Scopes
    /\ up = "new" /\ late = FALSE /\ cancelled = FALSE /\ hung = FALSE
    /\ statuses = Unreported

-----------------------------------------------------------------------------

(* detectComposeCmd: the first candidate whose version probe ends in time. *)
Works(c) == host[c] \in {"docker", "podman"}
Detected ==
    LET working == {i \in DOMAIN Candidates : Works(Candidates[i])}
    IN Candidates[CHOOSE i \in working : \A k \in working : i <= k]

(* isPodmanComposeCmd || isPodmanBackedCmd: by name, else by the banner of *)
(* a second version probe, which may fail.                                 *)
Classify(c, probed) ==
    \/ c = "podman-compose"
    \/ c # "podman compose" /\ probed /\ host[c] = "podman"

NewDefaultOrchestrator ==
    /\ up = "new"
    /\ IF \E c \in ToSet(Candidates) : Works(c)
       THEN \E probed \in BOOLEAN :
              /\ composeCmd' = Detected
              /\ isPodman' = Classify(Detected, probed)
              /\ unsure' = ~probed
              /\ up' = "idle"
       ELSE up' = "error" /\ UNCHANGED <<composeCmd, isPodman, unsure>>
    /\ UNCHANGED <<host, actual, moves, scope, late, cancelled, hung, statuses>>

(* Up: `--wait` goes to a docker command only; podman-compose rejects it.  *)
(* The command starts the containers of the scope, and may fail.           *)
Up ==
    /\ up = "idle"
    /\ IF ~isPodman /\ Backend = "podman"
       THEN up' = "rejected" /\ UNCHANGED <<actual, statuses>>
       ELSE \/ up' = "error" /\ UNCHANGED <<actual, statuses>>
            \/ /\ actual' = [s \in ComposeServices |->
                               IF scope = {} \/ s \in scope THEN "created" ELSE actual[s]]
               /\ up' = IF isPodman THEN "poll" ELSE "run"
               /\ UNCHANGED statuses
    /\ UNCHANGED <<host, composeCmd, isPodman, unsure, moves, scope, late, cancelled, hung>>

InScope(s) == scope = {} \/ s \in scope

(* docker's native --wait: it ends when the services of the scope are      *)
(* ready, or with an error.                                                *)
NativeWait ==
    /\ up = "run"
    /\ \/ /\ \A s \in ComposeServices : InScope(s) => actual[s] \in Ready
          /\ up' = "nil" /\ statuses' = actual
       \/ up' = "error" /\ UNCHANGED statuses
    /\ UNCHANGED <<host, composeCmd, isPodman, unsure, actual, moves, scope, late, cancelled, hung>>

(* The containers live their own life.                                     *)
Change(s) ==
    /\ moves < MaxMoves /\ actual[s] # "none"
    /\ \E to \in Containers \ {"none", "created"} : to # actual[s] /\ actual' = [actual EXCEPT ![s] = to]
    /\ moves' = moves + 1
    /\ UNCHANGED <<host, composeCmd, isPodman, unsure, scope, up, late, cancelled, hung, statuses>>

Cancel ==
    /\ up \in {"poll", "judge", "select"} /\ ~cancelled
    /\ cancelled' = TRUE
    /\ UNCHANGED <<host, composeCmd, isPodman, unsure, actual, moves, scope, up, late, hung, statuses>>

(* timeout has passed since waitForServices began.                         *)
DeadlinePasses ==
    /\ up \in {"poll", "judge", "select"} /\ ~late
    /\ late' = TRUE
    /\ UNCHANGED <<host, composeCmd, isPodman, unsure, actual, moves, scope, up, cancelled, hung, statuses>>

(* A service is known by its label; without one, by its container's name,  *)
(* which the scope does not hold.                                          *)
Reported ==
    [s \in ComposeServices |->
       IF actual[s] = "none" \/ (s \in Unlabelled /\ scope # {}) THEN "unreported" ELSE actual[s]]

PsHangs ==
    /\ up = "poll" /\ ~hung
    /\ hung' = TRUE
    /\ UNCHANGED <<host, composeCmd, isPodman, unsure, actual, moves, scope, up, late, cancelled, statuses>>

(* Status under the deadline's own context: a ps that hangs is killed.     *)
Status ==
    /\ up = "poll" /\ (hung => cancelled \/ late)
    /\ \/ ~hung /\ statuses' = Reported
       \/ statuses' = Unreported
    /\ hung' = FALSE
    /\ up' = "judge"
    /\ UNCHANGED <<host, composeCmd, isPodman, unsure, actual, moves, scope, late, cancelled>>

Relevant == {s \in ComposeServices : InScope(s) /\ statuses[s] # "unreported"}

(* servicesReady over filterStatusesByServices: not empty, every one       *)
(* running, none starting or unhealthy.                                    *)
ServicesReady == Relevant # {} /\ \A s \in Relevant : statuses[s] \in Ready

(* Ready, or past the deadline, or on to the select.                       *)
Judge ==
    /\ up = "judge"
    /\ up' = IF ServicesReady THEN "nil" ELSE IF late THEN "error" ELSE "select"
    /\ UNCHANGED <<host, composeCmd, isPodman, unsure, actual, moves, scope, late, cancelled, hung, statuses>>

(* ctx.Done, which the deadline closes too, or the ticker.                 *)
Select ==
    /\ up = "select"
    /\ \/ (cancelled \/ late) /\ up' = "error"
       \/ up' = "poll"
    /\ statuses' = Unreported
    /\ UNCHANGED <<host, composeCmd, isPodman, unsure, actual, moves, scope, late, cancelled, hung>>

(* Down, after Up returned; it may fail and leave the containers.          *)
Down ==
    /\ up \in {"nil", "error"} /\ composeCmd # NoCommand
    /\ \/ actual' = [s \in ComposeServices |-> "none"]
       \/ UNCHANGED actual
    /\ up' = "down"
    /\ UNCHANGED <<host, composeCmd, isPodman, unsure, moves, scope, late, cancelled, hung, statuses>>

Next ==
    \/ NewDefaultOrchestrator \/ Up \/ NativeWait \/ Cancel \/ DeadlinePasses \/ PsHangs \/ Status
    \/ Judge \/ Select \/ Down
    \/ \E s \in ComposeServices : Change(s)

(* Up's goroutine goes on.                                                 *)
Wait == NativeWait \/ Status \/ Judge \/ Select

(* The deadline comes, the poll's goroutine runs, and docker's --wait is   *)
(* bounded by --wait-timeout.                                              *)
Fairness == WF_composeVars(DeadlinePasses) /\ WF_composeVars(Wait)
Spec == Init /\ [][Next]_composeVars /\ Fairness

-----------------------------------------------------------------------------
(* An Up that waited and returned nil saw some service of its scope, and   *)
(* every one it saw was running and past its health check, on either       *)
(* runtime.  (A service ps does not list is not waited for.)               *)
WaitSawReady ==
    up = "nil" =>
      /\ \E s \in ComposeServices : InScope(s) /\ statuses[s] # "unreported"
      /\ \A s \in ComposeServices : InScope(s) /\ statuses[s] # "unreported" => statuses[s] \in Ready

(* A command backed by podman is driven the podman way, whatever its name, *)
(* unless the probe that tells it apart failed: `--wait` is never handed   *)
(* to podman-compose.                                                      *)
NoWaitFlagForPodman == up = "rejected" => unsure
===============================================================================
