----------------------------- MODULE MCServices -----------------------------
(***************************************************************************)
(* The components that bring services up, watch them and read their logs:  *)
(* the lifecycle manager's Starts through their dependencies (a diamond    *)
(* a -> b, c -> d, a service on an unknown name, and a cycle y <-> z), the *)
(* lazy orchestrator, the egress tunnel, the monitor, the health checker,  *)
(* compose, the log reader and ctop.  They share no state: subject says    *)
(* which one a behaviour is about, the others rest.                        *)
(***************************************************************************)
EXTENDS LifecycleDeps, Integers

CONSTANTS LazyCallers, Lazies, MaxStopped, MaxBroken, Nil,
          Owners,
          Collectors, MaxTicks, MaxCollects, Boxes, Limit,
          Targets, Retries, Delays, Factors, MaxDelay, Unset,
          ComposeServices, Scopes, Unlabelled, MaxMoves, NoCommand,
          Users, MaxOut, MaxErr, PipeSize, stderrCaptureLimit,
          Runs, Hosts, None

VARIABLES subject,
          path, answer, expired, overlap, booter, attempt, startedSvc, stacks, leftover, stopping,
          stopStage, stopsDone, broken,
          foreign, child, waitDone, tunnelUp, dialled, givenUp, isDown, taker, echo,
          ticks, prev, usage, collects, loop, ended, stopCh, stopped, latest, taken, alarms,
          serving, checkers, healthResults, checking, allDone, policy, mode, tries, delay, last,
          ctxDone, stage,
          host, composeCmd, isPodman, unsure, actual, moves, scope, up, late, upCancelled, hung,
          statuses,
          command, todo, pipe, stdout, drain, stderr, once, waitErr, at, got, waits, wrote,
          running, cancel, loopAt, done, sig, tick, timedOut, job, local, stats

(* a depends on b and falls back on c; b falls back on a. *)
LazyWanted == <<"a", "b">>
LazyDependencies == [a |-> <<"b">>, b |-> <<>>, c |-> <<>>]
LazyAlternatives == [a |-> <<"c">>, b |-> <<"a">>, c |-> <<>>]
TargetTypes == <<"http", "custom">>
PolicyRetries == {-1, 0, 2}
DepsNames == {"a", "b", "c", "d", "u", "y", "z", "ghost"}
DepsServices == DepsNames \ {"ghost"}
DepsDependencies ==
    [s \in DepsServices |->
       CASE s = "a" -> <<"b", "c">> [] s \in {"b", "c"} -> <<"d">>
         [] s = "u" -> <<"d", "ghost">>
         [] s = "y" -> <<"z">> [] s = "z" -> <<"y">>
         [] OTHER -> <<>>]

Lazy == INSTANCE LazyService WITH Wanted <- LazyWanted, Dependencies <- LazyDependencies,
                                  Alternatives <- LazyAlternatives
Tunnel == INSTANCE Egress
Watch == INSTANCE Monitor
Checker == INSTANCE Health WITH TypeOf <- TargetTypes, results <- healthResults, attempt <- tries
Project == INSTANCE Compose WITH cancelled <- upCancelled
Logs == INSTANCE LogStream WITH child <- command
Screen == INSTANCE Ctop WITH at <- loopAt, expired <- timedOut

lazyVars == <<path, answer, expired, overlap, booter, attempt, startedSvc, stacks, leftover, stopping,
              stopStage, stopsDone, broken>>
egressVars == <<foreign, child, waitDone, tunnelUp, dialled, givenUp, isDown, taker, echo>>
monitorVars == <<ticks, prev, usage, collects, loop, ended, stopCh, stopped, latest, taken, alarms>>
healthVars == <<serving, checkers, healthResults, checking, allDone, policy, mode, tries, delay, last,
                ctxDone, stage>>
composeVars == <<host, composeCmd, isPodman, unsure, actual, moves, scope, up, late, upCancelled, hung,
                 statuses>>
logVars == <<command, todo, pipe, stdout, drain, stderr, once, waitErr, at, got, waits, wrote>>
screenVars == <<running, cancel, loopAt, done, sig, tick, timedOut, job, local, stats>>
mcVars == <<subject, vars, lazyVars, egressVars, monitorVars, healthVars, composeVars, logVars,
            screenVars>>

At(s, rest) == subject # s => rest

MCInit ==
    /\ subject \in {"deps", "lazy", "egress", "monitor", "health", "compose", "logs", "screen"}
    /\ Init
    /\ Lazy!Init
    /\ Tunnel!Init /\ At("egress", ~foreign)
    /\ Watch!Init
    /\ Checker!Init
    /\ At("health", mode = "all" /\ \A i \in Targets : serving[i] = "2xx")
    /\ Project!Init
    /\ At("compose", scope = {} /\ \A h \in DOMAIN host : host[h] = "silent")
    /\ Logs!Init
    /\ Screen!Init

OfDeps(A) ==
    /\ subject = "deps" /\ A
    /\ UNCHANGED <<subject, lazyVars, egressVars, monitorVars, healthVars, composeVars, logVars, screenVars>>
OfLazy(A) ==
    /\ subject = "lazy" /\ A
    /\ UNCHANGED <<subject, vars, egressVars, monitorVars, healthVars, composeVars, logVars, screenVars>>
OfEgress(A) ==
    /\ subject = "egress" /\ A
    /\ UNCHANGED <<subject, vars, lazyVars, monitorVars, healthVars, composeVars, logVars, screenVars>>
OfMonitor(A) ==
    /\ subject = "monitor" /\ A
    /\ UNCHANGED <<subject, vars, lazyVars, egressVars, healthVars, composeVars, logVars, screenVars>>
OfHealth(A) ==
    /\ subject = "health" /\ A
    /\ UNCHANGED <<subject, vars, lazyVars, egressVars, monitorVars, composeVars, logVars, screenVars>>
OfCompose(A) ==
    /\ subject = "compose" /\ A
    /\ UNCHANGED <<subject, vars, lazyVars, egressVars, monitorVars, healthVars, logVars, screenVars>>
OfLogs(A) ==
    /\ subject = "logs" /\ A
    /\ UNCHANGED <<subject, vars, lazyVars, egressVars, monitorVars, healthVars, composeVars, screenVars>>
OfScreen(A) ==
    /\ subject = "screen" /\ A
    /\ UNCHANGED <<subject, vars, lazyVars, egressVars, monitorVars, healthVars, composeVars, logVars>>

MCNext ==
    \/ OfDeps(Next)
    \/ OfLazy(Lazy!Next)
    \/ OfEgress(Tunnel!Next)
    \/ OfMonitor(Watch!Next)
    \/ OfHealth(Checker!Next)
    \/ OfCompose(Project!Next)
    \/ OfLogs(Logs!Next)
    \/ OfScreen(Screen!Next)

(* No more than the fairness of each component's own specification.        *)
MCFairness ==
    /\ WF_mcVars(OfLazy(\E c \in LazyCallers : Lazy!Work(c)))
    /\ WF_mcVars(OfEgress(Tunnel!Watch)) /\ WF_mcVars(OfEgress(Tunnel!GiveUp))
    /\ WF_mcVars(OfEgress(\E p \in Owners \cup {"TunnelUp"} : Tunnel!Work(p)))
    /\ WF_mcVars(OfMonitor(Watch!CollectSystem \/ Watch!Store \/ Watch!Evaluate))
    /\ SF_mcVars(OfMonitor(Watch!Leave))
    /\ WF_mcVars(OfHealth(Checker!Loop))
    /\ WF_mcVars(OfCompose(Project!DeadlinePasses)) /\ WF_mcVars(OfCompose(Project!Wait))
    /\ \A c \in Callers : WF_mcVars(OfDeps(Step(c)))
    /\ WF_mcVars(OfLogs(Logs!ChildStep)) /\ WF_mcVars(OfLogs(Logs!Drain))
    /\ \A u \in Users : WF_mcVars(OfLogs(Logs!Step(u)))
    /\ WF_mcVars(OfScreen(Screen!Timeout)) /\ WF_mcVars(OfScreen(\E r \in Runs : Screen!Step(r)))
    /\ SF_mcVars(OfScreen(\E r \in Runs : Screen!Return(r)))

MCSpec == MCInit /\ [][MCNext]_mcVars /\ MCFairness


(* A StartService of the lazy orchestrator that answers nil has left the   *)
(* service, or one of its alternatives, up: see LazyService.               *)
SuccessIsReal == Lazy!SuccessIsReal



(***************************************************************************)
(* A child process or loop has one owner that ends it: no ssh outlives its *)
(* tunnel and one caller takes it down, the log command is waited for      *)
(* once, and one ctop loop draws at a time.                                *)
(***************************************************************************)
ChildrenReapedOnce ==
    CASE subject = "egress" -> Tunnel!NoChildLeft /\ Tunnel!OneTaker
      [] subject = "logs" -> Logs!ReapedOnce
      [] subject = "screen" -> Screen!OneLoop
      [] OTHER -> TRUE

(* The calls and loops that must end.  Callers, readers of a log and runs  *)
(* of ctop are interchangeable: one of them, which may be any, speaks for  *)
(* all.                                                                    *)
One == CHOOSE c \in Callers : TRUE
Owed ==
    CASE subject = "deps" -> MustReturn(One)
      [] subject = "lazy" -> ~Lazy!Answered
      [] subject = "egress" -> ~Tunnel!Answered
      [] subject = "monitor" -> Watch!Ending
      [] subject = "health" -> stage # "returned"
      [] subject = "compose" -> up \in {"poll", "run"}
      [] subject = "logs" -> at[One] # "idle"
      [] subject = "screen" -> Screen!Quitting(One)
Settled ==
    CASE subject = "deps" -> Returned(One)
      [] subject = "lazy" -> Lazy!Answered
      [] subject = "egress" -> Tunnel!Answered
      [] subject = "monitor" -> loop = "returned"
      [] subject = "health" -> stage = "returned"
      [] subject = "compose" -> up \in {"nil", "error", "down"}
      [] subject = "logs" -> at[One] = "idle"
      [] subject = "screen" -> loopAt[One] = "idle"

(***************************************************************************)
(* Every call returns: Starts through an acyclic dependency graph, lazy    *)
(* starts through any graph, TunnelUp and Down, a stopped monitor's loop,  *)
(* the retry loop for every count of retries, an Up although a single ps   *)
(* hangs, the log reader's Read and Close although the child floods its    *)
(* stderr, and ctop after a quit, whatever command is wedged.              *)
(***************************************************************************)
CallsReturn == Owed ~> Settled
=============================================================================
