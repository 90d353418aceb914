------------------------------ MODULE LazyService ------------------------------
(***************************************************************************)
(* pkg/lazyservice: LazyOrchestrator.  StartService resolves dependencies  *)
(* and alternatives recursively and boots each service through a one-shot  *)
(* booter; StopService takes it down without the lock and then puts a new  *)
(* booter in the table.                                                    *)
(*                                                                         *)
(* Callers start concurrently; stops run one after the other.  A boot      *)
(* works under whichever caller's context was stowed last, so any boot may *)
(* fail for a reason of somebody else's.                                   *)
(***************************************************************************)
EXTENDS Naturals, Sequences, SequencesExt

CONSTANTS
    LazyCallers,  \* goroutines that call StartService once
    Wanted,       \* the service each of them starts
    Lazies,       \* registered services
    Dependencies, \* svc.Dependencies, in order
    Alternatives, \* svc.AlternativeServices, in order
    MaxStopped,   \* bound: StopService and StopAll calls
    MaxBroken,    \* bound: compose commands and health checks that fail
    Nil           \* no answer yet

VARIABLES
    path,       \* a caller's stack of startServiceWithPath frames
    answer,     \* the value the frame above just returned
    expired,    \* callers whose context is cancelled
    overlap,    \* services a stop of which overlapped the caller's call
    booter,     \* lo.booters: the number of the booter in the table
    attempt,    \* by service and booter: where its one run is, and whose
    startedSvc, \* lo.started
    stacks,     \* services whose compose project is up
    leftover,   \* services a failed command may have left half up
    stopping,   \* services the stop under way has still to take down
    stopStage,  \* where it is with the one it took
    stopsDone, broken

lazyVars == <<path, answer, expired, overlap, booter, attempt, startedSvc, stacks, leftover, stopping,
              stopStage, stopsDone, broken>>

Stages == {"new", "up", "health", "down", "ok", "err"}
Gens == 0..MaxStopped

Init ==
    /\ path = [c \in LazyCallers |-> <<>>]
    /\ answer = [c \in LazyCallers |-> "idle"]
    /\ expired = {}
    /\ overlap = [c \in LazyCallers |-> {}]
    /\ booter = [n \in Lazies |-> 0]
    /\ attempt = [n \in Lazies |-> [g \in Gens |-> [at |-> "new", by |-> Nil]]]
    /\ startedSvc = {} /\ stacks = {} /\ leftover = {}
    /\ stopping = {} /\ stopStage = "idle" /\ stopsDone = 0 /\ broken = 0

stopVars == <<stopping, stopStage, stopsDone>>
stackVars == <<startedSvc, stacks, leftover, broken>>
Break == broken < MaxBroken /\ broken' = broken + 1
Top(c) == Last(path[c])
Attempt(f) == attempt[f.svc][f.gen]

-----------------------------------------------------------------------------

(* The head of startServiceWithPath: the booter is read, a dead context or *)
(* a service already on the path is an error.                              *)
Enter(c, n, below) ==
    IF c \in expired \/ \E f \in ToSet(below) : f.svc = n
    THEN path' = [path EXCEPT ![c] = below] /\ answer' = [answer EXCEPT ![c] = "error"]
    ELSE /\ path' = [path EXCEPT ![c] =
                       Append(below, [svc |-> n, gen |-> booter[n], stage |-> "deps", next |-> 1])]
         /\ answer' = [answer EXCEPT ![c] = Nil]

StartService(c) ==
    /\ answer[c] = "idle"
    /\ Enter(c, Wanted[c], <<>>)
    /\ overlap' = [overlap EXCEPT ![c] = stopping]
    /\ UNCHANGED <<expired, booter, attempt, stackVars, stopVars>>

(* The caller gives up: its context is cancelled.                          *)
Expire(c) ==
    /\ path[c] # <<>> /\ c \notin expired
    /\ expired' = expired \cup {c}
    /\ UNCHANGED <<path, answer, overlap, booter, attempt, stackVars, stopVars>>

Return(c, value) ==
    /\ path' = [path EXCEPT ![c] = Front(path[c])]
    /\ answer' = [answer EXCEPT ![c] = value]

Move(c, stage, next) ==
    /\ path' = [path EXCEPT ![c][Len(path[c])].stage = stage, ![c][Len(path[c])].next = next]
    /\ answer' = [answer EXCEPT ![c] = Nil]

(* The loop over svc.Dependencies: the next one, or the boot.              *)
Depend(c) ==
    /\ path[c] # <<>> /\ Top(c).stage = "deps"
    /\ LET f == Top(c)
       IN CASE answer[c] = "error" -> Return(c, "error")
            [] answer[c] = "nil" -> Move(c, "deps", f.next + 1)
            [] answer[c] = Nil /\ f.next <= Len(Dependencies[f.svc]) ->
                 Enter(c, Dependencies[f.svc][f.next], path[c])
            [] OTHER -> Move(c, "boot", 1)
    /\ UNCHANGED <<expired, overlap, booter, attempt, stackVars, stopVars>>

(* The loop over svc.AlternativeServices after a failed boot.              *)
Alternate(c) ==
    /\ path[c] # <<>> /\ Top(c).stage = "alts"
    /\ LET f == Top(c)
       IN CASE answer[c] = "nil" -> Return(c, "nil")
            [] answer[c] = "error" -> Move(c, "alts", f.next + 1)
            [] answer[c] = Nil /\ f.next <= Len(Alternatives[f.svc]) ->
                 Enter(c, Alternatives[f.svc][f.next], path[c])
            [] OTHER -> Return(c, "error")
    /\ UNCHANGED <<expired, overlap, booter, attempt, stackVars, stopVars>>

Set(f, stage, by) == attempt' = [attempt EXCEPT ![f.svc][f.gen] = [at |-> stage, by |-> by]]

(* booter.EnsureStarted: the first caller runs startServiceInternal, the   *)
(* others wait for it and share its result.                                *)
EnsureStarted(c) ==
    /\ path[c] # <<>> /\ Top(c).stage = "boot"
    /\ LET f == Top(c)
       IN CASE Attempt(f).at = "new" -> Set(f, "up", c) /\ UNCHANGED <<path, answer>>
            [] Attempt(f).at = "ok" -> Return(c, "nil") /\ UNCHANGED attempt
            [] Attempt(f).at = "err" -> Move(c, "alts", 1) /\ UNCHANGED attempt
            [] OTHER -> FALSE
    /\ UNCHANGED <<expired, overlap, booter, stackVars, stopVars>>

Running(c, stage) ==
    /\ path[c] # <<>> /\ Top(c).stage = "boot"
    /\ Attempt(Top(c)) = [at |-> stage, by |-> c]

(* startServiceInternal: compose Up; a failure may leave part of it.       *)
Up(c) ==
    /\ Running(c, "up")
    /\ LET n == Top(c).svc
       IN \/ /\ stacks' = stacks \cup {n} /\ Set(Top(c), "health", c)
             /\ UNCHANGED <<startedSvc, leftover, broken>>
          \/ /\ Break /\ Set(Top(c), "err", Nil)
             /\ \E partly \in BOOLEAN :
                  /\ stacks' = IF partly THEN stacks \cup {n} ELSE stacks
                  /\ leftover' = IF partly THEN leftover \cup {n} ELSE leftover
             /\ UNCHANGED startedSvc
    /\ UNCHANGED <<path, answer, expired, overlap, booter, stopVars>>

(* waitForHealth: started on success, torn down on a failure.              *)
WaitForHealth(c) ==
    /\ Running(c, "health")
    /\ \/ /\ startedSvc' = startedSvc \cup {Top(c).svc} /\ Set(Top(c), "ok", Nil)
          /\ UNCHANGED broken
       \/ Break /\ Set(Top(c), "down", c) /\ UNCHANGED startedSvc
    /\ UNCHANGED <<path, answer, expired, overlap, booter, stacks, leftover, stopVars>>

(* The orphaned stack is taken down, on a context of its own.              *)
TearDown(c) ==
    /\ Running(c, "down")
    /\ Set(Top(c), "err", Nil)
    /\ \/ stacks' = stacks \ {Top(c).svc} /\ UNCHANGED <<leftover, broken>>
       \/ Break /\ leftover' = leftover \cup {Top(c).svc} /\ UNCHANGED stacks
    /\ UNCHANGED <<path, answer, expired, overlap, booter, startedSvc, stopVars>>

-----------------------------------------------------------------------------
(* StopService(n), or StopAll: what is started now, one after the other.   *)
BeginStop ==
    /\ stopStage = "idle" /\ stopping = {} /\ stopsDone < MaxStopped
    /\ stopsDone' = stopsDone + 1
    /\ \E S \in {startedSvc} \cup {{n} : n \in startedSvc} : S # {} /\ stopping' = S
    /\ overlap' = [c \in LazyCallers |-> IF path[c] = <<>> THEN overlap[c] ELSE overlap[c] \cup stopping']
    /\ stopStage' = "down"
    /\ UNCHANGED <<path, answer, expired, booter, attempt, stackVars>>

(* Down, with lo.mu released.  StopService looks again at lo.started.      *)
StopDown ==
    /\ stopStage = "down"
    /\ LET n == CHOOSE n \in stopping : TRUE
       IN IF n \notin startedSvc
          THEN stopping' = stopping \ {n} /\ UNCHANGED <<stopStage, stackVars>>
          ELSE \/ /\ stacks' = stacks \ {n} /\ leftover' = leftover \ {n} /\ stopStage' = "reset"
                  /\ UNCHANGED <<stopping, startedSvc, broken>>
               \/ /\ Break /\ leftover' = leftover \cup {n} /\ stopping' = stopping \ {n}
                  /\ UNCHANGED <<stopStage, startedSvc, stacks>>
    /\ UNCHANGED <<path, answer, expired, overlap, booter, attempt, stopsDone>>

(* A stop that keeps the spent booter.                                     *)
StopResetKeepsBooter ==
    /\ stopStage = "reset"
    /\ LET n == CHOOSE n \in stopping : TRUE
       IN /\ startedSvc' = startedSvc \ {n}
          /\ stopping' = stopping \ {n}
    /\ stopStage' = "down"
    /\ UNCHANGED <<path, answer, expired, overlap, booter, attempt, stacks, leftover, broken, stopsDone>>

(* With the lock again: not started, and a booter that has not run.        *)
StopReset ==
    /\ stopStage = "reset"
    /\ LET n == CHOOSE n \in stopping : TRUE
       IN /\ startedSvc' = startedSvc \ {n}
          /\ booter' = [booter EXCEPT ![n] = @ + 1]
          /\ stopping' = stopping \ {n}
    /\ stopStage' = "down"
    /\ UNCHANGED <<path, answer, expired, overlap, attempt, stacks, leftover, broken, stopsDone>>

StopEnds ==
    /\ stopStage = "down" /\ stopping = {}
    /\ stopStage' = "idle"
    /\ UNCHANGED <<path, answer, expired, overlap, booter, attempt, stackVars, stopping, stopsDone>>

Work(c) ==
    \/ Depend(c) \/ Alternate(c) \/ EnsureStarted(c) \/ Up(c) \/ WaitForHealth(c) \/ TearDown(c)
Stop == (stopping # {} /\ (StopDown \/ StopReset)) \/ StopEnds
Next ==
    \/ \E c \in LazyCallers : StartService(c) \/ Expire(c) \/ Work(c)
    \/ BeginStop \/ Stop

(* Goroutines run, and the compose commands are bounded by StartTimeout    *)
(* and StopTimeout.                                                        *)
Fairness == \A c \in LazyCallers : WF_lazyVars(Work(c))
Spec == Init /\ [][Next]_lazyVars /\ Fairness

-----------------------------------------------------------------------------
Quiet == stopStage = "idle" /\ \A c \in LazyCallers : path[c] = <<>>

(* With no call under way, what lo.started says is what runs: no stack is  *)
(* up that StopService would refuse to touch, and none is reported started *)
(* that is down, but for what a failed compose command left.               *)
StartedIsUp ==
    Quiet => stacks \ leftover \subseteq startedSvc /\ startedSvc \subseteq stacks \cup leftover

(* GetServiceStatus never pairs Started with the error, or the unspent     *)
(* booter, of another attempt (LZSVC-3).                                   *)
StatusConsistent == \A n \in startedSvc : attempt[n][booter[n]].at = "ok"

(* A StartService that answers nil, and that no stop of the service        *)
(* overlapped, left the service or one of its alternatives up: the cached  *)
(* result of a spent booter is never taken for a running service.          *)
SuccessMeansUp ==
    \A c \in LazyCallers :
      answer'[c] = "nil" /\ path[c] # <<>> /\ path'[c] = <<>> =>
        LET served == {Wanted[c]} \cup ToSet(Alternatives[Wanted[c]])
        IN \/ served \cap overlap[c] # {}
           \/ served \cap (stacks \cup leftover) # {}
SuccessIsReal == [][SuccessMeansUp]_lazyVars

(* StartService has answered everyone, as it must whatever the dependency  *)
(* and alternative graph looks like and whoever runs the boot they await.  *)
Answered == \A c \in LazyCallers : path[c] = <<>>
===============================================================================
