---------------------------- MODULE LifecycleDeps ----------------------------
(***************************************************************************)
(* Start's dependency recursion over all the services of a DefaultManager: *)
(* a leader starts its dependencies one by one, each a Start that may in   *)
(* turn lead, follow another caller's boot, or find the service running.   *)
(* A boot's own Up, health check and commit are one step here; Lifecycle   *)
(* has them apart.  No Stop runs: this module is about who waits on whom.  *)
(***************************************************************************)
EXTENDS Naturals, Sequences, SequencesExt, FiniteSets

CONSTANTS
    Names,         \* service names
    Services,      \* the names that are registered
    Dependencies,  \* spec.Dependencies of every service, a sequence of names
    Callers,       \* goroutines that call Start
    Failing,       \* services whose Up or health check may fail
    MaxCalls       \* bound: calls made; a call leads at most one boot of a service

ASSUME DepsAssumption ==
    /\ Dependencies \in [Services -> Seq(Names)]
    /\ Services \subseteq Names
    /\ Failing \subseteq Services
    /\ MaxCalls \in Nat \ {0}

VARIABLES
    state,   \* entry.state
    nboots,  \* the current startOp of every service
    opErr,   \* outcome of every startOp
    ncalls,  \* calls made so far
    calls    \* the nested Starts of every caller, the innermost last

vars == <<state, nboots, opErr, ncalls, calls>>

(* A Start in progress: where it is, its next dependency, the startOp it led or follows. *)
Frame == [svc : Names, pc : {"enter", "deps", "up", "fail", "follow"}, dep : Nat, op : Nat]
NewFrame(s) == [svc |-> s, pc |-> "enter", dep |-> 1, op |-> 0]

Top(c) == Last(calls[c])
TopIs(c, l) == calls[c] # <<>> /\ Top(c).pc = l
SetTop(c, f) == calls' = [calls EXCEPT ![c] = Append(Front(@), f)]

Init ==
    /\ state = [s \in Services |-> "stopped"]
    /\ nboots = [s \in Services |-> 0]
    /\ opErr = [s \in Services |-> [b \in 1..MaxCalls |-> "pending"]]
    /\ ncalls = 0
    /\ calls = [c \in Callers |-> <<>>]

(* The innermost Start returns r: its leader goes on, or fails with it. *)
Return(c, r) ==
    LET rest == Front(calls[c])
        outer == Last(rest)
    IN calls' = [calls EXCEPT ![c] =
                   IF rest = <<>> THEN <<>>
                   ELSE Append(Front(rest),
                               IF r = "ok" THEN [outer EXCEPT !.dep = @ + 1]
                                           ELSE [outer EXCEPT !.pc = "fail"])]

CallStart(c, s) ==
    /\ calls[c] = <<>>
    /\ calls' = [calls EXCEPT ![c] = <<NewFrame(s)>>]
    /\ ncalls < MaxCalls
    /\ ncalls' = ncalls + 1
    /\ UNCHANGED <<state, nboots, opErr>>

(* The state switch at the top of Start. *)
Enter(c) ==
    /\ TopIs(c, "enter")
    /\ LET s == Top(c).svc IN
         \/ /\ s \notin Services
            /\ Return(c, "err")
            /\ UNCHANGED <<state, nboots>>
         \/ /\ s \in Services
            /\ state[s] = "running"
            /\ Return(c, "ok")
            /\ UNCHANGED <<state, nboots>>
         \/ /\ s \in Services
            /\ state[s] = "starting"
            /\ SetTop(c, [Top(c) EXCEPT !.pc = "follow", !.op = nboots[s]])
            /\ UNCHANGED <<state, nboots>>
         \/ /\ s \in Services
            /\ state[s] = "stopped"
            /\ nboots' = [nboots EXCEPT ![s] = @ + 1]
            /\ state' = [state EXCEPT ![s] = "starting"]
            /\ SetTop(c, [Top(c) EXCEPT !.pc = "deps", !.op = nboots[s] + 1])
    /\ UNCHANGED <<opErr, ncalls>>

(* The loop over the dependencies: the next one is started, or all are up. *)
StartDependency(c) ==
    /\ TopIs(c, "deps")
    /\ LET deps == Dependencies[Top(c).svc] IN
         IF Top(c).dep <= Len(deps)
           THEN calls' = [calls EXCEPT ![c] = Append(@, NewFrame(deps[Top(c).dep]))]
           ELSE SetTop(c, [Top(c) EXCEPT !.pc = "up"])
    /\ UNCHANGED <<state, nboots, opErr, ncalls>>

(* Publish a boot's outcome to its followers and return it. *)
CloseOp(c, r) ==
    LET f == Top(c) IN
      /\ opErr' = [opErr EXCEPT ![f.svc][f.op] = r]
      /\ Return(c, r)

(* Up, health check and commit. *)
Boot(c) ==
    /\ TopIs(c, "up")
    /\ \/ /\ state' = [state EXCEPT ![Top(c).svc] = "running"]
          /\ CloseOp(c, "ok")
       \/ /\ Top(c).svc \in Failing
          /\ state' = [state EXCEPT ![Top(c).svc] = "stopped"]
          /\ CloseOp(c, "err")
    /\ UNCHANGED <<nboots, ncalls>>

(* A dependency failed: "stopped", and the error is the boot's. *)
FailDependency(c) ==
    /\ TopIs(c, "fail")
    /\ state' = [state EXCEPT ![Top(c).svc] = "stopped"]
    /\ CloseOp(c, "err")
    /\ UNCHANGED <<nboots, ncalls>>

Follow(c) ==
    /\ TopIs(c, "follow")
    /\ opErr[Top(c).svc][Top(c).op] # "pending"
    /\ Return(c, opErr[Top(c).svc][Top(c).op])
    /\ UNCHANGED <<state, nboots, opErr, ncalls>>

Step(c) == Enter(c) \/ StartDependency(c) \/ Boot(c) \/ FailDependency(c) \/ Follow(c)

Next == \E c \in Callers : Step(c) \/ \E s \in Services : CallStart(c, s)

Spec == Init /\ [][Next]_vars

(* Every goroutine that can run is run, and every Up and health check answers. *)
FairSpec == Spec /\ \A c \in Callers : WF_vars(Step(c))

-----------------------------------------------------------------------------
(* types.go:50-51: a service's Up runs only once all its Dependencies are running. *)
DependenciesFirst ==
    \A c \in Callers : TopIs(c, "up") =>
      \A d \in Range(Dependencies[Top(c).svc]) : d \in Services /\ state[d] = "running"

(* The names all of whose chains of dependencies end. *)
Acyclic ==
    LET upTo[n \in Nat] ==
          IF n = 0 THEN Names \ Services
          ELSE LET below == upTo[n - 1]
               IN below \cup {s \in Services : Range(Dependencies[s]) \subseteq below}
    IN upTo[Cardinality(Names)]

Returned(c) == calls[c] = <<>>

(* A Start that must return: its service does not depend on a cycle.  It does so   *)
(* also when other callers are stuck on one: a cycle makes its caller follow its   *)
(* own boot, and no one else waits on that.                                        *)
MustReturn(c) == ~Returned(c) /\ calls[c][1].svc \in Acyclic
=============================================================================
