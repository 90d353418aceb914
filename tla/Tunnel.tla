-------------------------------- MODULE Tunnel --------------------------------
(***************************************************************************)
(* pkg/network's DefaultTunnelManager with its PortAllocator: calls of     *)
(* CreateTunnel, the ssh processes they start, the reaper goroutine of     *)
(* every tunnel, and callers that close one tunnel, those of a host or     *)
(* all.  A hold of m.mu or of the allocator's mutex is one step.           *)
(*                                                                         *)
(* A call of CreateTunnel, its tunnelEntry and its ssh process have one    *)
(* identity, a member of Calls.                                            *)
(***************************************************************************)
EXTENDS Integers, FiniteSets

CONSTANTS
    Calls,      \* calls of CreateTunnel; bound: each is made at most once
    Closers,    \* callers of CloseTunnel, CloseAllForHost and CloseAll
    Hosts,      \* registered hosts
    PortStart,  \* the allocator's range is PortStart .. PortEnd - 1
    PortEnd,
    Explicit,   \* ports a spec may name itself, in or out of the range
    Busy,       \* ports some other program listens on
    Directions  \* the TunnelSpec.Direction values in use

PortRange == PortStart..(PortEnd - 1)
Ports == PortRange \cup Explicit
None == 0 - 1

ASSUME TunnelAssumption ==
    /\ IsFiniteSet(Calls)
    /\ None \notin Calls
    /\ PortStart \in Nat
    /\ PortEnd \in Nat
    /\ PortStart < PortEnd
    /\ Explicit \subseteq Nat
    /\ Busy \subseteq Ports
    /\ Directions \subseteq {"local", "remote"}

VARIABLES
    tunnels,  \* m.tunnels: the entry of a port, or None
    alloc,    \* keys of allocator.allocated
    next,     \* allocator.next
    spec,     \* host, local port (None: to be allocated) and direction of a call
    auto,     \* the calls whose port was allocated
    pc,       \* where a call of CreateTunnel is
    info,     \* entry.info.State
    proc,     \* the ssh process: none, running, or how it exited
    ctx,      \* calls whose context is cancelled
    socket,   \* the ports somebody listens on
    reaper,   \* where a reapTunnel goroutine is
    closer    \* a closing caller: where it is, the hosts whose tunnels it closes, the ports
              \* it has still to close and the entry it has just removed

callVars == <<spec, auto, pc>>
procVars == <<proc, socket>>
vars == <<tunnels, alloc, next, callVars, info, procVars, ctx, reaper, closer>>

Port(c) == spec[c].port
Dead(c) == proc[c] \in {"clean", "error"}
(* The call's entry is the one m.tunnels has for its port. *)
Listed(c) == Port(c) # None /\ tunnels[Port(c)] = c

CreatePCs == {"spawn", "confirm", "insert", "kill", "unreserve", "mark", "reap"}

(* The types of the manager's table, the allocator and the calls, reapers and closers. *)
TypeOK ==
    /\ tunnels \in [Ports -> Calls \cup {None}]
    /\ alloc \subseteq Ports
    /\ next \in PortRange
    /\ spec \in [Calls -> [host : Hosts, port : Ports \cup {None}, dir : Directions]]
    /\ auto \subseteq Calls
    /\ pc \in [Calls -> CreatePCs \cup {"new", "alloc", "ok", "err"}]
    /\ info \in [Calls -> {"active", "failed"}]
    /\ proc \in [Calls -> {"none", "running", "clean", "error"}]
    /\ ctx \subseteq Calls
    /\ socket \in [Ports -> SUBSET (Calls \cup {None})]
    /\ reaper \in [Calls -> {"none", "wait", "release", "done"}]
    /\ closer \in [Closers -> [pc : {"idle", "next", "release", "kill"},
                               hosts : SUBSET Hosts, todo : SUBSET Ports,
                               entry : Calls \cup {None}]]

(* A call's arguments are fixed here and read when it is made. *)
Init ==
    /\ tunnels = [p \in Ports |-> None]
    /\ alloc = {}
    /\ next = PortStart
    /\ spec \in [Calls -> [host : Hosts, port : Explicit \cup {None}, dir : Directions]]
    /\ auto = {}
    /\ pc = [c \in Calls |-> "new"]
    /\ info = [c \in Calls |-> "active"]
    /\ proc = [c \in Calls |-> "none"]
    /\ ctx = {}
    /\ socket = [p \in Ports |-> IF p \in Busy THEN {None} ELSE {}]
    /\ reaper = [c \in Calls |-> "none"]
    /\ closer = [k \in Closers |-> [pc |-> "idle", hosts |-> {}, todo |-> {},
                                     entry |-> None]]

At(c, l) == pc[c] = l
Goto(c, l) == pc' = [pc EXCEPT ![c] = l]

-----------------------------------------------------------------------------
(* PortAllocator. *)

isPortAvailable(p) == socket[p] = {}

(* The i-th port Allocate looks at. *)
Candidate(i) == PortStart + ((next - PortStart + i) % (PortEnd - PortStart))
Free(p) == p \notin alloc /\ isPortAvailable(p)

(* Allocate reserves the first free port at or after next, wrapping around. *)
Allocate(p) ==
    /\ \E i \in 0..(PortEnd - PortStart - 1) :
         /\ p = Candidate(i)
         /\ Free(p)
         /\ \A j \in 0..(i - 1) : ~Free(Candidate(j))
    /\ alloc' = alloc \cup {p}
    /\ next' = IF p + 1 >= PortEnd THEN PortStart ELSE p + 1

AllocateFails == \A p \in PortRange : ~Free(p)

ReleasePort(p) == alloc' = alloc \ {p}
MarkAllocated(p) == alloc' = alloc \cup {p}

-----------------------------------------------------------------------------
(* CreateTunnel. *)

(* GetHost: an unknown host, or a destination ssh would read as an option, is refused. *)
Create(c) ==
    /\ At(c, "new")
    /\ \/ Goto(c, "err")
       \/ Goto(c, IF Port(c) = None THEN "alloc" ELSE "spawn")
    /\ UNCHANGED <<tunnels, alloc, next, spec, auto, info, procVars, ctx, reaper, closer>>

AllocatePort(c) ==
    /\ At(c, "alloc")
    /\ \/ \E p \in PortRange :
            /\ Allocate(p)
            /\ spec' = [spec EXCEPT ![c].port = p]
            /\ auto' = auto \cup {c}
            /\ Goto(c, "spawn")
       \/ /\ AllocateFails
          /\ Goto(c, "err")
          /\ UNCHANGED <<alloc, next, spec, auto>>
    /\ UNCHANGED <<tunnels, info, procVars, ctx, reaper, closer>>

Unreserve(c) == IF c \in auto THEN ReleasePort(Port(c)) ELSE UNCHANGED alloc

(* Mutant: a launch that failed keeps its port. *)
SpawnLeaksPort(c) ==
    /\ At(c, "spawn")
    /\ \/ /\ c \notin ctx
          /\ proc' = [proc EXCEPT ![c] = "running"]
          /\ Goto(c, "confirm")
       \/ Goto(c, "err") /\ UNCHANGED proc
    /\ UNCHANGED <<tunnels, alloc, next, spec, auto, info, socket, ctx, reaper, closer>>

(* cmd.Start forks ssh or fails; a failed launch gives an allocated port back. *)
Spawn(c) ==
    /\ At(c, "spawn")
    /\ \/ /\ c \notin ctx
          /\ proc' = [proc EXCEPT ![c] = "running"]
          /\ Goto(c, "confirm")
          /\ UNCHANGED alloc
       \/ Goto(c, "err") /\ Unreserve(c) /\ UNCHANGED proc
    /\ UNCHANGED <<tunnels, next, spec, auto, info, socket, ctx, reaper, closer>>

(* confirmLocalBind: somebody listens on a local forward's port, or the window is over. *)
Confirm(c) ==
    /\ At(c, "confirm")
    /\ info' = [info EXCEPT ![c] = IF spec[c].dir = "local" /\ isPortAvailable(Port(c))
                                     THEN "failed" ELSE "active"]
    /\ Goto(c, "insert")
    /\ UNCHANGED <<tunnels, alloc, next, spec, auto, procVars, ctx, reaper, closer>>

(* Mutant: the entry of an occupied port is overwritten. *)
InsertOverwrites(c) ==
    /\ At(c, "insert")
    /\ tunnels' = [tunnels EXCEPT ![Port(c)] = c]
    /\ Goto(c, IF c \in auto THEN "reap" ELSE "mark")
    /\ UNCHANGED <<alloc, next, spec, auto, info, procVars, ctx, reaper, closer>>

(* The port's entry is made, or the call is rejected because it has one. *)
Insert(c) ==
    /\ At(c, "insert")
    /\ IF tunnels[Port(c)] = None
         THEN /\ tunnels' = [tunnels EXCEPT ![Port(c)] = c]
              /\ Goto(c, IF c \in auto THEN "reap" ELSE "mark")
         ELSE Goto(c, "kill") /\ UNCHANGED tunnels
    /\ UNCHANGED <<alloc, next, spec, auto, info, procVars, ctx, reaper, closer>>

(* The ssh process of c ends with r and no longer listens. *)
Exit(c, r) ==
    /\ proc' = [proc EXCEPT ![c] = r]
    /\ socket' = [p \in Ports |-> socket[p] \ {c}]

(* Process.Kill and wait: killed now unless it had exited before. *)
KillAndWait(c) == IF proc[c] = "running" THEN Exit(c, "error") ELSE UNCHANGED procVars

RejectKill(c) ==
    /\ At(c, "kill")
    /\ KillAndWait(c)
    /\ Goto(c, "unreserve")
    /\ UNCHANGED <<tunnels, alloc, next, spec, auto, info, ctx, reaper, closer>>

RejectUnreserve(c) ==
    /\ At(c, "unreserve")
    /\ Unreserve(c)
    /\ Goto(c, "err")
    /\ UNCHANGED <<tunnels, next, spec, auto, info, procVars, ctx, reaper, closer>>

(* An explicit port is recorded in the allocator after the entry is made. *)
Mark(c) ==
    /\ At(c, "mark")
    /\ MarkAllocated(Port(c))
    /\ Goto(c, "reap")
    /\ UNCHANGED <<tunnels, next, spec, auto, info, procVars, ctx, reaper, closer>>

(* Mutant: nobody waits for the process. *)
StartReaperForgotten(c) ==
    /\ At(c, "reap")
    /\ Goto(c, "ok")
    /\ UNCHANGED <<tunnels, alloc, next, spec, auto, info, procVars, ctx, reaper, closer>>

(* go m.reapTunnel *)
StartReaper(c) ==
    /\ At(c, "reap")
    /\ reaper' = [reaper EXCEPT ![c] = "wait"]
    /\ Goto(c, "ok")
    /\ UNCHANGED <<tunnels, alloc, next, spec, auto, info, procVars, ctx, closer>>

-----------------------------------------------------------------------------
(* reapTunnel: wait for the exit, then mark the entry failed or remove it. *)

Reap(c) ==
    /\ reaper[c] = "wait"
    /\ Dead(c)
    /\ IF ~Listed(c)
         THEN reaper' = [reaper EXCEPT ![c] = "done"] /\ UNCHANGED <<tunnels, info>>
         ELSE IF proc[c] = "error" /\ c \notin ctx
           THEN /\ info' = [info EXCEPT ![c] = "failed"]
                /\ reaper' = [reaper EXCEPT ![c] = "done"]
                /\ UNCHANGED tunnels
           ELSE /\ tunnels' = [tunnels EXCEPT ![Port(c)] = None]
                /\ reaper' = [reaper EXCEPT ![c] = "release"]
                /\ UNCHANGED info
    /\ UNCHANGED <<alloc, next, callVars, procVars, ctx, closer>>

ReapRelease(c) ==
    /\ reaper[c] = "release"
    /\ ReleasePort(Port(c))
    /\ reaper' = [reaper EXCEPT ![c] = "done"]
    /\ UNCHANGED <<tunnels, next, callVars, info, procVars, ctx, closer>>

-----------------------------------------------------------------------------
(* CloseTunnel, CloseAllForHost and CloseAll: a set of ports, closed one by one. *)

CloseBegin(k, hosts, ports) ==
    /\ closer[k].pc = "idle"
    /\ closer' = [closer EXCEPT ![k] =
         [pc |-> "next", hosts |-> hosts, todo |-> ports, entry |-> None]]
    /\ UNCHANGED <<tunnels, alloc, next, callVars, info, procVars, ctx, reaper>>

PortsTo(hosts) == {p \in Ports : tunnels[p] # None /\ spec[tunnels[p]].host \in hosts}

CloseTunnel(k) == \E p \in Ports : CloseBegin(k, Hosts, {p})
CloseAllForHost(k, h) == CloseBegin(k, {h}, PortsTo({h}))
CloseAll(k) == CloseBegin(k, Hosts, PortsTo(Hosts))

CloseEnd(k) ==
    /\ closer[k].pc = "next"
    /\ closer[k].todo = {}
    /\ closer' = [closer EXCEPT ![k].pc = "idle"]
    /\ UNCHANGED <<tunnels, alloc, next, callVars, info, procVars, ctx, reaper>>

(* The entry is removed, or there is none (errNoTunnel). *)
CloseRemove(k, p) ==
    /\ closer[k].pc = "next"
    /\ p \in closer[k].todo
    /\ closer' = [closer EXCEPT ![k] =
         [pc |-> IF tunnels[p] = None THEN "next" ELSE "release", hosts |-> @.hosts,
          todo |-> @.todo \ {p}, entry |-> tunnels[p]]]
    /\ tunnels' = [tunnels EXCEPT ![p] = None]
    /\ UNCHANGED <<alloc, next, callVars, info, procVars, ctx, reaper>>

CloseRelease(k) ==
    /\ closer[k].pc = "release"
    /\ ReleasePort(Port(closer[k].entry))
    /\ closer' = [closer EXCEPT ![k].pc = "kill"]
    /\ UNCHANGED <<tunnels, next, callVars, info, procVars, ctx, reaper>>

CloseKill(k) ==
    /\ closer[k].pc = "kill"
    /\ KillAndWait(closer[k].entry)
    /\ closer' = [closer EXCEPT ![k].pc = "next", ![k].entry = None]
    /\ UNCHANGED <<tunnels, alloc, next, callVars, info, ctx, reaper>>

-----------------------------------------------------------------------------
(* ssh and the contexts. *)

(* A local forward's ssh listens on its port. *)
SSHBinds(c) ==
    /\ proc[c] = "running"
    /\ spec[c].dir = "local"
    /\ isPortAvailable(Port(c))
    /\ socket' = [socket EXCEPT ![Port(c)] = {c}]
    /\ UNCHANGED <<tunnels, alloc, next, callVars, info, proc, ctx, reaper, closer>>

(* ssh ends by itself: cleanly, or with an error (ExitOnForwardFailure among them). *)
SSHExits(c) ==
    /\ proc[c] = "running"
    /\ \E r \in {"clean", "error"} : Exit(c, r)
    /\ UNCHANGED <<tunnels, alloc, next, callVars, info, ctx, reaper, closer>>

(* exec.CommandContext kills ssh when the context of the call is cancelled. *)
Cancel(c) ==
    /\ c \notin ctx
    /\ pc[c] # "new"
    /\ ctx' = ctx \cup {c}
    /\ KillAndWait(c)
    /\ UNCHANGED <<tunnels, alloc, next, callVars, info, reaper, closer>>

-----------------------------------------------------------------------------
CreateStep(c) ==
    \/ AllocatePort(c) \/ Spawn(c) \/ Confirm(c) \/ Insert(c)
    \/ RejectKill(c) \/ RejectUnreserve(c) \/ Mark(c) \/ StartReaper(c)
ReapStep(c) == Reap(c) \/ ReapRelease(c)
CloseStep(k) ==
    CloseEnd(k) \/ (\E p \in Ports : CloseRemove(k, p)) \/ CloseRelease(k) \/ CloseKill(k)
CloseCall(k) == CloseTunnel(k) \/ (\E h \in Hosts : CloseAllForHost(k, h)) \/ CloseAll(k)
SSHStep(c) == SSHBinds(c) \/ SSHExits(c) \/ Cancel(c)

Next ==
    \/ \E c \in Calls : Create(c) \/ CreateStep(c) \/ ReapStep(c) \/ SSHStep(c)
    \/ \E k \in Closers : CloseCall(k) \/ CloseStep(k)

Spec == Init /\ [][Next]_vars

(* Every goroutine in the middle of a call is run again.  ssh, contexts and the  *)
(* callers' own calls owe nothing.                                               *)
FairSpec ==
    /\ Spec
    /\ \A c \in Calls : WF_vars(CreateStep(c)) /\ WF_vars(ReapStep(c))
    /\ \A k \in Closers : WF_vars(CloseStep(k))

-----------------------------------------------------------------------------
Closing(c) == \E k \in Closers : closer[k].entry = c
Releasing(c) == \E k \in Closers : closer[k].entry = c /\ closer[k].pc = "release"

(* Every ssh process still running belongs to a call in progress, to the entry of its *)
(* port, or to a closer about to kill it: none is orphaned ("leaked goroutine/zombie, *)
(* no way to close it").                                                              *)
EveryProcessOwned ==
    \A c \in Calls : proc[c] = "running" =>
      \/ pc[c] \in {"confirm", "insert", "kill"}
      \/ Listed(c)
      \/ Closing(c)

(* The call holds the reservation of its port. *)
HoldsPort(c) ==
    \/ c \in auto /\ pc[c] \in {"spawn", "confirm", "insert", "kill", "unreserve"}
    \/ Listed(c)
    \/ reaper[c] = "release"
    \/ Releasing(c)

(* No spec of a call names its own port: every port in use was allocated. *)
AllAuto == \A c \in Calls : Port(c) = None \/ c \in auto

(* A reserved port is held by exactly one call, a call that holds a port has it reserved. *)
Balanced ==
    /\ \A c \in Calls : HoldsPort(c) => Port(c) \in alloc
    /\ \A p \in alloc : \E c \in Calls : HoldsPort(c) /\ Port(c) = p
    /\ \A c, d \in Calls : HoldsPort(c) /\ HoldsPort(d) /\ Port(c) = Port(d) => c = d

(* When no spec names its own port: a reserved port is held by exactly one call, in    *)
(* whichever goroutine it is, and a call that holds a port has it reserved.  Nothing   *)
(* is leaked by a failed launch, a close or a reap, and none frees another's port.     *)
ReservationsBalance == AllAuto => Balanced

(* The process of a tunnel somebody closed is killed in the end. *)
ClosedIsKilled ==
    \A c \in Calls : (pc[c] = "ok" /\ ~Listed(c)) ~> Dead(c)

(* A tunnel whose ssh died by itself does not stay listed as active: it is shown as *)
(* failed, removed, or closed ("absence-of-error masks a dead tunnel").             *)
DeathSurfaces ==
    \A c \in Calls : (pc[c] = "ok" /\ Dead(c)) ~> (info[c] = "failed" \/ ~Listed(c))
===============================================================================
