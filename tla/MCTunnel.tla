------------------------------- MODULE MCTunnel -------------------------------
(* Tunnel with calls and closers as model values, for TLC. *)
EXTENDS Tunnel

(* Tunnels end: the process of a tunnel somebody closed is killed, and a   *)
(* tunnel whose ssh died by itself does not stay listed as active.         *)
TunnelsEnd == ClosedIsKilled /\ DeathSurfaces

(* No call, reaper, closer is in progress and no exit is waiting for its reaper. *)
Quiescent ==
    /\ \A c \in Calls : pc[c] \in {"new", "ok", "err"} /\ reaper[c] # "release"
                         /\ ~(Dead(c) /\ reaper[c] = "wait")
    /\ \A k \in Closers : closer[k].pc = "idle"

(* tunnel.go:350-351, "an entry in m.tunnels <=> its port is still allocated", from   *)
(* left to right, at rest.                                                            *)
EntryIsAllocated == Quiescent => \A p \in Ports : tunnels[p] # None => p \in alloc
===============================================================================
