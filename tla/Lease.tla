-------------------------------- MODULE Lease --------------------------------
(***************************************************************************)
(* What DefaultManager.Acquire and the ReleaseFunc it returns promise of   *)
(* one service's leases, with no counter, channel, boot or timer: a caller *)
(* asks, is granted a slot only while fewer than MaxConcurrent are taken,  *)
(* gives that slot back once, and only then stops counting as a user.      *)
(***************************************************************************)
EXTENDS Integers, FiniteSets

CONSTANTS
    Callers,        \* goroutines that acquire and release
    MaxConcurrent   \* spec.MaxConcurrent; 0: no limit

VARIABLE phase      \* of every caller's lease: "none", "waiting", "granted", "leaving"

Init == phase = [p \in Callers |-> "none"]

In(l) == {p \in Callers : phase[p] = l}
Move(p, from, to) == phase[p] = from /\ phase' = [phase EXCEPT ![p] = to]

(* Acquire finds the service running; without a limit the slot comes with it. *)
Ask(p) == Move(p, "none", IF MaxConcurrent > 0 THEN "waiting" ELSE "granted")

Grant(p) == Cardinality(In("granted")) < MaxConcurrent /\ Move(p, "waiting", "granted")

(* The context of the wait is done first. *)
GiveUp(p) == Move(p, "waiting", "none")

(* A lease is released, or a granted one withdrawn because the service has gone. *)
GiveBack(p) == Move(p, "granted", "leaving")

Leave(p) == Move(p, "leaving", "none")

Next == \E p \in Callers : Ask(p) \/ Grant(p) \/ GiveUp(p) \/ GiveBack(p) \/ Leave(p)

Spec == Init /\ [][Next]_phase
=============================================================================
