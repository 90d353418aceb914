----------------------------- MODULE MCLifecycle -----------------------------
(* Lifecycle with callers as model values, for TLC. *)
EXTENDS Lifecycle, TLC

CallerSymmetry == Permutations(Callers)

(* What a comment of pkg/lifecycle says of leases and the code does not keep.       *)
(* manager.go:83-85, "so a service is never reclaimed while a lease is still held":  *)
(* the Stop of an idle timer never takes the containers down under a granted lease.  *)
NeverReclaimedUnderLease ==
    [][\A k \in Boots : At(k, "down") /\ stack = "up" /\ stack' = "down" => \A p \in Callers : ~At(p, "held")
      ]_<<pc, stack>>
=============================================================================
