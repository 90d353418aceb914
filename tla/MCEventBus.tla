------------------------------ MODULE MCEventBus ------------------------------
(* EventBus with clients as model values and two kinds of events and filters, for TLC. *)
EXTENDS EventBus, TLC

TwoEvents == {[type |-> "health", source |-> "a"], [type |-> "health", source |-> "b"]}
TwoFilters == {[types |-> {}, sources |-> {}], [types |-> {"health"}, sources |-> {"a"}]}

(* Everything ends: every call into the bus returns, from a handler or     *)
(* outside, whatever handlers are stuck, and the goroutine of a removed    *)
(* subscription ends, unless its own handler is stuck.                     *)
EverythingEnds == CallsReturn /\ GoroutinesEnd
===============================================================================
