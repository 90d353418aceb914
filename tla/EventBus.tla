------------------------------- MODULE EventBus -------------------------------
(***************************************************************************)
(* pkg/event's DefaultEventBus: Publish, Subscribe, Unsubscribe and Close, *)
(* called by clients and, re-entrantly, by handlers, and the delivery      *)
(* goroutine of every subscription.                                        *)
(*                                                                         *)
(* Publish holds b.mu for reading while it goes through the subscribers;   *)
(* a writer's lock hold is one step, taken when no reader is inside.       *)
(* Calls that the closed flag or a missing id turns into a no-op are left  *)
(* out: they change nothing.                                               *)
(***************************************************************************)
EXTENDS Naturals, Sequences, FiniteSets

CONSTANTS
    Clients,     \* goroutines outside the bus
    Subs,        \* subscription ids, 1..n; bound: Subscribe calls that succeed
    BufferSizes, \* the bufferSize values NewEventBus is called with
    Events,      \* [type, source] records
    Filters,     \* [types, sources] records of sets
    Stuck,       \* subscriptions whose handler may never return
    MaxPublish   \* bound: Publish calls that find the bus open

Procs == Clients \cup Subs

ASSUME EventBusAssumption ==
    /\ Subs = 1..Cardinality(Subs)
    /\ IsFiniteSet(Subs)
    /\ Clients \cap Subs = {}
    /\ BufferSizes \subseteq Nat
    /\ Stuck \subseteq Subs
    /\ MaxPublish \in Nat

VARIABLES
    bufferSize, \* b.bufferSize, the capacity of every subscriber's channel
    subs,      \* keys of b.subs
    nextID,    \* b.nextID
    closed,    \* b.closed, and closeCh is closed
    readers,   \* goroutines that hold b.mu for reading
    filter,    \* sub.filter
    ch,        \* the events in sub.ch
    chClosed,  \* subscriptions whose ch is closed
    run,       \* the delivery goroutine: none, recv, handling or done
    pc,        \* where a goroutine is inside the bus
    event,     \* the event a Publish is delivering
    todo,      \* subscriptions a call has still to send to, stop or join
    expired,   \* Close calls whose join deadline has passed
    npublish,  \* Publish calls so far
    collected  \* history: the subscriptions Close removed

busVars == <<bufferSize, subs, nextID, closed, filter>>
subVars == <<ch, chClosed, run>>
vars == <<busVars, readers, subVars, pc, event, todo, expired, npublish, collected>>

(* The types of the bus's fields, channels and calls; a channel never holds more than   *)
(* bufferSize events, since Publish drops what does not fit.                           *)
TypeOK ==
    /\ bufferSize \in BufferSizes
    /\ subs \subseteq 1..nextID
    /\ nextID \in 0..Cardinality(Subs)
    /\ closed \in BOOLEAN
    /\ readers \subseteq Procs
    /\ filter \in [Subs -> Filters]
    /\ ch \in [Subs -> Seq(Events)]
    /\ \A s \in Subs : Len(ch[s]) <= bufferSize
    /\ chClosed \subseteq Subs
    /\ run \in [Subs -> {"none", "recv", "handling", "done"}]
    /\ pc \in [Procs -> {"idle", "send", "stop", "closeStop", "join"}]
    /\ event \in [Procs -> Events]
    /\ todo \in [Procs -> SUBSET Subs]
    /\ expired \subseteq Procs
    /\ npublish \in 0..MaxPublish
    /\ collected \subseteq Subs

Init ==
    /\ bufferSize \in BufferSizes
    /\ subs = {}
    /\ nextID = 0
    /\ closed = FALSE
    /\ readers = {}
    /\ filter \in {[s \in Subs |-> f] : f \in Filters}
    /\ ch = [s \in Subs |-> <<>>]
    /\ chClosed = {}
    /\ run = [s \in Subs |-> "none"]
    /\ pc = [p \in Procs |-> "idle"]
    /\ event \in {[p \in Procs |-> e] : e \in Events}
    /\ todo = [p \in Procs |-> {}]
    /\ expired = {}
    /\ npublish = 0
    /\ collected = {}

(* A goroutine that may call into the bus: a client, or a handler at work. *)
MayCall(p) == pc[p] = "idle" /\ (p \in Subs => run[p] = "handling")

matches(s, e) ==
    /\ filter[s].types # {} => e.type \in filter[s].types
    /\ filter[s].sources # {} => e.source \in filter[s].sources

-----------------------------------------------------------------------------
(* Publish: under the read lock, a non-blocking send to every matching subscriber. *)

PublishBegin(p, e) ==
    /\ MayCall(p)
    /\ ~closed
    /\ npublish < MaxPublish
    /\ npublish' = npublish + 1
    /\ readers' = readers \cup {p}
    /\ event' = [event EXCEPT ![p] = e]
    /\ todo' = [todo EXCEPT ![p] = {s \in subs : matches(s, e)}]
    /\ pc' = [pc EXCEPT ![p] = "send"]
    /\ UNCHANGED <<busVars, subVars, expired, collected>>

(* With a buffer the event is queued if there is room; without one it is handed over *)
(* if the goroutine is parked in its receive.  Otherwise it is dropped.              *)
Send(p, s) ==
    /\ pc[p] = "send"
    /\ s \in todo[p]
    /\ todo' = [todo EXCEPT ![p] = @ \ {s}]
    /\ \/ /\ Len(ch[s]) < bufferSize
          /\ ch' = [ch EXCEPT ![s] = Append(@, event[p])]
          /\ UNCHANGED run
       \/ /\ bufferSize = 0
          /\ run[s] = "recv"
          /\ run' = [run EXCEPT ![s] = "handling"]
          /\ UNCHANGED ch
       \/ /\ Len(ch[s]) = bufferSize
          /\ UNCHANGED <<ch, run>>
    /\ UNCHANGED <<busVars, readers, chClosed, pc, event, expired, npublish, collected>>

PublishEnd(p) ==
    /\ pc[p] = "send"
    /\ todo[p] = {}
    /\ readers' = readers \ {p}
    /\ pc' = [pc EXCEPT ![p] = "idle"]
    /\ UNCHANGED <<busVars, subVars, event, todo, expired, npublish, collected>>

-----------------------------------------------------------------------------
(* Mutant: Subscribe does not look at closed. *)
SubscribeAfterClose(p, f) ==
    /\ MayCall(p)
    /\ readers = {}
    /\ nextID + 1 \in Subs
    /\ nextID' = nextID + 1
    /\ filter' = [filter EXCEPT ![nextID + 1] = f]
    /\ subs' = subs \cup {nextID + 1}
    /\ run' = [run EXCEPT ![nextID + 1] = "recv"]
    /\ UNCHANGED <<bufferSize, closed, readers, ch, chClosed, pc, event, todo, expired, npublish, collected>>

Subscribe(p, f) ==
    /\ MayCall(p)
    /\ readers = {}
    /\ ~closed
    /\ nextID + 1 \in Subs
    /\ nextID' = nextID + 1
    /\ filter' = [filter EXCEPT ![nextID + 1] = f]
    /\ subs' = subs \cup {nextID + 1}
    /\ run' = [run EXCEPT ![nextID + 1] = "recv"]
    /\ UNCHANGED <<bufferSize, closed, readers, ch, chClosed, pc, event, todo, expired, npublish, collected>>

(* Mutant: the entry is removed without waiting for the publishers inside. *)
UnsubscribeUnlocked(p, s) ==
    /\ MayCall(p)
    /\ s \in subs
    /\ subs' = subs \ {s}
    /\ todo' = [todo EXCEPT ![p] = {s}]
    /\ pc' = [pc EXCEPT ![p] = "stop"]
    /\ UNCHANGED <<bufferSize, nextID, closed, filter, readers, subVars, event, expired, npublish, collected>>

(* The entry is removed under the lock, then the goroutine is told to stop. *)
Unsubscribe(p, s) ==
    /\ MayCall(p)
    /\ readers = {}
    /\ s \in subs
    /\ subs' = subs \ {s}
    /\ todo' = [todo EXCEPT ![p] = {s}]
    /\ pc' = [pc EXCEPT ![p] = "stop"]
    /\ UNCHANGED <<bufferSize, nextID, closed, filter, readers, subVars, event, expired, npublish, collected>>

(* sub.requestStop() of one subscription: Unsubscribe's only one, or the next of Close's, *)
(* which keeps them all to join them.                                                    *)
RequestStop(p, s) ==
    /\ s \in todo[p]
    /\ chClosed' = chClosed \cup {s}
    /\ \/ /\ pc[p] = "stop"
          /\ todo' = [todo EXCEPT ![p] = {}]
          /\ pc' = [pc EXCEPT ![p] = "idle"]
       \/ /\ pc[p] = "closeStop"
          /\ s \notin chClosed
          /\ UNCHANGED <<todo, pc>>
    /\ UNCHANGED <<busVars, readers, ch, run, event, expired, npublish, collected>>

-----------------------------------------------------------------------------
(* Close: collect and remove all under the lock, stop all, then join all. *)

CloseBegin(p) ==
    /\ MayCall(p)
    /\ readers = {}
    /\ ~closed
    /\ closed' = TRUE
    /\ subs' = {}
    /\ todo' = [todo EXCEPT ![p] = subs]
    /\ pc' = [pc EXCEPT ![p] = "closeStop"]
    /\ collected' = subs
    /\ UNCHANGED <<bufferSize, nextID, filter, readers, subVars, event, expired, npublish>>

AllStopped(p) ==
    /\ pc[p] = "closeStop"
    /\ todo[p] \subseteq chClosed
    /\ pc' = [pc EXCEPT ![p] = "join"]
    /\ UNCHANGED <<busVars, readers, subVars, event, todo, expired, npublish, collected>>

(* Mutant: the join has no deadline. *)
DeadlineNever(p) ==
    /\ pc[p] = "join"
    /\ todo[p] = {}
    /\ p \notin expired
    /\ expired' = expired \cup {p}
    /\ UNCHANGED <<busVars, readers, subVars, pc, event, todo, npublish, collected>>

(* closeSubscriberJoinTimeout has passed since all were told to stop. *)
DeadlinePasses(p) ==
    /\ pc[p] = "join"
    /\ p \notin expired
    /\ expired' = expired \cup {p}
    /\ UNCHANGED <<busVars, readers, subVars, pc, event, todo, npublish, collected>>

(* Mutant: Close polls its subscriptions instead of waiting for them. *)
WaitDonePolls(p, s) ==
    /\ pc[p] = "join"
    /\ s \in todo[p]
    /\ todo' = [todo EXCEPT ![p] = @ \ {s}]
    /\ UNCHANGED <<busVars, readers, subVars, pc, event, expired, npublish, collected>>

(* waitDone: the goroutine has returned, or the shared deadline has passed. *)
WaitDone(p, s) ==
    /\ pc[p] = "join"
    /\ s \in todo[p]
    /\ run[s] = "done" \/ p \in expired
    /\ todo' = [todo EXCEPT ![p] = @ \ {s}]
    /\ UNCHANGED <<busVars, readers, subVars, pc, event, expired, npublish, collected>>

CloseEnd(p) ==
    /\ pc[p] = "join"
    /\ todo[p] = {}
    /\ pc' = [pc EXCEPT ![p] = "idle"]
    /\ UNCHANGED <<busVars, readers, subVars, event, todo, expired, npublish, collected>>

-----------------------------------------------------------------------------

(* The delivery goroutine: its select takes an event, sees ch closed and drained, or *)
(* sees closeCh closed.                                                              *)
Receive(s) ==
    /\ run[s] = "recv"
    /\ \/ /\ ch[s] # <<>>
          /\ ch' = [ch EXCEPT ![s] = Tail(@)]
          /\ run' = [run EXCEPT ![s] = "handling"]
       \/ /\ ch[s] = <<>> /\ s \in chClosed
          /\ run' = [run EXCEPT ![s] = "done"]
          /\ UNCHANGED ch
       \/ /\ closed
          /\ run' = [run EXCEPT ![s] = "done"]
          /\ UNCHANGED ch
    /\ UNCHANGED <<busVars, readers, chClosed, pc, event, todo, expired, npublish, collected>>

(* The handler returns, or panics into dispatch's recover. *)
HandlerReturns(s) ==
    /\ run[s] = "handling"
    /\ pc[s] = "idle"
    /\ run' = [run EXCEPT ![s] = "recv"]
    /\ UNCHANGED <<busVars, readers, ch, chClosed, pc, event, todo, expired, npublish, collected>>

-----------------------------------------------------------------------------
Call(p) ==
    \/ \E e \in Events : PublishBegin(p, e)
    \/ \E f \in Filters : Subscribe(p, f)
    \/ \E s \in Subs : Unsubscribe(p, s)
    \/ CloseBegin(p)

Step(p) ==
    \/ PublishEnd(p) \/ AllStopped(p) \/ CloseEnd(p)
    \/ \E s \in Subs : Send(p, s) \/ RequestStop(p, s) \/ WaitDone(p, s)

Next ==
    \/ \E p \in Procs : Call(p) \/ Step(p) \/ DeadlinePasses(p)
    \/ \E s \in Subs : Receive(s) \/ HandlerReturns(s)

Spec == Init /\ [][Next]_vars

(* Goroutines inside the bus and delivery goroutines run on, time passes, and a  *)
(* handler that is not stuck returns.                                            *)
FairSpec ==
    /\ Spec
    /\ \A p \in Procs : WF_vars(Step(p)) /\ WF_vars(DeadlinePasses(p))
    /\ \A s \in Subs : WF_vars(Receive(s))
    /\ \A s \in Subs \ Stuck : WF_vars(HandlerReturns(s))

-----------------------------------------------------------------------------
Alive(s) == run[s] \in {"recv", "handling"}

(* No Publish ever sends on a closed channel, which would panic: a channel is closed  *)
(* only after its entry was removed with no publisher inside.                         *)
NoSendOnClosed == \A p \in Procs : pc[p] = "send" => todo[p] \cap chClosed = {}

(* No subscription is lost: a goroutine that is still there can be unsubscribed, has  *)
(* been told to stop or is about to be, and a closed bus keeps no entry (CT-HARDEN-EV-3). *)
NoLostSubscription ==
    /\ closed => subs = {}
    /\ \A s \in Subs : Alive(s) =>
         \/ s \in subs
         \/ s \in chClosed \/ closed
         \/ \E p \in Procs : pc[p] = "stop" /\ s \in todo[p]

(* Once Close has returned, not having run out of time, the goroutines of all the     *)
(* subscriptions it removed have ended: none of their handlers runs any more.         *)
CloseJoinsAll ==
    closed /\ expired = {} /\ (\A p \in Procs : pc[p] \notin {"closeStop", "join"})
      => \A s \in collected : run[s] = "done"

(* Every call into the bus returns, from a handler or outside, whatever handlers are   *)
(* stuck: a self-unsubscribe does not wait for itself and Close not for a stuck one.   *)
CallsReturn == \A p \in Procs : pc[p] # "idle" ~> pc[p] = "idle"

(* The goroutine of a removed subscription ends, unless its handler is stuck. *)
GoroutinesEnd ==
    \A s \in Subs \ Stuck : (Alive(s) /\ s \notin subs) ~> run[s] = "done"
===============================================================================
