---------------------------- MODULE EventBusProofs ----------------------------
(***************************************************************************)
(* Proofs about EventBus, for any clients, number of subscriptions, buffer *)
(* size, events and filters.                                               *)
(***************************************************************************)
EXTENDS EventBus, FiniteSetTheorems, TLAPS

(* Nobody but the publishers is inside with the read lock; a subscription in the map  *)
(* has an open channel nobody is about to close; a publisher sends to such ones only. *)
LockInv ==
    /\ readers = {p \in Procs : pc[p] = "send"}
    /\ \A p \in Procs : pc[p] = "send" => todo[p] \subseteq subs
    /\ \A p \in Procs : pc[p] \in {"stop", "closeStop"} => todo[p] \cap subs = {}
    /\ subs \cap chClosed = {}

(* Only ids already given out are in use, and Unsubscribe stops just one. *)
IdInv ==
    /\ chClosed \subseteq 1..nextID
    /\ \A p \in Procs : todo[p] \subseteq 1..nextID
    /\ \A s \in Subs : s > nextID => run[s] = "none"
    /\ \A p \in Procs : pc[p] = "stop" => \A s, t \in todo[p] : s = t

(* The part of TypeOK the other invariants rest on. *)
Shape ==
    /\ subs \subseteq 1..nextID
    /\ nextID \in 0..Cardinality(Subs)
    /\ chClosed \subseteq Subs
    /\ run \in [Subs -> {"none", "recv", "handling", "done"}]
    /\ pc \in [Procs -> {"idle", "send", "stop", "closeStop", "join"}]
    /\ todo \in [Procs -> SUBSET Subs]

(* The ids are the first natural numbers, and their number is one. *)
LEMMA SubsFacts == Cardinality(Subs) \in Nat /\ Subs = 1..Cardinality(Subs)
BY EventBusAssumption, FS_CardinalityType

(* A new bus is well typed. *)
LEMMA InitType == Init => TypeOK
<1> SUFFICES ASSUME Init PROVE TypeOK
  OBVIOUS
<1>1. filter \in [Subs -> Filters]
  BY DEF Init
<1>2. event \in [Procs -> Events]
  BY DEF Init
<1>3. ch \in [Subs -> Seq(Events)] /\ \A s \in Subs : Len(ch[s]) = 0
  BY DEF Init
<1>4. subs \subseteq 1..nextID /\ nextID \in 0..Cardinality(Subs) /\ npublish \in 0..MaxPublish
  BY SubsFacts, EventBusAssumption DEF Init
<1>5. /\ closed \in BOOLEAN /\ readers \subseteq Procs /\ chClosed \subseteq Subs
      /\ expired \subseteq Procs /\ collected \subseteq Subs
  BY DEF Init
<1>6. /\ run \in [Subs -> {"none", "recv", "handling", "done"}]
      /\ pc \in [Procs -> {"idle", "send", "stop", "closeStop", "join"}]
      /\ todo \in [Procs -> SUBSET Subs]
  BY DEF Init
<1>7. \A s \in Subs : Len(ch[s]) <= bufferSize
  BY <1>3, EventBusAssumption DEF Init
<1>8. bufferSize \in BufferSizes
  BY DEF Init
<1>9. QED  BY <1>1, <1>2, <1>3, <1>4, <1>5, <1>6, <1>7, <1>8 DEF TypeOK

(* Every step of the bus and of a delivery goroutine keeps the types. *)
LEMMA TypeStep == TypeOK /\ [Next]_vars => TypeOK'
<1> SUFFICES ASSUME TypeOK, [Next]_vars PROVE TypeOK'
  OBVIOUS
<1> USE SubsFacts, EventBusAssumption DEF TypeOK, busVars, subVars, MayCall, Procs
<1>1. ASSUME NEW p \in Procs, NEW e \in Events, PublishBegin(p, e) PROVE TypeOK'
  <2>1. event' \in [Procs -> Events]
    BY <1>1 DEF PublishBegin
  <2>2. {s \in subs : matches(s, e)} \in SUBSET Subs
    <3>1. subs \subseteq Subs
      OBVIOUS
    <3>2. QED  BY ONLY <3>1
  <2>3. todo' \in [Procs -> SUBSET Subs]
    BY <1>1, <2>2 DEF PublishBegin
  <2>4. npublish' \in 0..MaxPublish
    BY <1>1 DEF PublishBegin
  <2>5. QED  BY <1>1, <2>1, <2>3, <2>4 DEF PublishBegin
<1>2. ASSUME NEW p \in Procs, NEW f \in Filters, Subscribe(p, f) PROVE TypeOK'
  BY <1>2 DEF Subscribe
<1>3. ASSUME NEW p \in Procs, NEW s \in Subs, Unsubscribe(p, s) PROVE TypeOK'
  BY <1>3 DEF Unsubscribe
<1>4. ASSUME NEW p \in Procs, CloseBegin(p) PROVE TypeOK'
  BY <1>4 DEF CloseBegin
<1>5. ASSUME NEW p \in Procs, PublishEnd(p) PROVE TypeOK'
  BY <1>5 DEF PublishEnd
<1>6. ASSUME NEW p \in Procs, AllStopped(p) PROVE TypeOK'
  BY <1>6 DEF AllStopped
<1>7. ASSUME NEW p \in Procs, CloseEnd(p) PROVE TypeOK'
  BY <1>7 DEF CloseEnd
<1>8. ASSUME NEW p \in Procs, NEW s \in Subs, Send(p, s) PROVE TypeOK'
  <2>1. todo' \in [Procs -> SUBSET Subs]
    BY <1>8 DEF Send
  <2>2. run' \in [Subs -> {"none", "recv", "handling", "done"}]
    BY <1>8 DEF Send
  <2>3. event[p] \in Events /\ ch[s] \in Seq(Events) /\ Len(ch[s]) \in Nat
    BY <1>8
  <2>4. Append(ch[s], event[p]) \in Seq(Events) /\ Len(Append(ch[s], event[p])) = Len(ch[s]) + 1
    BY <2>3
  <2>5. ch' \in [Subs -> Seq(Events)] /\ \A x \in Subs : Len(ch'[x]) <= bufferSize
    <3>1. CASE ch' = ch
      BY <3>1
    <3>2. CASE Len(ch[s]) < bufferSize /\ ch' = [ch EXCEPT ![s] = Append(@, event[p])]
      <4>1. ch' = [ch EXCEPT ![s] = Append(ch[s], event[p])]
        BY <3>2
      <4>2. Len(Append(ch[s], event[p])) <= bufferSize
        BY <3>2, <2>3, <2>4
      <4>3. ch \in [Subs -> Seq(Events)] /\ \A x \in Subs : Len(ch[x]) <= bufferSize
        OBVIOUS
      <4>4. QED  BY ONLY <4>1, <4>2, <4>3, <2>4, s \in Subs
    <3>3. QED  BY <1>8, <3>1, <3>2 DEF Send
  <2>6. QED  BY <1>8, <2>1, <2>2, <2>5 DEF Send
<1>9. ASSUME NEW p \in Procs, NEW s \in Subs, RequestStop(p, s) PROVE TypeOK'
  BY <1>9 DEF RequestStop
<1>10. ASSUME NEW p \in Procs, NEW s \in Subs, WaitDone(p, s) PROVE TypeOK'
  BY <1>10 DEF WaitDone
<1>11. ASSUME NEW p \in Procs, DeadlinePasses(p) PROVE TypeOK'
  BY <1>11 DEF DeadlinePasses
<1>12. ASSUME NEW s \in Subs, Receive(s) PROVE TypeOK'
  <2>1. run' \in [Subs -> {"none", "recv", "handling", "done"}]
    BY <1>12 DEF Receive
  <2>2. ch[s] \in Seq(Events) /\ Len(ch[s]) \in Nat
    BY <1>12
  <2>3. ch[s] # <<>> => Tail(ch[s]) \in Seq(Events) /\ Len(Tail(ch[s])) <= Len(ch[s])
    BY <2>2
  <2>4. ch' \in [Subs -> Seq(Events)] /\ \A x \in Subs : Len(ch'[x]) <= bufferSize
    <3>1. CASE ch' = ch
      BY <3>1
    <3>2. CASE ch[s] # <<>> /\ ch' = [ch EXCEPT ![s] = Tail(@)]
      <4>1. ch' = [ch EXCEPT ![s] = Tail(ch[s])]
        BY <3>2
      <4>2. Tail(ch[s]) \in Seq(Events) /\ Len(Tail(ch[s])) <= bufferSize
        BY <3>2, <2>2, <2>3
      <4>3. ch \in [Subs -> Seq(Events)] /\ \A x \in Subs : Len(ch[x]) <= bufferSize
        OBVIOUS
      <4>4. QED  BY ONLY <4>1, <4>2, <4>3, s \in Subs
    <3>3. QED  BY <1>12, <3>1, <3>2 DEF Receive
  <2>5. QED  BY <1>12, <2>1, <2>4 DEF Receive
<1>13. ASSUME NEW s \in Subs, HandlerReturns(s) PROVE TypeOK'
  BY <1>13 DEF HandlerReturns
<1>14. CASE UNCHANGED vars
  BY <1>14 DEF vars
<1>15. QED
  BY <1>1, <1>2, <1>3, <1>4, <1>5, <1>6, <1>7, <1>8, <1>9, <1>10, <1>11, <1>12, <1>13, <1>14
     DEF Next, Call, Step

(* The state of the bus is well typed; no channel ever holds more than bufferSize events. *)
THEOREM BusTypeCorrect == Spec => []TypeOK
<1>1. QED  BY InitType, TypeStep, PTL DEF Spec

(* Every step keeps the ids in use within those given out. *)
LEMMA IdStep == Shape /\ IdInv /\ [Next]_vars => IdInv'
<1> SUFFICES ASSUME Shape, IdInv, [Next]_vars PROVE IdInv'
  OBVIOUS
<1> USE SubsFacts, EventBusAssumption DEF Shape, busVars, subVars, MayCall, Procs, IdInv
<1>1. ASSUME NEW p \in Procs, NEW e \in Events, PublishBegin(p, e) PROVE IdInv'
  BY <1>1 DEF PublishBegin
<1>2. ASSUME NEW p \in Procs, NEW f \in Filters, Subscribe(p, f) PROVE IdInv'
  BY <1>2 DEF Subscribe
<1>3. ASSUME NEW p \in Procs, NEW s \in Subs, Unsubscribe(p, s) PROVE IdInv'
  BY <1>3 DEF Unsubscribe
<1>4. ASSUME NEW p \in Procs, CloseBegin(p) PROVE IdInv'
  BY <1>4 DEF CloseBegin
<1>5. ASSUME NEW p \in Procs, PublishEnd(p) PROVE IdInv'
  BY <1>5 DEF PublishEnd
<1>6. ASSUME NEW p \in Procs, AllStopped(p) PROVE IdInv'
  BY <1>6 DEF AllStopped
<1>7. ASSUME NEW p \in Procs, CloseEnd(p) PROVE IdInv'
  BY <1>7 DEF CloseEnd
<1>8. ASSUME NEW p \in Procs, NEW s \in Subs, Send(p, s) PROVE IdInv'
  BY <1>8 DEF Send
<1>9. ASSUME NEW p \in Procs, NEW s \in Subs, RequestStop(p, s) PROVE IdInv'
  BY <1>9 DEF RequestStop
<1>10. ASSUME NEW p \in Procs, NEW s \in Subs, WaitDone(p, s) PROVE IdInv'
  BY <1>10 DEF WaitDone
<1>11. ASSUME NEW p \in Procs, DeadlinePasses(p) PROVE IdInv'
  BY <1>11 DEF DeadlinePasses
<1>12. ASSUME NEW s \in Subs, Receive(s) PROVE IdInv'
  BY <1>12 DEF Receive
<1>13. ASSUME NEW s \in Subs, HandlerReturns(s) PROVE IdInv'
  BY <1>13 DEF HandlerReturns
<1>14. CASE UNCHANGED vars
  BY <1>14 DEF vars
<1>15. QED
  BY <1>1, <1>2, <1>3, <1>4, <1>5, <1>6, <1>7, <1>8, <1>9, <1>10, <1>11, <1>12, <1>13, <1>14
     DEF Next, Call, Step

(* Every step keeps publishers and closing of channels apart. *)
LEMMA LockStep == Shape /\ IdInv /\ LockInv /\ [Next]_vars => LockInv'
<1> SUFFICES ASSUME Shape, IdInv, LockInv, [Next]_vars PROVE LockInv'
  OBVIOUS
<1> USE SubsFacts, EventBusAssumption DEF Shape, busVars, subVars, MayCall, Procs, IdInv, LockInv
<1>1. ASSUME NEW p \in Procs, NEW e \in Events, PublishBegin(p, e) PROVE LockInv'
  BY <1>1 DEF PublishBegin
<1>2. ASSUME NEW p \in Procs, NEW f \in Filters, Subscribe(p, f) PROVE LockInv'
  BY <1>2 DEF Subscribe
<1>3. ASSUME NEW p \in Procs, NEW s \in Subs, Unsubscribe(p, s) PROVE LockInv'
  BY <1>3 DEF Unsubscribe
<1>4. ASSUME NEW p \in Procs, CloseBegin(p) PROVE LockInv'
  BY <1>4 DEF CloseBegin
<1>5. ASSUME NEW p \in Procs, PublishEnd(p) PROVE LockInv'
  BY <1>5 DEF PublishEnd
<1>6. ASSUME NEW p \in Procs, AllStopped(p) PROVE LockInv'
  BY <1>6 DEF AllStopped
<1>7. ASSUME NEW p \in Procs, CloseEnd(p) PROVE LockInv'
  BY <1>7 DEF CloseEnd
<1>8. ASSUME NEW p \in Procs, NEW s \in Subs, Send(p, s) PROVE LockInv'
  BY <1>8 DEF Send
<1>9. ASSUME NEW p \in Procs, NEW s \in Subs, RequestStop(p, s) PROVE LockInv'
  BY <1>9 DEF RequestStop
<1>10. ASSUME NEW p \in Procs, NEW s \in Subs, WaitDone(p, s) PROVE LockInv'
  BY <1>10 DEF WaitDone
<1>11. ASSUME NEW p \in Procs, DeadlinePasses(p) PROVE LockInv'
  BY <1>11 DEF DeadlinePasses
<1>12. ASSUME NEW s \in Subs, Receive(s) PROVE LockInv'
  BY <1>12 DEF Receive
<1>13. ASSUME NEW s \in Subs, HandlerReturns(s) PROVE LockInv'
  BY <1>13 DEF HandlerReturns
<1>14. CASE UNCHANGED vars
  BY <1>14 DEF vars
<1>15. QED
  BY <1>1, <1>2, <1>3, <1>4, <1>5, <1>6, <1>7, <1>8, <1>9, <1>10, <1>11, <1>12, <1>13, <1>14
     DEF Next, Call, Step

(* Every step keeps a live goroutine within reach of Unsubscribe, Close or its stop. *)
LEMMA LostStep == Shape /\ IdInv /\ NoLostSubscription /\ [Next]_vars => NoLostSubscription'
<1> SUFFICES ASSUME Shape, IdInv, NoLostSubscription, [Next]_vars PROVE NoLostSubscription'
  OBVIOUS
<1> USE SubsFacts, EventBusAssumption
    DEF Shape, busVars, subVars, MayCall, Procs, IdInv, NoLostSubscription, Alive
<1>1. ASSUME NEW p \in Procs, NEW e \in Events, PublishBegin(p, e) PROVE NoLostSubscription'
  BY <1>1 DEF PublishBegin
<1>2. ASSUME NEW p \in Procs, NEW f \in Filters, Subscribe(p, f) PROVE NoLostSubscription'
  BY <1>2 DEF Subscribe
<1>3. ASSUME NEW p \in Procs, NEW s \in Subs, Unsubscribe(p, s) PROVE NoLostSubscription'
  BY <1>3 DEF Unsubscribe
<1>4. ASSUME NEW p \in Procs, CloseBegin(p) PROVE NoLostSubscription'
  BY <1>4 DEF CloseBegin
<1>5. ASSUME NEW p \in Procs, PublishEnd(p) PROVE NoLostSubscription'
  BY <1>5 DEF PublishEnd
<1>6. ASSUME NEW p \in Procs, AllStopped(p) PROVE NoLostSubscription'
  BY <1>6 DEF AllStopped
<1>7. ASSUME NEW p \in Procs, CloseEnd(p) PROVE NoLostSubscription'
  BY <1>7 DEF CloseEnd
<1>8. ASSUME NEW p \in Procs, NEW s \in Subs, Send(p, s) PROVE NoLostSubscription'
  BY <1>8 DEF Send
<1>9. ASSUME NEW p \in Procs, NEW s \in Subs, RequestStop(p, s) PROVE NoLostSubscription'
  BY <1>9 DEF RequestStop
<1>10. ASSUME NEW p \in Procs, NEW s \in Subs, WaitDone(p, s) PROVE NoLostSubscription'
  BY <1>10 DEF WaitDone
<1>11. ASSUME NEW p \in Procs, DeadlinePasses(p) PROVE NoLostSubscription'
  BY <1>11 DEF DeadlinePasses
<1>12. ASSUME NEW s \in Subs, Receive(s) PROVE NoLostSubscription'
  BY <1>12 DEF Receive
<1>13. ASSUME NEW s \in Subs, HandlerReturns(s) PROVE NoLostSubscription'
  BY <1>13 DEF HandlerReturns
<1>14. CASE UNCHANGED vars
  BY <1>14 DEF vars
<1>15. QED
  BY <1>1, <1>2, <1>3, <1>4, <1>5, <1>6, <1>7, <1>8, <1>9, <1>10, <1>11, <1>12, <1>13, <1>14
     DEF Next, Call, Step

(* Nothing is collected before Close; what it collected has ended, is in the list of  *)
(* the Close that is stopping and joining, or the deadline has passed.                *)
JoinInv ==
    /\ ~closed => collected = {} /\ \A p \in Procs : pc[p] \notin {"closeStop", "join"}
    /\ expired = {} =>
         \A s \in collected :
           run[s] = "done" \/ \E p \in Procs : pc[p] \in {"closeStop", "join"} /\ s \in todo[p]

(* Every step of Close keeps what it has still to join in its list, and no other step *)
(* revives a goroutine that has ended.                                                *)
LEMMA JoinStep == Shape /\ collected \subseteq Subs /\ JoinInv /\ [Next]_vars => JoinInv'
<1> SUFFICES ASSUME Shape, collected \subseteq Subs, JoinInv, [Next]_vars PROVE JoinInv'
  OBVIOUS
<1> USE EventBusAssumption DEF Shape, busVars, subVars, MayCall, JoinInv
<1>1. ASSUME NEW p \in Procs, NEW e \in Events, PublishBegin(p, e) PROVE JoinInv'
  BY <1>1 DEF PublishBegin
<1>2. ASSUME NEW p \in Procs, NEW f \in Filters, Subscribe(p, f) PROVE JoinInv'
  BY <1>2 DEF Subscribe
<1>3. ASSUME NEW p \in Procs, NEW s \in Subs, Unsubscribe(p, s) PROVE JoinInv'
  BY <1>3 DEF Unsubscribe
<1>4. ASSUME NEW p \in Procs, CloseBegin(p) PROVE JoinInv'
  BY <1>4 DEF CloseBegin
<1>5. ASSUME NEW p \in Procs, PublishEnd(p) PROVE JoinInv'
  BY <1>5 DEF PublishEnd
<1>6. ASSUME NEW p \in Procs, AllStopped(p) PROVE JoinInv'
  BY <1>6 DEF AllStopped
<1>7. ASSUME NEW p \in Procs, CloseEnd(p) PROVE JoinInv'
  BY <1>7 DEF CloseEnd
<1>8. ASSUME NEW p \in Procs, NEW s \in Subs, Send(p, s) PROVE JoinInv'
  BY <1>8 DEF Send
<1>9. ASSUME NEW p \in Procs, NEW s \in Subs, RequestStop(p, s) PROVE JoinInv'
  BY <1>9 DEF RequestStop
<1>10. ASSUME NEW p \in Procs, NEW s \in Subs, WaitDone(p, s) PROVE JoinInv'
  BY <1>10 DEF WaitDone
<1>11. ASSUME NEW p \in Procs, DeadlinePasses(p) PROVE JoinInv'
  BY <1>11 DEF DeadlinePasses
<1>12. ASSUME NEW s \in Subs, Receive(s) PROVE JoinInv'
  BY <1>12 DEF Receive
<1>13. ASSUME NEW s \in Subs, HandlerReturns(s) PROVE JoinInv'
  BY <1>13 DEF HandlerReturns
<1>14. CASE UNCHANGED vars
  BY <1>14 DEF vars
<1>15. QED
  BY <1>1, <1>2, <1>3, <1>4, <1>5, <1>6, <1>7, <1>8, <1>9, <1>10, <1>11, <1>12, <1>13, <1>14
     DEF Next, Call, Step

BusInv == TypeOK /\ IdInv /\ LockInv /\ NoLostSubscription /\ JoinInv

(* The invariant of the bus. *)
LEMMA BusInvariant == Spec => []BusInv
<1>1. Init => BusInv
  BY InitType DEF Init, BusInv, IdInv, LockInv, NoLostSubscription, Alive, JoinInv
<1>2. BusInv /\ [Next]_vars => BusInv'
  <2>1. TypeOK => Shape /\ collected \subseteq Subs
    BY DEF TypeOK, Shape
  <2>2. QED  BY <2>1, TypeStep, IdStep, LockStep, LostStep, JoinStep DEF BusInv
<1>3. QED  BY <1>1, <1>2, PTL DEF Spec

(* A Publish never sends on a channel that is closed, however it races Unsubscribe and Close. *)
THEOREM SendsAreSafe == Spec => []NoSendOnClosed
<1>1. BusInv => NoSendOnClosed
  BY DEF BusInv, LockInv, NoSendOnClosed
<1>2. QED  BY <1>1, BusInvariant, PTL

(* No delivery goroutine is ever out of reach, and a closed bus has no subscriptions. *)
THEOREM NoneIsLost == Spec => []NoLostSubscription
<1>1. BusInv => NoLostSubscription
  BY DEF BusInv
<1>2. QED  BY <1>1, BusInvariant, PTL

(* A Close that returned in time has joined every goroutine it removed. *)
THEOREM CloseJoins == Spec => []CloseJoinsAll
<1>1. BusInv => CloseJoinsAll
  BY DEF BusInv, JoinInv, CloseJoinsAll
<1>2. QED  BY <1>1, BusInvariant, PTL
===============================================================================
