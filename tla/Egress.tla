--------------------------------- MODULE Egress ---------------------------------
(***************************************************************************)
(* pkg/egress: TunnelUp, Down and Verify over one ssh child.               *)
(*                                                                         *)
(* The child connects, binds the SOCKS port or exits; its exit is seen     *)
(* when the watcher goroutine has reaped it.  Another process may hold the *)
(* port already, in which case the port answers and the child must exit    *)
(* (ExitOnForwardFailure).  Down is called by TunnelUp when it fails and   *)
(* by any number of owners once it has returned the tunnel.                *)
(***************************************************************************)
EXTENDS Naturals

CONSTANTS Owners  \* goroutines that hold the tunnel and call Down

VARIABLES
    foreign,   \* somebody else listens on the port
    child,     \* the ssh process
    waitDone,  \* the watcher has reaped it: t.waitDone is closed
    tunnelUp,  \* where TunnelUp is
    dialled,   \* the child's state when the port first answered
    givenUp,   \* ctx is cancelled, or the deadline has passed
    isDown,    \* t.down
    taker,     \* by caller of Down: where it is
    echo       \* what the last Verify reported

egressVars == <<foreign, child, waitDone, tunnelUp, dialled, givenUp, isDown, taker, echo>>

Takers == Owners \cup {"TunnelUp"}
Answers == {"ip", "page", "empty", "denied"}

Init ==
    /\ foreign \in BOOLEAN
    /\ child = "none" /\ waitDone = FALSE /\ dialled = "none"
    /\ tunnelUp = "idle" /\ givenUp = FALSE /\ isDown = FALSE
    /\ taker = [p \in Takers |-> "idle"]
    /\ echo = "none"

-----------------------------------------------------------------------------
(* The child binds the port once it has a connection, unless it is taken.  *)
ChildBinds ==
    /\ child = "connecting" /\ ~foreign
    /\ child' = "bound"
    /\ UNCHANGED <<foreign, waitDone, tunnelUp, dialled, givenUp, isDown, taker, echo>>

(* It exits: no route, no key, the port taken, or the connection lost.     *)
ChildExits ==
    /\ child \in {"connecting", "bound"}
    /\ child' = "exited"
    /\ UNCHANGED <<foreign, waitDone, tunnelUp, dialled, givenUp, isDown, taker, echo>>

(* The watcher goroutine: the single cmd.Wait().                           *)
Watch ==
    /\ child = "exited" /\ ~waitDone
    /\ waitDone' = TRUE
    /\ UNCHANGED <<foreign, child, tunnelUp, dialled, givenUp, isDown, taker, echo>>

(* ctx is cancelled, or ConnectTimeout is over.                            *)
GiveUp ==
    /\ tunnelUp \in {"loop", "dial"} /\ ~givenUp
    /\ givenUp' = TRUE
    /\ UNCHANGED <<foreign, child, waitDone, tunnelUp, dialled, isDown, taker, echo>>

(* TunnelUp starts the child; cmd.Start may fail.                          *)
Start ==
    /\ tunnelUp = "idle"
    /\ \/ child' = "connecting" /\ tunnelUp' = "loop"
       \/ tunnelUp' = "failed" /\ UNCHANGED child
    /\ UNCHANGED <<foreign, waitDone, dialled, givenUp, isDown, taker, echo>>

(* The head of the readiness loop.                                         *)
Loop ==
    /\ tunnelUp = "loop"
    /\ tunnelUp' = IF givenUp \/ waitDone THEN "tear" ELSE "dial"
    /\ UNCHANGED <<foreign, child, waitDone, dialled, givenUp, isDown, taker, echo>>

(* net.DialTimeout: anybody's listener answers.                            *)
Dial ==
    /\ tunnelUp = "dial"
    /\ IF foreign \/ child = "bound"
       THEN tunnelUp' = "grace" /\ dialled' = child
       ELSE tunnelUp' = "loop" /\ UNCHANGED dialled
    /\ UNCHANGED <<foreign, child, waitDone, givenUp, isDown, taker, echo>>


(* childReadyGrace: long enough for the watcher to report a child that was *)
(* gone when the port answered.                                            *)
Grace ==
    /\ tunnelUp = "grace"
    /\ dialled = "exited" => waitDone
    /\ tunnelUp' = IF waitDone THEN "tear" ELSE "ready"
    /\ UNCHANGED <<foreign, child, waitDone, dialled, givenUp, isDown, taker, echo>>

-----------------------------------------------------------------------------

(* Down: the first caller takes the child, the others return at once.      *)
Down(p) ==
    /\ taker[p] = "idle"
    /\ p = "TunnelUp" => tunnelUp = "tear"
    /\ p # "TunnelUp" => tunnelUp = "ready"
    /\ taker' = [taker EXCEPT ![p] = IF isDown THEN "done" ELSE "kill"]
    /\ isDown' = TRUE
    /\ UNCHANGED <<foreign, child, waitDone, tunnelUp, dialled, givenUp, echo>>

(* Process.Kill, unless it is gone.                                        *)
Kill(p) ==
    /\ taker[p] = "kill"
    /\ child' = "exited"
    /\ taker' = [taker EXCEPT ![p] = "reap"]
    /\ UNCHANGED <<foreign, waitDone, tunnelUp, dialled, givenUp, isDown, echo>>

(* <-waitDone, and TunnelUp's error return after its own Down.             *)
Reap(p) ==
    /\ taker[p] = "reap" /\ waitDone
    /\ taker' = [taker EXCEPT ![p] = "done"]
    /\ tunnelUp' = IF p = "TunnelUp" THEN "failed" ELSE tunnelUp
    /\ UNCHANGED <<foreign, child, waitDone, dialled, givenUp, isDown, echo>>

(* fetchEgressIP: a 2xx answer whose body is an address.                   *)
Accept(answer) == IF answer = "ip" THEN "ip" ELSE "error"

(* Verify goes through whatever listens on the port; a listener that is    *)
(* not our proxy, or none, is a failed request.                            *)
Verify ==
    /\ tunnelUp = "ready"
    /\ echo' \in IF child = "bound" THEN {Accept(a) : a \in Answers} ELSE {"error"}
    /\ UNCHANGED <<foreign, child, waitDone, tunnelUp, dialled, givenUp, isDown, taker>>

Next ==
    \/ ChildBinds \/ ChildExits \/ Watch \/ GiveUp \/ Start \/ Loop \/ Dial \/ Grace \/ Verify
    \/ \E p \in Takers : Down(p) \/ Kill(p) \/ Reap(p)

(* A goroutine inside TunnelUp or Down goes on.                            *)
Work(p) ==
    \/ p = "TunnelUp" /\ (Loop \/ Dial \/ Grace \/ Down(p))
    \/ Kill(p) \/ Reap(p)

(* Goroutines run; the deadline passes and ctx checks see it.              *)
Fairness ==
    /\ WF_egressVars(Watch) /\ WF_egressVars(GiveUp)
    /\ \A p \in Takers : WF_egressVars(Work(p))
Spec == Init /\ [][Next]_egressVars /\ Fairness

-----------------------------------------------------------------------------
(* TunnelUp never takes somebody else's listener for its tunnel while its  *)
(* child was already gone, and on a free port it returns only a tunnel the *)
(* child has bound (the grace window's promise).                           *)
ReadyIsOurs ==
    tunnelUp = "ready" => dialled # "exited" /\ (~foreign => dialled = "bound")

(* A TunnelUp that failed after starting the child, and a Down that killed *)
(* it, leave neither a process nor a zombie.                               *)
NoChildLeft ==
    /\ tunnelUp = "failed" => child = "none" \/ waitDone
    /\ \A p \in Takers : taker[p] = "done" =>
         waitDone \/ \E q \in Takers \ {p} : taker[q] \in {"kill", "reap"}

(* The child is killed and waited for by one caller only.                  *)
OneTaker == \A p, q \in Takers : p # q => taker[p] = "idle" \/ taker[q] = "idle" \/
    "done" \in {taker[p], taker[q]}

(* TunnelUp has answered, and so has every Down that took the child.       *)
Answered ==
    /\ tunnelUp \in {"idle", "ready", "failed"}
    /\ \A p \in Takers : taker[p] \in {"idle", "done"}
===============================================================================
