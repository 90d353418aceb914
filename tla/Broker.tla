------------------------------- MODULE Broker -------------------------------
(***************************************************************************)
(* pkg/brokertest: StartNATS, StartPostgres, StartRedis and StartEtcd, and *)
(* the stop function they return.                                          *)
(*                                                                         *)
(* A call detects a runtime, runs a new container under a name of its own, *)
(* resolves the host port, waits until a server of its kind answers there, *)
(* and returns an endpoint; every failure after the run removes the        *)
(* container by name.  Containers of several calls boot, serve and exit at *)
(* any time, and a port that one gives up may be bound by the next.        *)
(***************************************************************************)
EXTENDS Naturals

CONSTANTS
    Calls,   \* Start calls
    Ports,   \* host ports
    Settings \* what the calls start, and where: pairs of functions from Calls

VARIABLES
    kind, pin,    \* by call: the broker, and WithHostPort (0 if not given)
    at,           \* by call: where it is
    ctr,          \* by call: its container
    host,         \* by call: the host port its container has bound
    port,         \* by call: the host port of the endpoint
    answer,       \* by call: whose container passed the readiness check, and its state
    late,         \* calls whose creation the runtime still works on
    overtaken,    \* calls whose container was created after its removal
    died,         \* calls whose container exited before they returned
    rmFailed      \* calls whose removal failed

vars == <<kind, pin, at, ctr, host, port, answer, late, overtaken, died, rmFailed>>
options == <<kind, pin>>
containers == <<ctr, host>>
marks == <<late, overtaken, died, rmFailed>>

NoAnswer == [by |-> 0, state |-> "none"]

Init ==
    /\ \E s \in Settings : kind = s.kind /\ pin = s.pin
    /\ at = [c \in Calls |-> "idle"]
    /\ ctr = [c \in Calls |-> "none"] /\ host = [c \in Calls |-> 0]
    /\ port = [c \in Calls |-> 0] /\ answer = [c \in Calls |-> NoAnswer]
    /\ late = {} /\ overtaken = {} /\ died = {} /\ rmFailed = {}

Go(c, from, to) == at[c] = from /\ at' = [at EXCEPT ![c] = to]
Bound(p) == \E d \in Calls : host[d] = p
Starting(c) == at[c] \in {"resolve", "wait", "protocol"}
Settled(c) == at[c] \in {"up", "failed", "stopping", "stopped"}

(* The host ports hostPortSpec lets the container have: the pinned one, or *)
(* any that is free.                                                       *)
hostPortSpec(c) == {p \in IF pin[c] = 0 THEN Ports ELSE {pin[c]} : ~Bound(p)}

-----------------------------------------------------------------------------
(* The runtime: containers start serving and exit by themselves.  A killed *)
(* CLI leaves a creation behind that the runtime may finish later.         *)
Serves(c) ==
    /\ ctr[c] = "booting"
    /\ ctr' = [ctr EXCEPT ![c] = "serving"]
    /\ UNCHANGED <<options, at, host, port, answer, marks>>

Exits(c) ==
    /\ ctr[c] \in {"booting", "serving"}
    /\ ctr' = [ctr EXCEPT ![c] = "exited"] /\ host' = [host EXCEPT ![c] = 0]
    /\ died' = died \cup IF Settled(c) THEN {} ELSE {c}
    /\ UNCHANGED <<options, at, port, answer, late, overtaken, rmFailed>>

CreatedLate(c) ==
    /\ c \in late
    /\ late' = late \ {c}
    /\ \/ ctr' = [ctr EXCEPT ![c] = "created"] /\ UNCHANGED host
       \/ \E p \in hostPortSpec(c) : /\ ctr' = [ctr EXCEPT ![c] = "booting"]
                                     /\ host' = [host EXCEPT ![c] = p]
    /\ overtaken' = overtaken \cup IF at[c] = "failed" THEN {c} ELSE {}
    /\ UNCHANGED <<options, at, port, answer, died, rmFailed>>

-----------------------------------------------------------------------------
(* AutoDetect and runtimeBinary: nothing exists yet when they fail.        *)
Detect(c) ==
    /\ \/ Go(c, "idle", "run")
       \/ Go(c, "idle", "failed")
    /\ UNCHANGED <<options, containers, port, answer, marks>>

(* "run -d" succeeds: the container is there and has its host port.        *)
execRun(c) ==
    /\ Go(c, "run", "resolve")
    /\ \E p \in hostPortSpec(c) : host' = [host EXCEPT ![c] = p]
    /\ ctr' = [ctr EXCEPT ![c] = "booting"]
    /\ UNCHANGED <<options, port, answer, marks>>

(* What a run that fails or is killed may leave: nothing, a container that *)
(* never started, one that runs, or a creation in progress.                *)
FailedRun(c, to) ==
    /\ Go(c, "run", to)
    /\ \/ UNCHANGED <<ctr, host, late>>
       \/ ctr' = [ctr EXCEPT ![c] = "created"] /\ UNCHANGED <<host, late>>
       \/ /\ \E p \in hostPortSpec(c) : host' = [host EXCEPT ![c] = p]
          /\ ctr' = [ctr EXCEPT ![c] = "booting"] /\ UNCHANGED late
       \/ late' = late \cup {c} /\ UNCHANGED <<ctr, host>>
    /\ UNCHANGED <<options, port, answer, overtaken, died, rmFailed>>

(* A failed run that goes on as if it had succeeded.                       *)
runNewContainerUnchecked(c) == FailedRun(c, "resolve")

(* runNewContainer removes the container by its name when the run fails.   *)
runNewContainer(c) == FailedRun(c, "clean")

(* makeStop: a stop function, called any number of times; the first call   *)
(* removes the container.                                                  *)
makeStop(c) ==
    /\ Go(c, "up", "stopping")
    /\ UNCHANGED <<options, containers, port, answer, marks>>

(* removeContainer: forced, under a context of its own; its error is       *)
(* dropped, and a call whose removal failed does not come back to it.      *)
removeContainer(c) ==
    /\ at[c] \in {"clean", "abort", "stopping"}
    /\ at' = [at EXCEPT ![c] = IF @ = "stopping" THEN "stopped" ELSE "failed"]
    /\ \/ ctr' = [ctr EXCEPT ![c] = "none"] /\ host' = [host EXCEPT ![c] = 0] /\ UNCHANGED rmFailed
       \/ ctr[c] # "none" /\ rmFailed' = rmFailed \cup {c} /\ UNCHANGED containers
    /\ UNCHANGED <<options, port, answer, late, overtaken, died>>

(* startupContext: the caller's deadline, or one of 90 seconds, ends the   *)
(* resolve and readiness loops; the call then stops the container.         *)
startupContext(c) ==
    /\ Starting(c)
    /\ at' = [at EXCEPT ![c] = "abort"]
    /\ UNCHANGED <<options, containers, port, answer, marks>>

(* A status that reads a stopped or dead container.                        *)
exitedState(c) == ctr[c] = "exited"

(* The pinned port is trusted unless a status, when one can be had, shows  *)
(* that the container has exited.                                          *)
failIfExited(c) ==
    \/ exitedState(c) /\ Go(c, "resolve", "abort") /\ UNCHANGED port
    \/ Go(c, "resolve", "wait") /\ port' = [port EXCEPT ![c] = pin[c]]

(* The port read from the status; none is published before the container   *)
(* runs, and the loop then asks again, as it does after a status error.    *)
clientHostPort(c) ==
    \/ exitedState(c) /\ Go(c, "resolve", "abort") /\ UNCHANGED port
    \/ host[c] # 0 /\ Go(c, "resolve", "wait") /\ port' = [port EXCEPT ![c] = host[c]]

resolveHostPort(c) ==
    /\ IF pin[c] # 0 THEN failIfExited(c) ELSE clientHostPort(c)
    /\ UNCHANGED <<options, containers, answer, marks>>

resolvePostgresHostPort(c) == resolveHostPort(c)
resolveRedisHostPort(c) == resolveHostPort(c)
resolveEtcdHostPort(c) == resolveHostPort(c)

-----------------------------------------------------------------------------
(* The containers that answer at a port as a server of the kind does.      *)
Answers(p, k) == {d \in Calls : host[d] = p /\ kind[d] = k /\ ctr[d] = "serving"}

(* "INFO" from NATS, "+PONG" from Redis, a true health from etcd.          *)
readsNATSGreeting(p) == Answers(p, "nats")
readsRedisPong(p) == Answers(p, "redis")
readsEtcdHealth(p) == Answers(p, "etcd")

(* 'R' from a server, 'E' from a server or from one that is starting up.   *)
pgStartupProbe(p) == {d \in Calls : host[d] = p /\ kind[d] = "postgres"}

(* pg_isready inside the call's own container.                             *)
pgIsReady(c) == {d \in {c} : ctr[d] = "serving"}

(* The check passed: Start returns the endpoint and stop.                  *)
Ready(c, from, by) ==
    /\ Go(c, from, "up")
    /\ \E d \in by : answer' = [answer EXCEPT ![c] = [by |-> d, state |-> ctr[d]]]
    /\ UNCHANGED <<options, containers, port, marks>>

waitReady(c) == Ready(c, "wait", readsNATSGreeting(port[c]))
waitRedisReady(c) == Ready(c, "wait", readsRedisPong(port[c]))
waitEtcdReady(c) == Ready(c, "wait", readsEtcdHealth(port[c]))

(* An exec that the runtime or the image does not support sends the call   *)
(* to the protocol probe for good.                                         *)
waitPostgresReady(c) ==
    \/ Ready(c, "wait", pgIsReady(c))
    \/ Go(c, "wait", "protocol") /\ UNCHANGED <<options, containers, port, answer, marks>>

waitPostgresProtocolReady(c) == Ready(c, "protocol", pgStartupProbe(port[c]))

-----------------------------------------------------------------------------
Common(c) ==
    Detect(c) \/ execRun(c) \/ runNewContainer(c) \/ startupContext(c) \/ removeContainer(c)

StartNATS(c) == kind[c] = "nats" /\ (Common(c) \/ resolveHostPort(c) \/ waitReady(c))
StartRedis(c) == kind[c] = "redis" /\ (Common(c) \/ resolveRedisHostPort(c) \/ waitRedisReady(c))
StartEtcd(c) == kind[c] = "etcd" /\ (Common(c) \/ resolveEtcdHostPort(c) \/ waitEtcdReady(c))
StartPostgres(c) ==
    /\ kind[c] = "postgres"
    /\ Common(c) \/ resolvePostgresHostPort(c) \/ waitPostgresReady(c) \/ waitPostgresProtocolReady(c)

Step(c) == StartNATS(c) \/ StartPostgres(c) \/ StartRedis(c) \/ StartEtcd(c)

Next == \E c \in Calls : Step(c) \/ makeStop(c) \/ Serves(c) \/ Exits(c) \/ CreatedLate(c)

(* The CLI ends, a loop sees its deadline, a removal returns.              *)
Spec == Init /\ [][Next]_vars /\ \A c \in Calls : WF_vars(Step(c))

-----------------------------------------------------------------------------

(* "what guarantees no leak": a Start that failed and a stop that returned *)
(* leave no container, whatever the failed run had created, unless the     *)
(* removal itself failed or the runtime created the container only after   *)
(* it.                                                                     *)
NoLeak ==
    \A c \in Calls \ (rmFailed \cup overtaken) :
        at[c] \in {"failed", "stopped"} => ctr[c] = "none"

(* The endpoint a Start returns is that of its own container, also when    *)
(* several calls ask for one pinned port, unless the container died while  *)
(* the call was looking.                                                   *)
EndpointIsOwn ==
    \A c \in Calls \ died : answer[c].by # 0 => answer[c].by = c

(* "not merely that the TCP port is bound": a server of the right kind was *)
(* serving at the moment it passed, except in the protocol fallback for    *)
(* PostgreSQL, whose error response a starting server sends too.           *)
ReadyMeansServing ==
    \A c \in Calls : answer[c].by # 0 /\ kind[c] # "postgres" =>
        answer[c].state = "serving" /\ kind[answer[c].by] = kind[c]

(* "cannot hang forever on a container that never becomes ready": a call   *)
(* that has begun returns, whatever its container does.                    *)
StartReturns == \A c \in Calls : at[c] # "idle" ~> Settled(c)
=============================================================================
