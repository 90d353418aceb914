------------------------------- MODULE MCRemote -------------------------------
(***************************************************************************)
(* The parts of pkg/remote that keep state, and the brokers of             *)
(* pkg/brokertest, for TLC.  They share nothing, so a behaviour is one of  *)
(* a single part: subject says which.                                      *)
(***************************************************************************)
EXTENDS ConnectionPool

CONSTANTS Names, Sweeps, Detects, Last, Fallback, MaxChanges, NoCommand,
          Starts, Ports, Settings

VARIABLES
    subject,
    registered, states, goroutine, verdict, results, sweep,
    tools, cache, at, candidate, command, changes, answered, steady, missed,
    kind, pin, brokerAt, ctr, bound, port, answer, late, overtaken, died, rmFailed

Methods == <<"execute", "stream", "copy">>

(* Two calls contend for a pinned port, or one of them does without.       *)
BrokerSettings ==
    {[kind |-> k, pin |-> p] :
        k \in {<<"nats", "nats">>, <<"postgres", "postgres">>}, p \in {<<1, 1>>, <<0, 1>>}}
    \cup {[kind |-> <<"redis", "etcd">>, pin |-> <<0, 0>>]}

Manager == INSTANCE HostManager
Detector == INSTANCE ComposeDetector
Brokers == INSTANCE Broker WITH Calls <- Starts, at <- brokerAt, host <- bound

managerVars == <<registered, states, goroutine, verdict, results, sweep>>
detectorVars == <<tools, cache, at, candidate, command, changes, answered, steady, missed>>
brokerVars == <<kind, pin, brokerAt, ctr, bound, port, answer, late, overtaken, died, rmFailed>>
mcVars == <<subject, vars, managerVars, detectorVars, brokerVars>>

MCInit ==
    /\ subject \in {"pool", "manager", "detector", "broker"}
    /\ Init
    /\ Manager!Init
    /\ Detector!Init
    /\ Brokers!Init
    /\ subject # "broker" => pin = <<0, 0>>

Pool(A) == subject = "pool" /\ A /\ UNCHANGED <<subject, managerVars, detectorVars, brokerVars>>

OfBroker(A) == subject = "broker" /\ A /\ UNCHANGED <<subject, vars, managerVars, detectorVars>>

MCNext ==
    \/ Pool(Next)
    \/ subject = "manager" /\ Manager!Next /\ UNCHANGED <<subject, vars, detectorVars, brokerVars>>
    \/ subject = "detector" /\ Detector!Next /\ UNCHANGED <<subject, vars, managerVars, brokerVars>>
    \/ OfBroker(Brokers!Next)

(* The scheduler runs every goroutine; commands end (CommandTimeout) and   *)
(* readers are closed; a dial ends, except for the hosts in Hung.          *)
MCSpec ==
    /\ MCInit
    /\ [][MCNext]_mcVars
    /\ \A c \in Calls :
          /\ WF_mcVars(Pool(Step(c)))
          /\ WF_mcVars(Pool(host[c] \notin Hung /\ (DialOk(c) \/ DialFails(c))))
    /\ WF_mcVars(OfBroker(\E c \in Starts : Brokers!Step(c)))

(***************************************************************************)
(* A probe's answer is what was probed: ProbeAll reports every registered  *)
(* host, no guess is cached as a detected command, and a caller whose host *)
(* does not change gets the best command (HostManager, ComposeDetector).   *)
(***************************************************************************)
ProbedIsReturned ==
    CASE subject = "manager" -> Manager!SweepComplete
      [] subject = "detector" -> Detector!CacheIsGenuine /\ Detector!BestToolChosen
      [] OTHER -> TRUE

(***************************************************************************)
(* A broker that is handed out is the call's own and serves its protocol,  *)
(* and a failed or stopped one leaves no container (Broker).               *)
(***************************************************************************)
BrokersAreOwn ==
    subject = "broker" => Brokers!EndpointIsOwn /\ Brokers!ReadyMeansServing /\ Brokers!NoLeak

(***************************************************************************)
(* Calls return: a host that hangs holds up the calls to no other host,    *)
(* and every Start of a broker returns, ready or with an error             *)
(* (ConnectionPool, Broker).                                               *)
(***************************************************************************)
CallsReturn ==
    /\ HungHostBlocksNoOther
    /\ subject = "broker" => Brokers!StartReturns
===============================================================================
