---------------------------- MODULE Containerized ----------------------------
(***************************************************************************)
(* The containerised Android emulator under the matrix runner              *)
(* (pkg/emulator/containerized.go, avdresolve.go, matrix.go).  A           *)
(* Containerized instance remembers one container name, one host port and  *)
(* one directory holding the image's private adb key.  A runner built with *)
(* a factory gives every row its own instance; a runner built without one  *)
(* shares a single instance and is only run serially.                      *)
(*                                                                         *)
(* Container names carry a timestamp, so the name of row r's container is  *)
(* r.  The runtime removes a container that exits (--rm).  The commands    *)
(* pass context.Background(), so no caller cancels.                        *)
(***************************************************************************)
EXTENDS Integers, FiniteSets, Sequences

CONSTANTS
    N,        \* rows of the matrix
    MaxPort,  \* host ports the kernel may hand out
    Requests, \* row -> [name, api]: the AVD asked for, api 0 when unknown
    Bakeds    \* listings an image may answer with, sequences of [name, api]

Rows == 1..N
Ports == 1..(MaxPort + 1)
None == 0
Failed == N + 1

VARIABLES
    factory, cursor,
    stage,   \* where each row's runOne is
    name, hostPort, keyDir,  \* the fields of the instances
    port,    \* BootResult.ADBPort of each row
    avdName, \* the AVD name passed to the container
    listing, \* history: what the image listed, for the row
    ctr,     \* each row's container: "none", "up", "exited", "removed"
    bound,   \* the host port each container publishes
    keys,    \* rows whose key directory exists on the host
    conn,    \* ports the adb server is connected to
    verdict, \* Failed, or the row whose container the tests passed on
    rmFailed \* history: rows whose `rm -f' failed

vars == <<factory, cursor, stage, name, hostPort, keyDir, port, avdName, listing,
          ctr, bound, keys, conn, verdict, rmFailed>>
instance == <<name, hostPort, keyDir>>
container == <<ctr, bound>>
chosen == <<avdName, listing>>
outcome == <<verdict, rmFailed>>

Init ==
    /\ factory \in BOOLEAN
    /\ cursor = 1
    /\ stage = [r \in Rows |-> "queued"]
    /\ name = [i \in Rows |-> None]
    /\ hostPort = [i \in Rows |-> None]
    /\ keyDir = [i \in Rows |-> None]
    /\ port = [r \in Rows |-> None]
    /\ avdName = [r \in Rows |-> ""]
    /\ listing = [r \in Rows |-> <<>>]
    /\ ctr = [r \in Rows |-> "none"]
    /\ bound = [r \in Rows |-> None]
    /\ keys = {} /\ conn = {}
    /\ verdict = [r \in Rows |-> None]
    /\ rmFailed = {}

Go(r, from, to) == stage[r] = from /\ stage' = [stage EXCEPT ![r] = to]
Up(r) == ctr[r] = "up"
InUse == {bound[q] : q \in {q \in Rows : Up(q)}}
OnPort(p) == {q \in Rows : Up(q) /\ bound[q] = p}

emulatorForInvocation(r) == IF factory THEN r ELSE 1

Take ==
    /\ cursor <= N
    /\ factory \/ \A r \in Rows : stage[r] \in {"queued", "done"}
    /\ Go(cursor, "queued", "pick")
    /\ cursor' = cursor + 1
    /\ UNCHANGED <<factory, instance, port, chosen, container, keys, conn, outcome>>

(***************************************************************************)
(* Boot.  pickFreeTCPPort probes a port, closes it, and moves an even one  *)
(* up to the next without probing that.  The name and the port are stored  *)
(* before anything can fail.                                               *)
(***************************************************************************)
pickFreeTCPPort(p) == p \notin InUse

Pick(r) ==
    /\ Go(r, "pick", "resolve")
    /\ \E p \in 1..MaxPort :
         /\ pickFreeTCPPort(p)
         /\ port' = [port EXCEPT ![r] = IF p % 2 = 0 THEN p + 1 ELSE p]
         /\ hostPort' = [hostPort EXCEPT ![emulatorForInvocation(r)] = port'[r]]
    /\ name' = [name EXCEPT ![emulatorForInvocation(r)] = r]
    /\ UNCHANGED <<factory, cursor, keyDir, chosen, container, keys, conn, outcome>>

\* The name to boot: an exact match, else a baked AVD of the api level, else
\* none; an image that lists nothing gets the requested name.
Matches(s, want) == SelectSeq(s, LAMBDA b : want.api > 0 /\ b.api = want.api)

resolveAVDName(s, want) ==
    CASE s = <<>> \/ (\E i \in DOMAIN s : s[i].name = want.name) -> want.name
      [] OTHER -> IF Matches(s, want) = <<>> THEN "" ELSE Matches(s, want)[1].name

\* A failed Boot returns the row at once, without Teardown.
Return(r, from) ==
    /\ Go(r, from, "done")
    /\ verdict' = [verdict EXCEPT ![r] = Failed]
    /\ UNCHANGED rmFailed

PickFails(r) ==
    /\ Return(r, "pick")
    /\ UNCHANGED <<factory, cursor, instance, port, chosen, container, keys, conn>>

\* An image reference with the {api} placeholder needs an api level.
resolveImageForAVD(r) ==
    /\ Requests[r].api = 0
    /\ Return(r, "resolve")
    /\ UNCHANGED <<factory, cursor, instance, port, chosen, container, keys, conn>>

Resolve(r) ==
    /\ \E s \in Bakeds \cup {<<>>} :
         LET found == resolveAVDName(s, Requests[r]) IN
         /\ listing' = [listing EXCEPT ![r] = s]
         /\ avdName' = [avdName EXCEPT ![r] = found]
         /\ \/ found # "" /\ Go(r, "resolve", "run") /\ UNCHANGED outcome
            \/ found = "" /\ Return(r, "resolve")
    /\ UNCHANGED <<factory, cursor, instance, port, container, keys, conn>>

Run(r) ==
    /\ \/ /\ port[r] \notin InUse
          /\ Go(r, "run", "authorize")
          /\ ctr' = [ctr EXCEPT ![r] = "up"]
          /\ bound' = [bound EXCEPT ![r] = port[r]]
          /\ UNCHANGED outcome
       \/ Return(r, "run") /\ UNCHANGED container
    /\ UNCHANGED <<factory, cursor, instance, port, chosen, keys, conn>>

(***************************************************************************)
(* WaitForBoot: authorizeADB makes the key directory, copies the key and   *)
(* restarts the adb server (best effort after the directory), one connect, *)
(* then the poll: the container must be running and answer.                *)
(***************************************************************************)
authorizeADB(r) ==
    /\ Go(r, "authorize", "connect")
    /\ \/ /\ keyDir' = [keyDir EXCEPT ![emulatorForInvocation(r)] = r]
          /\ keys' = keys \cup {r}
          /\ conn' \in {conn, {}}      \* cp failed, or the server restarted
       \/ UNCHANGED <<keyDir, keys, conn>>        \* MkdirTemp failed
    /\ UNCHANGED <<factory, cursor, name, hostPort, port, chosen, container, outcome>>

GiveUp(r, from, v) ==
    /\ Go(r, from, "down")
    /\ verdict' = [verdict EXCEPT ![r] = v]
    /\ UNCHANGED rmFailed

Connect(r) ==
    /\ \/ OnPort(port[r]) # {} /\ Go(r, "connect", "poll") /\ conn' = conn \cup {port[r]}
          /\ UNCHANGED outcome
       \/ GiveUp(r, "connect", Failed) /\ UNCHANGED conn
    /\ UNCHANGED <<factory, cursor, instance, port, chosen, container, keys>>

Poll(r) ==
    /\ \/ /\ name[emulatorForInvocation(r)] # None =>
                ctr[name[emulatorForInvocation(r)]] = "up"
          /\ port[r] \in conn /\ OnPort(port[r]) # {}
          /\ Go(r, "poll", "test") /\ UNCHANGED outcome
       \/ GiveUp(r, "poll", Failed)      \* exited, or the timeout
    /\ UNCHANGED <<factory, cursor, instance, port, chosen, container, keys, conn>>

(***************************************************************************)
(* Install and the instrumentation run against localhost:<port>.           *)
(***************************************************************************)

Test(r) ==
    /\ \/ port[r] \in conn /\ \E q \in OnPort(port[r]) : GiveUp(r, "test", q)
       \/ GiveUp(r, "test", Failed)
    /\ UNCHANGED <<factory, cursor, instance, port, chosen, container, keys, conn>>

(***************************************************************************)
(* Teardown: `rm -f' of the remembered container; the fields are cleared   *)
(* and the key directory removed on every path.                            *)
(***************************************************************************)
Remove(r, i) ==
    \/ /\ name[i] # None
       /\ ctr' = [ctr EXCEPT ![name[i]] = IF @ = "up" THEN "removed" ELSE @]
       /\ UNCHANGED rmFailed
    \/ name[i] # None /\ rmFailed' = rmFailed \cup {r} /\ UNCHANGED ctr
    \/ name[i] = None /\ UNCHANGED <<ctr, rmFailed>>

TeardownByPrefix(r) ==
    LET i == emulatorForInvocation(r) IN
    /\ Go(r, "down", "done")
    /\ ctr' = [q \in Rows |-> IF Up(q) THEN "removed" ELSE ctr[q]]
    /\ name' = [name EXCEPT ![i] = None]
    /\ hostPort' = [hostPort EXCEPT ![i] = None]
    /\ keys' = keys \ {keyDir[i]}
    /\ keyDir' = [keyDir EXCEPT ![i] = None]
    /\ UNCHANGED <<factory, cursor, port, chosen, bound, conn, outcome>>

Teardown(r) ==
    LET i == emulatorForInvocation(r) IN
    /\ Go(r, "down", "done")
    /\ Remove(r, i)
    /\ name' = [name EXCEPT ![i] = None]
    /\ hostPort' = [hostPort EXCEPT ![i] = None]
    /\ keys' = keys \ {keyDir[i]}
    /\ keyDir' = [keyDir EXCEPT ![i] = None]
    /\ UNCHANGED <<factory, cursor, port, chosen, bound, conn, verdict>>

\* The emulator in the container dies; --rm frees the name and the port.
Exits(r) ==
    /\ Up(r)
    /\ ctr' = [ctr EXCEPT ![r] = "exited"]
    /\ UNCHANGED <<factory, cursor, stage, instance, port, chosen, bound, keys, conn, outcome>>

Step(r) ==
    \/ Pick(r) \/ PickFails(r) \/ resolveImageForAVD(r) \/ Resolve(r) \/ Run(r)
    \/ authorizeADB(r) \/ Connect(r) \/ Poll(r) \/ Test(r) \/ Teardown(r)

Next == Take \/ \E r \in Rows : Step(r) \/ Exits(r)

Spec == Init /\ [][Next]_vars

-----------------------------------------------------------------------------

(***************************************************************************)
(* A running container is removed by the teardown of its own row only: the *)
(* cross-container teardown EMU-2 of matrix.go describes cannot happen.    *)
(***************************************************************************)
OnlyOwnRemoved ==
    \A q \in Rows : ctr[q] = "up" /\ ctr'[q] = "removed"
                          => stage[q] = "down" /\ stage'[q] = "done"

(***************************************************************************)
(* A finished row leaves no container behind unless `rm -f' itself failed, *)
(* whichever step gave up.                                                 *)
(***************************************************************************)
NoContainerLeft == \A r \in Rows : stage[r] = "done" /\ Up(r) => r \in rmFailed

(***************************************************************************)
(* "no copy of private key material survives past Teardown" (EMU-4): a     *)
(* finished row's key directory is gone, the failed `rm -f' included.      *)
(***************************************************************************)
KeysReaped == \A r \in keys : stage[r] # "done"

(***************************************************************************)
(* A row passes only on its own container, as long as that container did   *)
(* not exit under it (its port may then be published by another one).      *)
(***************************************************************************)
PassesOnItsOwn ==
    \A r \in Rows : verdict[r] \in {None, Failed, r} \/ ctr[r] = "exited"

(***************************************************************************)
(* A container is started with the requested AVD name or with a baked AVD  *)
(* of the requested api level: a row never silently boots another api.     *)
(***************************************************************************)
BootsWhatWasAsked ==
    \A r \in Rows : ctr[r] # "none" /\ avdName[r] # Requests[r].name =>
        \E i \in DOMAIN listing[r] : /\ listing[r][i].name = avdName[r]
                                     /\ Requests[r].api > 0
                                     /\ listing[r][i].api = Requests[r].api
=============================================================================
