---------------------------- MODULE ConnectionPool ----------------------------
(***************************************************************************)
(* pkg/remote's ConnectionPool and the SSHExecutor calls that use it:      *)
(* Execute, ExecuteStream with its streamReader, CopyFile and CopyDir.     *)
(*                                                                         *)
(* A call acquires the ControlMaster of its host, runs its command and     *)
(* releases.  p.mu is never held across a dial, so every hold of it is one *)
(* step; the dial itself is two, with the per-host lock held around them.  *)
(* A master is named by the call that dialled it.  A master that exits     *)
(* takes its control socket with it.                                       *)
(***************************************************************************)
EXTENDS Naturals, FiniteSets

CONSTANTS
    Hosts,    \* hostKey values, user@address:port
    Calls,    \* calls of the executor, each made once
    Op,       \* Op[c]: the method that is called
    None,     \* no call, no master
    Refused,  \* hosts whose destination sshDestination refuses
    Hung      \* hosts whose dial may never return (ConnectTimeout = 0)

ASSUME ConnectionPoolAssumption ==
    /\ None \notin Calls
    /\ Hosts # {}
    /\ IsFiniteSet(Calls)
    /\ Op \in [Calls -> {"execute", "stream", "copy"}]
    /\ Refused \subseteq Hosts
    /\ Hung \subseteq Hosts

VARIABLES
    host,      \* the host it is called for
    pc,        \* where the call is
    held,      \* the master whose refs the call's Acquire counted
    pooled,    \* p.active: the master of the host's entry
    refs,      \* entry.refs
    dialLock,  \* holders of p.dialLocks
    socket,    \* the file at controlSocketPath: the master listening on it
    masters,   \* ssh -fNM processes alive
    abandoned, \* masters that did not answer closeEntry's -O exit
    foreign    \* history: masters whose refs a call dropped that had not counted there

callVars == <<host, pc, held>>
poolVars == <<pooled, refs, dialLock>>
sshVars == <<socket, masters, abandoned>>
vars == <<callVars, poolVars, sshVars, foreign>>

(* The types of the state; refs, an int, never goes below zero, whoever    *)
(* calls Release (Release's floor).                                        *)
TypeOK ==
    /\ host \in [Calls -> Hosts]
    /\ pc \in [Calls -> {"idle", "acquire", "wait", "recheck", "dial", "insert", "command", "done"}]
    /\ held \in [Calls -> Calls \cup {None}]
    /\ pooled \in [Hosts -> Calls \cup {None}]
    /\ refs \in [Hosts -> Nat]
    /\ dialLock \in [Hosts -> Calls \cup {None}]
    /\ socket \in [Hosts -> Calls \cup {None}]
    /\ masters \subseteq Calls
    /\ abandoned \subseteq Calls
    /\ foreign \subseteq Calls

Init ==
    /\ host = [c \in Calls |-> CHOOSE h \in Hosts : TRUE]
    /\ pc = [c \in Calls |-> "idle"]
    /\ held = [c \in Calls |-> None]
    /\ pooled = [h \in Hosts |-> None]
    /\ refs = [h \in Hosts |-> 0]
    /\ dialLock = [h \in Hosts |-> None]
    /\ socket = [h \in Hosts |-> None]
    /\ masters = {}
    /\ abandoned = {}
    /\ foreign = {}

(* Execute, ExecuteStream, CopyFile or CopyDir is called; sshArgs and      *)
(* scpArgs call Acquire.                                                   *)
Call(c, h) ==
    /\ pc[c] = "idle"
    /\ host' = [host EXCEPT ![c] = h]
    /\ pc' = [pc EXCEPT ![c] = "acquire"]
    /\ UNCHANGED <<held, poolVars, sshVars, foreign>>

(* Mutant: one dial lock for all hosts. *)
DialLockShared(h) == CHOOSE x \in Hosts : TRUE

(* The mutex dialLockLocked returns for a host. *)
DialLock(h) == h

(* The entry can be reused: its control socket still exists. *)
Reusable(h) == pooled[h] # None /\ socket[h] # None

Reuse(c) ==
    /\ refs' = [refs EXCEPT ![host[c]] = @ + 1]
    /\ held' = [held EXCEPT ![c] = pooled[host[c]]]
    /\ pc' = [pc EXCEPT ![c] = "command"]
    /\ UNCHANGED pooled

Evict(h) ==
    /\ pooled' = [pooled EXCEPT ![h] = None]
    /\ refs' = [refs EXCEPT ![h] = 0]

(* Acquire's fast path: reuse the entry, or evict a stale one and queue    *)
(* for the host's dial lock.                                               *)
AcquireFast(c) ==
    /\ pc[c] = "acquire"
    /\ \/ Reusable(host[c]) /\ Reuse(c)
       \/ /\ ~Reusable(host[c])
          /\ Evict(host[c])
          /\ pc' = [pc EXCEPT ![c] = "wait"]
          /\ UNCHANGED held
    /\ UNCHANGED <<host, dialLock, sshVars, foreign>>

LockDial(c) ==
    /\ pc[c] = "wait"
    /\ dialLock[DialLock(host[c])] = None
    /\ dialLock' = [dialLock EXCEPT ![DialLock(host[c])] = c]
    /\ pc' = [pc EXCEPT ![c] = "recheck"]
    /\ UNCHANGED <<host, held, pooled, refs, sshVars, foreign>>

UnlockDial(c) == dialLock' = [dialLock EXCEPT ![DialLock(host[c])] = None]

(* Acquire returned an error: the caller goes on without the pool.  A      *)
(* refused destination ends sshArgs before the Release is deferred; in a   *)
(* copy it is found later, with the Release pending.                       *)
FallBack(c) ==
    pc' = [pc EXCEPT ![c] = IF host[c] \in Refused /\ Op[c] # "copy" THEN "done" ELSE "command"]

(* The second check, under the dial lock, then masterArgs. *)
Recheck(c) ==
    /\ pc[c] = "recheck"
    /\ \/ Reusable(host[c]) /\ Reuse(c) /\ UnlockDial(c)
       \/ /\ ~Reusable(host[c])
          /\ Evict(host[c])
          /\ UNCHANGED held
          /\ \/ host[c] \in Refused /\ FallBack(c) /\ UnlockDial(c)
             \/ /\ host[c] \notin Refused
                /\ pc' = [pc EXCEPT ![c] = "dial"]
                /\ UNCHANGED dialLock
    /\ UNCHANGED <<host, sshVars, foreign>>

(* ssh -fNM has forked into the background.  Over an existing socket it    *)
(* runs without multiplexing and leaves the socket as it is.               *)
DialOk(c) ==
    /\ pc[c] = "dial"
    /\ masters' = masters \cup {c}
    /\ socket' = [socket EXCEPT ![host[c]] = IF @ = None THEN c ELSE @]
    /\ pc' = [pc EXCEPT ![c] = "insert"]
    /\ UNCHANGED <<host, held, poolVars, abandoned, foreign>>

(* The dial failed or ConnectTimeout or the caller's context ended it. *)
DialFails(c) ==
    /\ pc[c] = "dial"
    /\ FallBack(c)
    /\ UnlockDial(c)
    /\ UNCHANGED <<host, held, pooled, refs, sshVars, foreign>>

Insert(c) ==
    /\ pc[c] = "insert"
    /\ pooled' = [pooled EXCEPT ![host[c]] = c]
    /\ refs' = [refs EXCEPT ![host[c]] = 1]
    /\ held' = [held EXCEPT ![c] = c]
    /\ UnlockDial(c)
    /\ pc' = [pc EXCEPT ![c] = "command"]
    /\ UNCHANGED <<host, sshVars, foreign>>

Release(c) ==
    LET h == host[c]
    IN IF pooled[h] # None /\ refs[h] > 0
       THEN /\ refs' = [refs EXCEPT ![h] = @ - 1]
            /\ foreign' = IF held[c] = pooled[h] THEN foreign ELSE foreign \cup {pooled[h]}
       ELSE UNCHANGED <<refs, foreign>>

(* The command or the transfer ended: the deferred Release. *)
Finish(c) ==
    /\ pc[c] = "command"
    /\ Op[c] # "stream"
    /\ Release(c)
    /\ pc' = [pc EXCEPT ![c] = "done"]
    /\ UNCHANGED <<host, held, pooled, dialLock, sshVars>>

(* Mutant: every Close of the reader releases. *)
CloseStreamEachTime(c) ==
    /\ pc[c] \in {"command", "done"}
    /\ Op[c] = "stream"
    /\ Release(c)
    /\ pc' = [pc EXCEPT ![c] = "done"]
    /\ UNCHANGED <<host, held, pooled, dialLock, sshVars>>

(* ExecuteStream failed to start its command, or the caller closes the     *)
(* reader; closeOnce makes later Close calls do nothing.                   *)
CloseStream(c) ==
    /\ pc[c] = "command"
    /\ Op[c] = "stream"
    /\ Release(c)
    /\ pc' = [pc EXCEPT ![c] = "done"]
    /\ UNCHANGED <<host, held, pooled, dialLock, sshVars>>

(* closeEntry on a set of hosts: ssh -O exit, which the masters in stay do *)
(* not answer within 5 s, and the removal of the socket.                   *)
CloseEntries(hs, stay) ==
    /\ masters' = masters \ ({pooled[h] : h \in hs} \ stay)
    /\ abandoned' = abandoned \cup stay
    /\ socket' = [h \in Hosts |-> IF h \in hs THEN None ELSE socket[h]]
    /\ pooled' = [h \in Hosts |-> IF h \in hs THEN None ELSE pooled[h]]
    /\ refs' = [h \in Hosts |-> IF h \in hs THEN 0 ELSE refs[h]]
    /\ UNCHANGED <<callVars, dialLock, foreign>>

Live(hs) == {pooled[h] : h \in hs} \cap masters

(* Mutant: the entry is dropped and its master not asked to exit. *)
CloseHostForgets(h) ==
    /\ pooled[h] # None
    /\ Evict(h)
    /\ UNCHANGED <<callVars, dialLock, sshVars, foreign>>

CloseHost(h) ==
    /\ pooled[h] # None
    /\ \E stay \in SUBSET Live({h}) : CloseEntries({h}, stay)

Close ==
    LET active == {h \in Hosts : pooled[h] # None}
    IN /\ active # {}
       /\ \E stay \in SUBSET Live(active) : CloseEntries(active, stay)

(* ControlPersist expires, the keep-alive gives up, the process is killed. *)
MasterDies(m) ==
    /\ m \in masters
    /\ masters' = masters \ {m}
    /\ socket' = [h \in Hosts |-> IF socket[h] = m THEN None ELSE socket[h]]
    /\ UNCHANGED <<callVars, poolVars, abandoned, foreign>>

Step(c) ==
    \/ AcquireFast(c) \/ LockDial(c) \/ Recheck(c) \/ Insert(c)
    \/ Finish(c) \/ CloseStream(c)

Next ==
    \/ \E c \in Calls :
          \/ \E h \in Hosts : Call(c, h)
          \/ Step(c)
          \/ DialOk(c)
          \/ DialFails(c)
    \/ \E h \in Hosts : CloseHost(h)
    \/ Close
    \/ \E m \in Calls : MasterDies(m)

Spec == Init /\ [][Next]_vars

(***************************************************************************)
(* Properties                                                              *)
(***************************************************************************)
Holders(m) == {c \in Calls : pc[c] = "command" /\ held[c] = m}

(* An entry's refs never exceed the calls between their Acquire and their  *)
(* Release, on any exit of Execute, ExecuteStream, CopyFile and CopyDir,   *)
(* and equal them unless a call released that had not counted on this      *)
(* entry: one whose Acquire failed, or that acquired an entry since        *)
(* replaced (Release has no token to tell).                                *)
RefsCountHolders ==
    \A h \in Hosts : pooled[h] # None =>
        /\ refs[h] <= Cardinality(Holders(pooled[h]))
        /\ pooled[h] \notin foreign => refs[h] = Cardinality(Holders(pooled[h]))

(* No ControlMaster process is out of the pool's reach: it is in p.active, *)
(* about to be inserted by the Acquire that dialled it, or did not answer  *)
(* the -O exit of Close or CloseHost.                                      *)
MastersTracked ==
    \A m \in masters : pooled[host[m]] = m \/ pc[m] = "insert" \/ m \in abandoned

(* Two goroutines never race two ControlMasters onto one socket path: a    *)
(* dial starts, and goes on, only while no socket is there.                *)
DialPathFree == \A c \in Calls : pc[c] = "dial" => socket[host[c]] = None

(* A host whose dial hangs holds up no call for another host: every call   *)
(* for a host that answers gets through Acquire and returns.               *)
HungHostBlocksNoOther ==
    \A c \in Calls : (pc[c] = "acquire" /\ host[c] \notin Hung) ~> (pc[c] = "done")
===============================================================================
