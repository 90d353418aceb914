--------------------------- MODULE ServiceRegistry ----------------------------
(***************************************************************************)
(* pkg/serviceregistry's ServiceRegistry: Register, Unregister,            *)
(* UpdateHealth, Discover and Clear of one process, the file they persist  *)
(* to, and New, which loads it after a crash.                              *)
(*                                                                         *)
(* A call changes r.services under r.mu, then persists: it takes           *)
(* persistMu, marshals, writes a temp and renames it over services.json.   *)
(***************************************************************************)
EXTENDS Naturals, FiniteSets

CONSTANTS
    Names,     \* service names
    Requests,  \* calls, each made once
    Method,    \* Method[q]: register, discover, unregister, updateHealth or clear
    Target,    \* Target[q]: the name it is for
    Port,      \* Port[q]: the port Register is given, or Discover's first
    MaxPort,   \* the last port of Discover's range; above it ports are invalid
    Failures,  \* bound: persists that fail, crashes and corruptions
    Absent     \* no entry, no holder

VARIABLES
    alive,      \* the process runs
    services,   \* r.services: name -> [port, healthy], or Absent
    at,         \* where a call is
    probed,     \* probed[q]: the port Discover tries, or registers
    persistMu,  \* its holder
    snapshot,   \* the bytes the holder marshalled
    file,       \* services.json: a map like services
    corrupt,    \* its bytes do not parse
    tempFiles,  \* services-*.json.tmp
    failures,   \* failures so far
    latest,     \* history: latest[n], the last call that changed n in memory
    outcome,    \* history: outcome[q], what n was after call q changed it
    acked,      \* history: calls that returned no error
    wiped       \* history: names registered again before Clear removed the file

memory == <<services, probed>>
disk == <<file, corrupt, tempFiles>>
history == <<latest, outcome, acked, wiped>>
vars == <<alive, memory, at, persistMu, snapshot, disk, failures, history>>

Empty == [n \in Names |-> Absent]
Entry == [port : 1..MaxPort, healthy : BOOLEAN]

Listed(m) == {n \in Names : m[n] # Absent}

Init ==
    /\ alive = TRUE
    /\ services = Empty
    /\ at = [q \in Requests |-> "idle"]
    /\ probed = Port
    /\ persistMu = Absent
    /\ snapshot = Empty
    /\ file = Empty
    /\ corrupt = FALSE
    /\ tempFiles = {}
    /\ failures = 0
    /\ latest = [n \in Names |-> Absent]
    /\ outcome = [q \in Requests |-> Absent]
    /\ acked = {}
    /\ wiped = {}

Goto(q, label) == at' = [at EXCEPT ![q] = label]

(* Call q has changed entry n under r.mu; persist comes next. *)
Change(q, value) ==
    /\ services' = [services EXCEPT ![Target[q]] = value]
    /\ latest' = [latest EXCEPT ![Target[q]] = q]
    /\ outcome' = [outcome EXCEPT ![q] = value]
    /\ Goto(q, "persist")

Fail(q) == Goto(q, "returned") /\ UNCHANGED <<services, latest, outcome>>

(* Another service has the port: WithHost is not used, so on one host. *)
Claimed(q, port) ==
    \E n \in Listed(services) \ {Target[q]} : services[n].port = port

(* Register under r.mu. *)
Store(q, port) ==
    IF port \notin 1..MaxPort \/ Claimed(q, port)
    THEN Fail(q)
    ELSE Change(q, [port |-> port, healthy |-> TRUE])

Register(q) ==
    /\ alive
    /\ \/ at[q] = "idle" /\ Method[q] = "register"
       \/ at[q] = "store"
    /\ Store(q, probed[q])
    /\ UNCHANGED <<alive, probed, persistMu, snapshot, disk, failures, acked, wiped>>

Unregister(q) ==
    /\ alive
    /\ at[q] = "idle"
    /\ Method[q] = "unregister"
    /\ Change(q, Absent)
    /\ UNCHANGED <<alive, probed, persistMu, snapshot, disk, failures, acked, wiped>>

UpdateHealth(q) ==
    /\ alive
    /\ at[q] = "idle"
    /\ Method[q] = "updateHealth"
    /\ IF services[Target[q]] = Absent
       THEN Fail(q)
       ELSE Change(q, [services[Target[q]] EXCEPT !.healthy = FALSE])
    /\ UNCHANGED <<alive, probed, persistMu, snapshot, disk, failures, acked, wiped>>

(* Discover returns a known service, or goes on to try the ports. *)
Discover(q) ==
    /\ alive
    /\ at[q] = "idle"
    /\ Method[q] = "discover"
    /\ Goto(q, IF services[Target[q]] # Absent THEN "returned" ELSE "probe")
    /\ UNCHANGED <<alive, memory, persistMu, snapshot, disk, failures, history>>

(* checkPort: the port answers, or the next one is tried. *)
CheckPort(q) ==
    /\ at[q] = "probe"
    /\ \/ probed[q] <= MaxPort /\ Goto(q, "store") /\ UNCHANGED probed
       \/ probed[q] <= MaxPort /\ probed' = [probed EXCEPT ![q] = @ + 1] /\ UNCHANGED at
       \/ probed[q] > MaxPort /\ Goto(q, "returned") /\ UNCHANGED probed
    /\ UNCHANGED <<alive, services, persistMu, snapshot, disk, failures, history>>

(* persist takes persistMu, marshals the registry under r.mu.RLock and     *)
(* writes a temp file.                                                     *)
Persist(q) ==
    /\ at[q] = "persist"
    /\ persistMu = Absent
    /\ persistMu' = q
    /\ snapshot' = services
    /\ tempFiles' = tempFiles \cup {q}
    /\ Goto(q, "rename")
    /\ UNCHANGED <<alive, memory, file, corrupt, failures, history>>

PersistFailsSilently(q) ==
    /\ at[q] = "rename"
    /\ failures < Failures
    /\ failures' = failures + 1
    /\ tempFiles' = tempFiles \ {q}
    /\ persistMu' = Absent
    /\ Goto(q, "returned")
    /\ acked' = acked \cup {q}
    /\ UNCHANGED <<alive, memory, snapshot, file, corrupt, latest, outcome, wiped>>

(* MkdirAll, CreateTemp, Write, Close or Rename failed; the temp is        *)
(* removed and the call returns the error.                                 *)
PersistFails(q) ==
    /\ at[q] = "rename"
    /\ failures < Failures
    /\ failures' = failures + 1
    /\ tempFiles' = tempFiles \ {q}
    /\ persistMu' = Absent
    /\ Goto(q, "returned")
    /\ UNCHANGED <<alive, memory, snapshot, file, corrupt, history>>

Rename(q) ==
    /\ at[q] = "rename"
    /\ file' = snapshot
    /\ tempFiles' = tempFiles \ {q}
    /\ persistMu' = Absent
    /\ Goto(q, IF Method[q] = "discover" THEN "reread" ELSE "returned")
    /\ acked' = IF Method[q] = "discover" THEN acked ELSE acked \cup {q}
    /\ wiped' = {n \in wiped : latest[n] = Absent \/ snapshot[n] # outcome[latest[n]]}
    /\ UNCHANGED <<alive, memory, snapshot, corrupt, failures, latest, outcome>>

(* Discover reads back what it registered; it may be gone by now. *)
Reread(q) ==
    /\ at[q] = "reread"
    /\ acked' = IF services[Target[q]] = Absent THEN acked ELSE acked \cup {q}
    /\ Goto(q, "returned")
    /\ UNCHANGED <<alive, memory, persistMu, snapshot, disk, failures, latest, outcome, wiped>>

Clear(q) ==
    /\ alive
    /\ at[q] = "idle"
    /\ Method[q] = "clear"
    /\ services' = Empty
    /\ latest' = [n \in Names |-> Absent]
    /\ Goto(q, "remove")
    /\ UNCHANGED <<alive, probed, persistMu, snapshot, disk, failures, outcome, acked, wiped>>

(* Clear removes the file under persistMu. *)
ClearRemove(q) ==
    /\ at[q] = "remove"
    /\ persistMu = Absent
    /\ file' = Empty
    /\ wiped' = wiped \cup Listed(services)
    /\ Goto(q, "returned")
    /\ UNCHANGED <<alive, memory, persistMu, snapshot, corrupt, tempFiles, failures, latest, outcome, acked>>

Crash ==
    /\ alive
    /\ failures < Failures
    /\ failures' = failures + 1
    /\ alive' = FALSE
    /\ at' = [q \in Requests |-> IF at[q] = "idle" THEN "idle" ELSE "returned"]
    /\ persistMu' = Absent
    /\ services' = Empty
    /\ UNCHANGED <<probed, snapshot, disk, history>>

(* Something else damages the file while the process is down. *)
Damage ==
    /\ ~alive
    /\ failures < Failures
    /\ failures' = failures + 1
    /\ corrupt' = TRUE
    /\ latest' = [n \in Names |-> Absent]
    /\ UNCHANGED <<alive, memory, at, persistMu, snapshot, file, tempFiles, outcome, acked, wiped>>

(* New: loadFromDisk reaps the temps, and moves a corrupt file aside. *)
New ==
    /\ ~alive
    /\ alive' = TRUE
    /\ tempFiles' = {}
    /\ file' = IF corrupt THEN Empty ELSE file
    /\ services' = file'
    /\ corrupt' = FALSE
    /\ UNCHANGED <<probed, at, persistMu, snapshot, failures, history>>

Next ==
    \/ \E q \in Requests :
          \/ Register(q) \/ Unregister(q) \/ UpdateHealth(q) \/ Discover(q) \/ CheckPort(q)
          \/ Persist(q) \/ PersistFails(q) \/ Rename(q) \/ Reread(q)
          \/ Clear(q) \/ ClearRemove(q)
    \/ Crash \/ Damage \/ New

(***************************************************************************)
(* Properties                                                              *)
(***************************************************************************)

(* A Register, Discover, Unregister or UpdateHealth that returned no error *)
(* is on the disk until the entry is changed again: no older snapshot      *)
(* lands after it, no failed persist or crash undoes it.  A Clear that     *)
(* started before it and removes the file after it is set aside.           *)
AcknowledgedDurable ==
    \A n \in Names :
        latest[n] \in acked /\ n \notin wiped /\ ~corrupt => file[n] = outcome[latest[n]]

(* Cleared services do not come back: when nothing is under way a restart  *)
(* would load only what is registered.                                     *)
NoResurrection ==
    alive /\ failures = 0 /\ (\A q \in Requests : at[q] \in {"idle", "returned"})
        => Listed(file) \subseteq Listed(services)

(* No two services have the same port, in the registry and in every        *)
(* snapshot of it a restart may load, also when Discover registers what it *)
(* found a while ago.                                                      *)
PortsUnique ==
    \A m \in {services, file} : \A n1, n2 \in Listed(m) :
        m[n1].port = m[n2].port => n1 = n2

(* A temp file belongs to a persist under way or to a crash that the next  *)
(* New cleans up after.                                                    *)
TempsReaped == alive => \A q \in tempFiles : at[q] = "rename"
===============================================================================
