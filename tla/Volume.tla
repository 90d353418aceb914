------------------------------- MODULE Volume --------------------------------
(***************************************************************************)
(* pkg/volume's DefaultVolumeManager: Mount, Unmount, UnmountAll and Sync  *)
(* of remote volumes.  Each call reserves the entry by its State under     *)
(* m.mu, runs a remote command with no lock held, and writes the State     *)
(* again.  A MountInfo is named by the Mount call that made it.            *)
(***************************************************************************)
EXTENDS Naturals, FiniteSets

CONSTANTS
    Volumes,     \* mount names
    VolumeCalls, \* calls, each made once
    Action,      \* Action[c]: mount, unmount, unmountAll or sync
    Volume,      \* Volume[c]: the name it is for
    Where,       \* Where[c]: host and remote path of a Mount
    Type,        \* Type[c]: sshfs, nfs or rsync
    NoInfo

Infos == {c \in VolumeCalls : Action[c] = "mount"}
Places == {Where[c] : c \in Infos}

VARIABLES
    mounts,    \* m.mounts: name -> info
    state,     \* info.State
    step,      \* where a call is
    target,    \* the info it works on
    prevState, \* Unmount's prevState
    todo,      \* names UnmountAll has still to unmount
    worked,    \* worked[c]: its remote command reported success
    attached,  \* places with a filesystem mounted on the remote host
    disturbed  \* history: infos reserved by a call while another call had them

vars == <<mounts, state, step, target, prevState, todo, worked, attached, disturbed>>

Reserved == {"pending", "unmounting", "syncing"}
States == Reserved \cup {"none", "mounted", "failed"}

Init ==
    /\ mounts = [v \in Volumes |-> NoInfo]
    /\ state = [i \in Infos |-> "none"]
    /\ step = [c \in VolumeCalls |-> "idle"]
    /\ target = [c \in VolumeCalls |-> NoInfo]
    /\ prevState = [c \in VolumeCalls |-> "none"]
    /\ todo = [c \in VolumeCalls |-> {}]
    /\ worked = [c \in VolumeCalls |-> FALSE]
    /\ attached = {}
    /\ disturbed = {}

Goto(c, label) == step' = [step EXCEPT ![c] = label]

(* An Unmount of UnmountAll has returned: the next name's turn. *)
Return(c) == Goto(c, IF Action[c] = "unmountAll" THEN "next" ELSE "returned")

(* The call's local variables are gone. *)
Forget(c) ==
    /\ target' = [target EXCEPT ![c] = NoInfo]
    /\ prevState' = [prevState EXCEPT ![c] = "none"]
    /\ worked' = [worked EXCEPT ![c] = FALSE]

InUse(place) == \E v \in Volumes : mounts[v] # NoInfo /\ Where[mounts[v]] = place

(* Mount reserves the name and the place, both unused, in one lock hold. *)
Mount(c) ==
    /\ step[c] = "idle"
    /\ Action[c] = "mount"
    /\ \/ /\ mounts[Volume[c]] = NoInfo
          /\ ~InUse(Where[c])
          /\ mounts' = [mounts EXCEPT ![Volume[c]] = c]
          /\ state' = [state EXCEPT ![c] = "pending"]
          /\ target' = [target EXCEPT ![c] = c]
          /\ Goto(c, "host")
       \/ /\ mounts[Volume[c]] # NoInfo \/ InUse(Where[c])
          /\ Return(c)
          /\ UNCHANGED <<mounts, state, target>>
    /\ UNCHANGED <<prevState, todo, worked, attached, disturbed>>

(* GetHost finds the host. *)
HostFound(c) ==
    /\ step[c] = "host"
    /\ Goto(c, IF Action[c] = "sync" THEN "reserve" ELSE "remote")
    /\ UNCHANGED <<mounts, state, target, prevState, todo, worked, attached, disturbed>>

(* GetHost does not: Mount's unreserve and Unmount's restore. *)
HostMissing(c) ==
    LET i == target[c]
        ours == mounts[Volume[i]] = i
    IN /\ step[c] = "host"
       /\ mounts' = IF Action[c] = "mount" /\ ours
                    THEN [mounts EXCEPT ![Volume[i]] = NoInfo] ELSE mounts
       /\ state' = IF Action[c] \in {"unmount", "unmountAll"} /\ ours
                   THEN [state EXCEPT ![i] = prevState[c]] ELSE state
       /\ Return(c)
       /\ Forget(c)
       /\ UNCHANGED <<todo, attached, disturbed>>

(* Unmount finds the entry and reserves it, unless another Unmount has it. *)
ReserveUnmount(c, i) ==
    IF state[i] = "unmounting"
    THEN Return(c) /\ UNCHANGED <<state, target, prevState, disturbed>>
    ELSE /\ prevState' = [prevState EXCEPT ![c] = state[i]]
         /\ state' = [state EXCEPT ![i] = "unmounting"]
         /\ target' = [target EXCEPT ![c] = i]
         /\ disturbed' = IF state[i] \in Reserved THEN disturbed \cup {i} ELSE disturbed
         /\ Goto(c, "host")

UnmountName(c, v) ==
    IF mounts[v] = NoInfo
    THEN Return(c) /\ UNCHANGED <<state, target, prevState, disturbed>>
    ELSE ReserveUnmount(c, mounts[v])

Unmount(c) ==
    /\ step[c] = "idle"
    /\ Action[c] = "unmount"
    /\ UnmountName(c, Volume[c])
    /\ UNCHANGED <<mounts, todo, worked, attached>>

(* UnmountAll lists the names, then unmounts one after the other. *)
UnmountAll(c) ==
    /\ step[c] = "idle"
    /\ Action[c] = "unmountAll"
    /\ todo' = [todo EXCEPT ![c] = {v \in Volumes : mounts[v] # NoInfo}]
    /\ Goto(c, "next")
    /\ UNCHANGED <<mounts, state, target, prevState, worked, attached, disturbed>>

UnmountNext(c) ==
    /\ step[c] = "next"
    /\ \/ \E v \in todo[c] :
             UnmountName(c, v) /\ todo' = [todo EXCEPT ![c] = @ \ {v}]
       \/ /\ todo[c] = {}
          /\ Goto(c, "returned")
          /\ UNCHANGED <<state, target, prevState, todo, disturbed>>
    /\ UNCHANGED <<mounts, worked, attached>>

(* Sync looks the entry up; only an rsync volume can be synced. *)
Sync(c) ==
    LET i == mounts[Volume[c]]
    IN /\ step[c] = "idle"
       /\ Action[c] = "sync"
       /\ IF i # NoInfo /\ Type[i] = "rsync"
          THEN Goto(c, "host") /\ target' = [target EXCEPT ![c] = i]
          ELSE Return(c) /\ UNCHANGED target
       /\ UNCHANGED <<mounts, state, prevState, todo, worked, attached, disturbed>>

(* Sync reserves the info it found, unless another Sync has it. *)
ReserveSync(c) ==
    LET i == target[c]
    IN /\ step[c] = "reserve"
       /\ IF state[i] = "syncing"
          THEN Return(c) /\ Forget(c) /\ UNCHANGED <<state, disturbed>>
          ELSE /\ state' = [state EXCEPT ![i] = "syncing"]
               /\ disturbed' = IF state[i] \in Reserved THEN disturbed \cup {i} ELSE disturbed
               /\ Goto(c, "remote")
               /\ UNCHANGED <<target, prevState, worked>>
       /\ UNCHANGED <<mounts, todo, attached>>

(* The mkdir, sshfs, mount or rsync commands of a Mount or a Sync.  One    *)
(* that times out may have mounted all the same.                           *)
RemoteMount(c, ok, effect) ==
    /\ step[c] = "remote"
    /\ Action[c] \in {"mount", "sync"}
    /\ ok => effect
    /\ attached' = IF effect /\ Type[target[c]] # "rsync"
                   THEN attached \cup {Where[target[c]]} ELSE attached
    /\ worked' = [worked EXCEPT ![c] = ok]
    /\ Goto(c, "settle")
    /\ UNCHANGED <<mounts, state, target, prevState, todo, disturbed>>

(* fusermount -u or umount, which fail where nothing is mounted; an rsync  *)
(* volume cannot be unmounted.                                             *)
RemoteUnmount(c, ok, effect) ==
    LET place == Where[target[c]]
    IN /\ step[c] = "remote"
       /\ Action[c] \in {"unmount", "unmountAll"}
       /\ ok => effect
       /\ effect => Type[target[c]] # "rsync" /\ place \in attached
       /\ attached' = IF effect THEN attached \ {place} ELSE attached
       /\ worked' = [worked EXCEPT ![c] = ok]
       /\ Goto(c, "settle")
       /\ UNCHANGED <<mounts, state, target, prevState, todo, disturbed>>

SettleDrops(c) ==
    LET i == target[c]
        unmount == Action[c] \in {"unmount", "unmountAll"}
    IN /\ step[c] = "settle"
       /\ mounts' = IF unmount THEN [mounts EXCEPT ![Volume[i]] = NoInfo] ELSE mounts
       /\ state' = IF worked[c] /\ unmount THEN state
                   ELSE [state EXCEPT ![i] = IF worked[c] THEN "mounted" ELSE "failed"]
       /\ Return(c)
       /\ Forget(c)
       /\ UNCHANGED <<todo, attached, disturbed>>

(* The result is written: Unmount deletes the entry of the name, or all    *)
(* three write the info's State.                                           *)
Settle(c) ==
    LET i == target[c]
        unmounted == Action[c] \in {"unmount", "unmountAll"} /\ worked[c]
    IN /\ step[c] = "settle"
       /\ mounts' = IF unmounted THEN [mounts EXCEPT ![Volume[i]] = NoInfo] ELSE mounts
       /\ state' = IF unmounted THEN state
                   ELSE [state EXCEPT ![i] = IF worked[c] THEN "mounted" ELSE "failed"]
       /\ Return(c)
       /\ Forget(c)
       /\ UNCHANGED <<todo, attached, disturbed>>

Next ==
    \E c \in VolumeCalls :
        \/ Mount(c) \/ Unmount(c) \/ UnmountAll(c) \/ UnmountNext(c) \/ Sync(c)
        \/ HostFound(c) \/ HostMissing(c) \/ ReserveSync(c) \/ Settle(c)
        \/ \E ok, effect \in BOOLEAN : RemoteMount(c, ok, effect) \/ RemoteUnmount(c, ok, effect)

(***************************************************************************)
(* Properties                                                              *)
(***************************************************************************)

(* A filesystem mounted on a remote host has an entry in the manager,      *)
(* whatever mounts, unmounts and timeouts overlap: UnmountAll reaches it.  *)
LiveMountTracked == \A place \in attached : InUse(place)

(* Two entries never share a host and remote path. *)
PlacesExclusive ==
    \A v1, v2 \in Volumes :
        mounts[v1] # NoInfo /\ mounts[v2] # NoInfo /\ Where[mounts[v1]] = Where[mounts[v2]]
            => v1 = v2

InFlight(i) == {c \in VolumeCalls : target[c] = i /\ step[c] \in {"host", "remote", "settle"}
                                     /\ (Action[c] = "sync" => step[c] # "host")}

(* The reservation works between calls of one kind: at most one call runs  *)
(* remote commands for a volume, and a reserved State has a call that will *)
(* replace it.  A call of another kind (an Unmount of a volume that is     *)
(* being mounted or synced, a Sync of one being mounted or unmounted)      *)
(* overrides the reservation; those volumes are set aside.                 *)
ReservationHeld ==
    \A i \in Infos \ disturbed :
        /\ Cardinality(InFlight(i)) <= 1
        /\ mounts[Volume[i]] = i /\ state[i] \in Reserved => InFlight(i) # {}
===============================================================================
