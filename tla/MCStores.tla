------------------------------ MODULE MCStores ------------------------------
(***************************************************************************)
(* The stores that share no state, checked side by side: subject says      *)
(* which one a behaviour is about, the others rest in their initial state. *)
(***************************************************************************)
EXTENDS Cache

CONSTANTS Names, Requests, Method, Target, Port, MaxPort, Failures, Absent,
          Volumes, VolumeCalls, Action, Volume, Where, Type, NoInfo

VARIABLES subject,
          alive, services, at, probed, persistMu, snapshot, file, corrupt, tempFiles, failures,
          latest, outcome, acked, wiped,
          mounts, state, step, target, prevState, todo, worked, attached, disturbed

Registry == INSTANCE ServiceRegistry
Manager == INSTANCE Volume

registryVars == <<alive, services, at, probed, persistMu, snapshot, file, corrupt, tempFiles, failures,
                  latest, outcome, acked, wiped>>
volumeVars == <<mounts, state, step, target, prevState, todo, worked, attached, disturbed>>
mcVars == <<vars, subject, registryVars, volumeVars>>

(* Two processes: a Get and a Refresh of one image in the first, a Verify  *)
(* and a Get of two images with its content in the second.                 *)
FetchProc == <<"p1", "p1", "p2", "p2">>
FetchImage == <<"a", "a", "a", "b">>
FetchOp == <<"get", "refresh", "verify", "get">>

RequestMethod == <<"register", "discover", "unregister", "updateHealth", "clear", "register">>
RequestTarget == <<"n1", "n2", "n1", "n2", "n1", "n1">>
RequestPort == <<1, 1, 1, 1, 1, 0>>

(* A filesystem v1 and an rsync volume v2 contend for one remote path. *)
VolumeAction == <<"mount", "mount", "unmount", "unmountAll", "sync", "sync">>
VolumeName == <<"v1", "v2", "v1", "v1", "v2", "v2">>
VolumePlace == [c \in VolumeCalls |-> "here"]
VolumeType == <<"sshfs", "rsync", "none", "none", "none", "none">>

MCInit == subject \in {"cache", "registry", "volume"} /\ Init /\ Registry!Init /\ Manager!Init

OfCache(A) == subject = "cache" /\ A /\ UNCHANGED <<subject, registryVars, volumeVars>>

MCNext ==
    \/ OfCache(Next)
    \/ subject = "registry" /\ Registry!Next /\ UNCHANGED <<vars, subject, volumeVars>>
    \/ subject = "volume" /\ Manager!Next /\ UNCHANGED <<vars, subject, registryVars>>

(* A transfer ends (the server, or the caller's context, ends it), and a   *)
(* call that can go on does.                                               *)
MCSpec == MCInit /\ [][MCNext]_mcVars /\ \A c \in Fetches : WF_mcVars(OfCache(Step(c)))

(***************************************************************************)
(* What is under a blob's path is a verified, flushed download, also after *)
(* a crash; what was condemned stays gone, and partial downloads belong to *)
(* a call in progress (Cache).                                             *)
(***************************************************************************)
BlobsVerified == subject = "cache" => BlobVerified /\ CondemnedStaysGone /\ TempsOwned

(***************************************************************************)
(* The registry's file is behind none of its answers: an acknowledged      *)
(* change survives a restart, a cleared service does not come back, no two *)
(* services have one port, and temp files are reaped (ServiceRegistry).    *)
(***************************************************************************)
RegistryDurable ==
    subject = "registry" => /\ Registry!AcknowledgedDurable /\ Registry!NoResurrection
                            /\ Registry!PortsUnique /\ Registry!TempsReaped

(***************************************************************************)
(* Every remote mount has an entry that can unmount it, no two entries     *)
(* share a remote path, and the calls on a volume exclude each other while *)
(* the lock is released for the remote command (Volume).                   *)
(***************************************************************************)
VolumesTracked ==
    subject = "volume" => Manager!LiveMountTracked /\ Manager!PlacesExclusive /\ Manager!ReservationHeld
=============================================================================
