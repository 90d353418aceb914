-------------------------------- MODULE Cache ---------------------------------
(***************************************************************************)
(* pkg/cache's FilesystemStore for one content address: Get, Verify and    *)
(* Refresh of the images whose manifest entries declare one SHA-256, by    *)
(* processes that share the cache directory.                               *)
(*                                                                         *)
(* A file is named by the call that downloads it.  The rename of a file to *)
(* the blob path is visible at once, but survives a power loss only after  *)
(* the directory has been flushed; until then recovery may find any of the *)
(* entries in durable.  A file's bytes survive only if it was flushed.     *)
(***************************************************************************)
EXTENDS Naturals, FiniteSets

CONSTANTS
    Procs,      \* processes with a store on the cache root
    Fetches,    \* calls, each made once
    Proc,       \* Proc[c]: the process that makes the call
    Image,      \* Image[c]: the image it is for
    Op,         \* Op[c]: get, refresh or verify
    MaxCrashes, \* bound: processes killed, and power losses
    Nobody      \* no file, no holder

Images == {Image[c] : c \in Fetches}

ASSUME CacheAssumption ==
    /\ Nobody \notin Fetches
    /\ Proc \in [Fetches -> Procs]
    /\ Op \in [Fetches -> {"get", "refresh", "verify"}]

VARIABLES
    up,          \* processes running
    pc,          \* where a call is
    keymu,       \* keymu[p][i]: holder of s.keymus[i] in process p
    flock,       \* holder of the flock on lockPath(sha)
    temps,       \* incoming-* files in blobsDir
    flushed,     \* files whose data was synced
    matched,     \* files whose hash and size were compared with the manifest
    rotten,      \* files whose bytes have changed on the disk since
    blob,        \* the file at blobPath(sha)
    durable,     \* what may be at blobPath(sha) after a power loss
    opened,      \* opened[c]: the file a Verify hashed
    condemned,   \* history: files a Verify reported as drifted and gone
    crashes      \* crashes so far

locks == <<keymu, flock>>
files == <<temps, flushed, matched, rotten>>
path == <<blob, durable>>
verdicts == <<opened, condemned>>
vars == <<up, pc, locks, files, path, verdicts, crashes>>

Entries == Fetches \cup {Nobody}

Init ==
    /\ up = Procs
    /\ pc = [c \in Fetches |-> "idle"]
    /\ keymu = [p \in Procs |-> [i \in Images |-> Nobody]]
    /\ flock = Nobody
    /\ temps = {} /\ flushed = {} /\ matched = {} /\ rotten = {}
    /\ blob = Nobody
    /\ durable = {Nobody}
    /\ opened = [c \in Fetches |-> Nobody]
    /\ condemned = {}
    /\ crashes = 0

Goto(c, label) == pc' = [pc EXCEPT ![c] = label]

ReturnKeepsKey(c) ==
    /\ Goto(c, "done")
    /\ flock' = IF flock = c THEN Nobody ELSE flock
    /\ UNCHANGED keymu

(* The call returns: its deferred release and mu.Unlock. *)
Return(c) ==
    /\ Goto(c, "done")
    /\ flock' = IF flock = c THEN Nobody ELSE flock
    /\ keymu' = [keymu EXCEPT ![Proc[c]][Image[c]] = IF @ = c THEN Nobody ELSE @]

(* The call starts: Get's fast path, without a lock. *)
Start(c) ==
    /\ pc[c] = "idle"
    /\ Proc[c] \in up
    /\ Goto(c, IF Op[c] = "get" /\ blob # Nobody THEN "done" ELSE "keymu")
    /\ UNCHANGED <<up, locks, files, path, verdicts, crashes>>

(* keymu(imageID).Lock; Get looks again. *)
LockKey(c) ==
    /\ pc[c] = "keymu"
    /\ keymu[Proc[c]][Image[c]] = Nobody
    /\ IF Op[c] = "get" /\ blob # Nobody
       THEN Goto(c, "done") /\ UNCHANGED keymu
       ELSE Goto(c, "flock") /\ keymu' = [keymu EXCEPT ![Proc[c]][Image[c]] = c]
    /\ UNCHANGED <<up, flock, files, path, verdicts, crashes>>

LockSHAVerifyUnlocked(c) ==
    /\ pc[c] = "flock"
    /\ flock = Nobody \/ Op[c] = "verify"
    /\ \/ /\ Op[c] = "refresh" \/ (Op[c] = "get" /\ blob = Nobody)
          /\ Goto(c, "request")
          /\ flock' = c
          /\ UNCHANGED <<keymu, opened>>
       \/ /\ Op[c] = "verify" /\ blob # Nobody
          /\ Goto(c, "hash")
          /\ opened' = [opened EXCEPT ![c] = blob]
          /\ UNCHANGED <<keymu, flock>>
       \/ Return(c) /\ UNCHANGED opened
    /\ UNCHANGED <<up, files, path, condemned, crashes>>

(* acquireSHALock; Get looks a third time, Verify opens the blob.  A       *)
(* mkdir, open or flock that fails ends the call.                          *)
LockSHA(c) ==
    /\ pc[c] = "flock"
    /\ flock = Nobody
    /\ \/ /\ Op[c] = "refresh" \/ (Op[c] = "get" /\ blob = Nobody)
          /\ Goto(c, "request")
          /\ flock' = c
          /\ UNCHANGED <<keymu, opened>>
       \/ /\ Op[c] = "verify" /\ blob # Nobody
          /\ Goto(c, "hash")
          /\ flock' = c
          /\ opened' = [opened EXCEPT ![c] = blob]
          /\ UNCHANGED keymu
       \/ Return(c) /\ UNCHANGED opened
    /\ UNCHANGED <<up, files, path, condemned, crashes>>

(* The request is refused or answered with other than 200. *)
RequestFails(c) ==
    /\ pc[c] = "request"
    /\ Return(c)
    /\ UNCHANGED <<up, files, path, verdicts, crashes>>

CreateTemp(c) ==
    /\ pc[c] = "request"
    /\ temps' = temps \cup {c}
    /\ Goto(c, "download")
    /\ UNCHANGED <<up, locks, flushed, matched, rotten, path, verdicts, crashes>>

DownloadUnsynced(c) ==
    /\ pc[c] = "download"
    /\ Goto(c, "check")
    /\ UNCHANGED <<up, locks, files, path, verdicts, crashes>>

(* io.Copy and syncFile succeed. *)
Download(c) ==
    /\ pc[c] = "download"
    /\ flushed' = flushed \cup {c}
    /\ Goto(c, "check")
    /\ UNCHANGED <<up, locks, temps, matched, rotten, path, verdicts, crashes>>

(* The copy, the sync or the close fails, or the hash or the size is not   *)
(* the manifest's: the temp is removed.                                    *)
FetchFails(c) ==
    /\ pc[c] \in {"download", "check"}
    /\ temps' = temps \ {c}
    /\ Return(c)
    /\ UNCHANGED <<up, flushed, matched, rotten, path, verdicts, crashes>>

HashMatches(c) ==
    /\ pc[c] = "check"
    /\ matched' = matched \cup {c}
    /\ Goto(c, "rename")
    /\ UNCHANGED <<up, locks, temps, flushed, rotten, path, verdicts, crashes>>

(* renameFile publishes the temp, if it is still there. *)
Rename(c) ==
    /\ pc[c] = "rename"
    /\ \/ /\ c \in temps
          /\ blob' = c
          /\ durable' = durable \cup {c}
          /\ Goto(c, "syncDir")
          /\ UNCHANGED locks
       \/ Return(c) /\ UNCHANGED path
    /\ temps' = temps \ {c}
    /\ UNCHANGED <<up, flushed, matched, rotten, verdicts, crashes>>

(* syncDir; when it fails the blob stays where it is. *)
SyncDir(c) ==
    /\ pc[c] = "syncDir"
    /\ durable' \in {{blob}, durable}
    /\ Return(c)
    /\ UNCHANGED <<up, files, blob, verdicts, crashes>>

(* Verify hashes the file it opened, and returns if it matches or cannot   *)
(* be read.                                                                *)
Hash(c) ==
    /\ pc[c] = "hash"
    /\ \/ opened[c] \in rotten /\ Goto(c, "quarantine") /\ UNCHANGED locks
       \/ Return(c)
    /\ UNCHANGED <<up, files, path, verdicts, crashes>>

(* Whatever is at the path now is renamed to quarantinePath, a fresh name; *)
(* if that fails it is removed, and if that fails too it stays.            *)
Quarantine(c) ==
    /\ pc[c] = "quarantine"
    /\ blob' \in {Nobody, blob}
    /\ durable' = durable \cup {blob'}
    /\ Goto(c, "quarantineSync")
    /\ UNCHANGED <<up, locks, files, opened, condemned, crashes>>

QuarantineSync(c) ==
    /\ pc[c] = "quarantineSync"
    /\ \/ /\ durable' = {blob}
          /\ condemned' = IF blob = Nobody THEN condemned \cup {opened[c]} ELSE condemned
       \/ UNCHANGED <<durable, condemned>>
    /\ Return(c)
    /\ UNCHANGED <<up, files, blob, opened, crashes>>

(* A process is killed; the kernel drops its flock. *)
Killed(ps) ==
    /\ up' = up \ ps
    /\ pc' = [c \in Fetches |-> IF Proc[c] \in ps /\ pc[c] # "idle" THEN "done" ELSE pc[c]]
    /\ keymu' = [p \in Procs |-> IF p \in ps THEN [i \in Images |-> Nobody] ELSE keymu[p]]
    /\ flock' = IF flock # Nobody /\ Proc[flock] \in ps THEN Nobody ELSE flock
    /\ crashes < MaxCrashes
    /\ crashes' = crashes + 1

Kill(p) ==
    /\ p \in up
    /\ Killed({p})
    /\ UNCHANGED <<files, path, verdicts>>

(* All processes stop, and the disk keeps one of the durable entries. *)
PowerLoss ==
    /\ Killed(Procs)
    /\ \E f \in durable : blob' = f /\ durable' = {f}
    /\ UNCHANGED <<files, verdicts>>

(* NewFilesystemStore: sweepStaleIncoming, whosever temps they are. *)
Restart(p) ==
    /\ p \notin up
    /\ up' = up \cup {p}
    /\ temps' = {}
    /\ UNCHANGED <<pc, locks, flushed, matched, rotten, path, verdicts, crashes>>

Rot ==
    /\ blob # Nobody
    /\ rotten' = rotten \cup {blob}
    /\ UNCHANGED <<up, pc, locks, temps, flushed, matched, path, verdicts, crashes>>

Step(c) ==
    \/ LockKey(c) \/ LockSHA(c) \/ RequestFails(c) \/ CreateTemp(c) \/ Download(c)
    \/ FetchFails(c) \/ HashMatches(c) \/ Rename(c) \/ SyncDir(c)
    \/ Hash(c) \/ Quarantine(c) \/ QuarantineSync(c)

Next ==
    \/ \E c \in Fetches : Start(c) \/ Step(c)
    \/ \E p \in Procs : Kill(p) \/ Restart(p)
    \/ PowerLoss
    \/ Rot

(***************************************************************************)
(* Properties                                                              *)
(***************************************************************************)

(* Get's fast path never re-hashes, so everything at the blob path, or     *)
(* that a power loss can bring back there, was flushed and matched the     *)
(* manifest before it was published.                                       *)
BlobVerified == durable \ {Nobody} \subseteq flushed \cap matched

(* Once Verify has reported drift and moved the blob away, that file is    *)
(* not served again, not even after a power loss.                          *)
CondemnedStaysGone == condemned \cap durable = {}

(* A partial download is left behind only by a call in progress or by a    *)
(* killed process, until the next store is built on the directory.         *)
TempsOwned ==
    crashes = 0 => \A c \in temps : pc[c] \in {"download", "check", "rename"}

(* A good blob only ever gives way to a verified one: Refresh never        *)
(* removes it first, also when its fetch fails, and Verify never           *)
(* quarantines a fresh blob for what it read before.                       *)
GoodBlobKept ==
    [][blob # Nobody /\ blob \notin rotten /\ crashes' = crashes
          => blob' \in flushed \cap matched]_vars

(* Every call returns: no path keeps the in-process lock or the flock. *)
CallsReturn == \A c \in Fetches : pc[c] = "keymu" ~> pc[c] = "done"
===============================================================================
