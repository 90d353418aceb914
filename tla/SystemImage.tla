----------------------------- MODULE SystemImage -----------------------------
(***************************************************************************)
(* pkg/emulator: ensureSystemImageViaCache and extractSystemImageZip.      *)
(*                                                                         *)
(* The rows of a matrix want the same system image.  A row looks for the   *)
(* canonical pair system.img + build.prop, fetches the archive and writes  *)
(* its entries in place, one after the other; an entry is a partial file   *)
(* from its O_TRUNC to its close.  On an error it removes the entries it   *)
(* had finished.  Rows of a gating matrix take turns, those of a           *)
(* concurrent one overlap; the process may die at any point and a later    *)
(* matrix starts over on the same disk.                                    *)
(***************************************************************************)
EXTENDS Sequences, Naturals

CONSTANTS Rows,         \* rows that need the image
          Zips,         \* the entry lists an archive may have
          MaxAttempts,  \* calls of ensureSystemImageViaCache, all rows together
          MaxCrashes

VARIABLES
    zip,       \* the pinned archive
    gating,    \* Concurrent = 1
    disk,      \* by file of the target directory
    at,        \* by row: where it is
    next,      \* by row: the archive entry it is at
    open,      \* by row: that entry's file is created but not complete
    written,   \* by row: the entries it has completed
    attempts, crashes,
    spoilt     \* copies that failed half way

imageVars == <<zip, gating, disk, at, next, open, written, attempts, crashes, spoilt>>

Files == UNION {{z[i] : i \in DOMAIN z} : z \in Zips} \cup {"system.img", "build.prop"}

Idle == [r \in Rows |-> "idle"]
Nothing == [r \in Rows |-> {}]

Init ==
    /\ zip \in Zips /\ gating \in BOOLEAN
    /\ disk = [f \in Files |-> "absent"]
    /\ at = Idle /\ next = [r \in Rows |-> 1] /\ open = [r \in Rows |-> FALSE] /\ written = Nothing
    /\ attempts = 0 /\ crashes = 0 /\ spoilt = 0

Busy(r) == at[r] \in {"fetch", "unzip", "copy", "validate"}
Counters == <<attempts, crashes, spoilt>>

-----------------------------------------------------------------------------
(* The canonical pair is there, whatever is in it.                         *)
hasExtractedSystemImage(d) == d["system.img"] # "absent" /\ d["build.prop"] # "absent"

(* A row starts: the manifest, the entry or its URL may be bad; a pair on  *)
(* disk is taken as it is; otherwise the archive is fetched.               *)
ensureSystemImageViaCache(r) ==
    /\ at[r] \in {"idle", "failed"} /\ attempts < MaxAttempts
    /\ gating => \A q \in Rows : ~Busy(q)
    /\ attempts' = attempts + 1
    /\ \/ at' = [at EXCEPT ![r] = "failed"]
       \/ at' = [at EXCEPT ![r] = IF hasExtractedSystemImage(disk) THEN "ready" ELSE "fetch"]
    /\ UNCHANGED <<zip, gating, disk, next, open, written, crashes, spoilt>>

(* store.Get and zip.OpenReader, each of which may fail.                   *)
Fetch(r) ==
    /\ at[r] \in {"fetch", "unzip"}
    /\ \/ at' = [at EXCEPT ![r] = "failed"] /\ UNCHANGED <<next, written>>
       \/ /\ at' = [at EXCEPT ![r] = IF at[r] = "fetch" THEN "unzip" ELSE "copy"]
          /\ next' = [next EXCEPT ![r] = 1] /\ written' = [written EXCEPT ![r] = {}]
    /\ UNCHANGED <<zip, gating, disk, open, Counters>>

(* The cleanup closure removes the files of `written'.                     *)
Cleanup(r) == [f \in Files |-> IF f \in written[r] THEN "absent" ELSE disk[f]]

(* copyZipEntry creates the next entry, or cannot.                         *)
Create(r) ==
    /\ at[r] = "copy" /\ ~open[r] /\ next[r] <= Len(zip)
    /\ \/ disk' = [disk EXCEPT ![zip[next[r]]] = "partial"] /\ open' = [open EXCEPT ![r] = TRUE]
          /\ UNCHANGED at
       \/ disk' = Cleanup(r) /\ at' = [at EXCEPT ![r] = "failed"] /\ UNCHANGED open
    /\ UNCHANGED <<zip, gating, next, written, Counters>>

(* The bytes are all there and the entry joins `written'.  A file another  *)
(* row has removed meanwhile stays removed, and one that another row has   *)
(* truncated for itself is not complete yet.                               *)
Copied(r) ==
    /\ open[r]
    /\ LET file == zip[next[r]]
           shared == \E q \in Rows \ {r} : open[q] /\ zip[next[q]] = file
       IN disk' = [disk EXCEPT ![file] =
                     IF @ = "absent" THEN "absent" ELSE IF shared THEN "partial" ELSE "whole"]
    /\ open' = [open EXCEPT ![r] = FALSE]
    /\ written' = [written EXCEPT ![r] = @ \cup {zip[next[r]]}]
    /\ next' = [next EXCEPT ![r] = @ + 1]
    /\ UNCHANGED <<zip, gating, at, Counters>>

(* The copy breaks off (a full disk, a bad stream): the finished entries   *)
(* are removed, the broken one stays.                                      *)
CopyFails(r) ==
    /\ open[r]
    /\ disk' = Cleanup(r) /\ open' = [open EXCEPT ![r] = FALSE]
    /\ at' = [at EXCEPT ![r] = "failed"] /\ spoilt' = spoilt + 1
    /\ UNCHANGED <<zip, gating, next, written, attempts, crashes>>


(* The check after the last entry: an archive without the pair fails.      *)
Validate(r) ==
    /\ at[r] = "copy" /\ ~open[r] /\ next[r] = Len(zip) + 1
    /\ IF hasExtractedSystemImage(disk)
       THEN at' = [at EXCEPT ![r] = "ready"] /\ UNCHANGED disk
       ELSE at' = [at EXCEPT ![r] = "failed"] /\ disk' = Cleanup(r)
    /\ UNCHANGED <<zip, gating, next, open, written, Counters>>

(* The process dies; the files stay as they are.                           *)
Crash ==
    /\ \E r \in Rows : Busy(r)
    /\ crashes < MaxCrashes
    /\ crashes' = crashes + 1
    /\ at' = Idle /\ open' = [r \in Rows |-> FALSE] /\ written' = Nothing
    /\ UNCHANGED <<zip, gating, disk, next, attempts, spoilt>>

Next ==
    \/ Crash
    \/ \E r \in Rows : \/ ensureSystemImageViaCache(r) \/ Fetch(r)
                       \/ Create(r) \/ Copied(r) \/ CopyFails(r) \/ Validate(r)

Spec == Init /\ [][Next]_imageVars

-----------------------------------------------------------------------------

(* A row that fails leaves no pair behind that it did not find, under the  *)
(* same conditions: the next attempt extracts again instead of skipping.   *)
FailureIsRetried ==
    gating /\ crashes = 0 /\ spoilt <= 1 /\ (\A r \in Rows : ~Busy(r) /\ at[r] # "ready") =>
        ~hasExtractedSystemImage(disk)
=============================================================================
